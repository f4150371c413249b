----------------------------- MODULE KeysProofs -----------------------------
(***************************************************************************)
(* Theorems about Keys for every set of users, processes, secrets,         *)
(* concurrent votes and receipts.                                          *)
(***************************************************************************)
EXTENDS Keys, TLAPS

\* A process was told of every secret active elsewhere, or it counts as missed.
SecretsInv ==
    /\ KeysReadable
    /\ \A p, q \in Processes :
          config[q].active \in Told(config[p]) \cup missed[p]

\* The stored private key is the one of the stored public key.
PairInv == \A u \in Keyed : key[u].private = key[u].public

\* What a vote relies on between two statements.
CallOK(call) ==
    call # NULL =>
        /\ call.user \in Keyed /\ key[call.user].private = call.private
        /\ call.pc = "resolve" => \E v \in votes : v.request = call.request

CallInv == \A c \in Calls : CallOK(calls[c])

\* There is an entry only about a vote that was stored.
EntriesInv == \A e \in emitted \cup log : \E v \in votes : About(e, v)

\* A receipt shows every vote of its request that is older than its reading.
Seen(receipt, v) == (\E s \in receipt.votes : s.vote = v) \/ v.createdAt >= receipt.at

ReaderInv ==
    \A r \in Readers : readers[r] # NULL =>
        /\ readers[r].at <= now
        /\ \A v \in votes : v.request = readers[r].request => Seen(readers[r], v)
        /\ readers[r].pc = "entries" => readers[r].entries = {}

IInv == TypeOK /\ SecretsInv /\ PairInv /\ CallInv /\ EntriesInv
        /\ SignedByApprover /\ ReaderInv /\ ReceiptWhole

-----------------------------------------------------------------------------
\* A vote and a key under which its signature verifies, for some time.
Signed(v, public) ==
    \E t \in Times : Verify(public, PayloadOf(v.request, v.decision, t), v.signature)

LEMMA SignedRead ==
    SignedByApprover <=>
        /\ \A v \in votes : v.approver \in Keyed /\ Signed(v, key[v.approver].public)
        /\ \A r \in Readers : readers[r] # NULL =>
              \A s \in readers[r].votes : Signed(s.vote, s.public)
  BY DEF SignedByApprover, Signed

LEMMA SignedNext ==
    SignedByApprover' <=>
        /\ \A v \in votes' : v.approver \in Keyed' /\ Signed(v, key'[v.approver].public)
        /\ \A r \in Readers : readers'[r] # NULL =>
              \A s \in readers'[r].votes : Signed(s.vote, s.public)
  BY DEF SignedByApprover, Signed, Verify, PayloadOf

\* The clock.
LEMMA Clock == TypeOK => now \in Int /\ now \in Times
  BY KeysAssumption DEF TypeOK, Times

\* Nothing is stored and no vote is open at first.
LEMMA InitInv == Init => IInv
  <1> SUFFICES ASSUME Init PROVE IInv
    OBVIOUS
  <1>1. Keyed = {} /\ votes = {} /\ emitted \cup log = {}
    BY DEF Init, Keyed
  <1>2. TypeOK
    BY KeysAssumption DEF Init, TypeOK, Config, Times
  <1>3. SecretsInv
    BY <1>1 DEF Init, SecretsInv, KeysReadable, Told
  <1>4. PairInv /\ EntriesInv /\ SignedByApprover
    BY <1>1 DEF PairInv, EntriesInv, SignedByApprover, Init
  <1>5. CallInv /\ ReaderInv /\ ReceiptWhole
    BY DEF Init, CallInv, CallOK, ReaderInv, ReceiptWhole
  <1> QED BY <1>2, <1>3, <1>4, <1>5 DEF IInv

\* A step that leaves the keys' pairs and the votes' tables in place, or only adds to
\* them, keeps what was said of them.
PairsKept ==
    \A u \in Keyed : /\ u \in Keyed'
                     /\ key'[u].public = key[u].public /\ key'[u].private = key[u].private

LEMMA CallKept ==
    ASSUME PairsKept, votes \subseteq votes', NEW call, CallOK(call)
    PROVE  CallOK(call)'
  BY DEF PairsKept, CallOK

LEMMA SignedKept ==
    ASSUME SignedByApprover, PairsKept, votes' = votes, readers' = readers
    PROVE  SignedByApprover'
  BY SignedRead, SignedNext DEF PairsKept

LEMMA ReadersKept ==
    ASSUME TypeOK, ReaderInv, ReceiptWhole, readers' = readers,
           votes \subseteq votes', now \in Int, now' \in Int, now <= now',
           \A v \in votes' \ votes : v.createdAt = now
    PROVE  ReaderInv' /\ ReceiptWhole'
  <1>1. ReaderInv'
    <2> SUFFICES ASSUME NEW r \in Readers, readers[r] # NULL
                 PROVE  /\ readers[r].at <= now'
                        /\ \A v \in votes' : v.request = readers[r].request => Seen(readers[r], v)
                        /\ readers[r].pc = "entries" => readers[r].entries = {}
      BY DEF ReaderInv, Seen
    <2>1. readers[r].at \in Int
      BY KeysAssumption DEF TypeOK, Receipt, Times
    <2> QED BY <2>1 DEF ReaderInv, Seen
  <1>2. ReceiptWhole'
    BY DEF ReceiptWhole, About
  <1> QED BY <1>1, <1>2

-----------------------------------------------------------------------------
\* The operator lists the replaced secret; every other secret in use that he does not
\* list, and the new one for the other processes, counts as missed.
LEMMA RedeployStep ==
    ASSUME IInv, NEW p \in Processes, NEW new \in Config, Redeploy(p, new)
    PROVE  IInv'
  <1> USE DEF IInv
  <1>1. /\ UNCHANGED <<key, votes, readers, emitted, log, now>> /\ Keyed' = Keyed /\ PairsKept
    BY DEF Redeploy, voteVars, Keyed, PairsKept
  <1>2. TypeOK'
    <2>1. config' \in [Processes -> Config] /\ missed' \in [Processes -> SUBSET Secrets]
      <3>1. InUse \subseteq Secrets
        BY DEF InUse, Keyed, TypeOK, KeyRow, Config
      <3> QED BY <3>1 DEF Redeploy, TypeOK, Config
    <2>2. deploys' \in Nat /\ calls' \in [Calls -> Call \cup {NULL}]
      BY DEF Redeploy, TypeOK
    <2> QED BY <1>1, <2>1, <2>2 DEF Redeploy, voteVars, TypeOK
  <1>3. /\ config'[p] = new /\ missed'[p] = InUse \ Told(new)
        /\ \A q \in Processes : q # p =>
              config'[q] = config[q] /\ missed'[q] = missed[q] \cup {new.active}
    BY DEF Redeploy, TypeOK
  <1>4. InUse \subseteq Told(config'[p]) \cup missed'[p]
    BY <1>3
  <1>5. KeysReadable'
    <2> SUFFICES ASSUME NEW q \in Processes, NEW u \in Keyed
                 PROVE  Decrypts(q, key[u])' \/ key[u].secret \in missed'[q]
      BY <1>1 DEF KeysReadable
    <2>1. CASE q = p
      BY <2>1, <1>1, <1>3, <1>4 DEF Decrypts, InUse
    <2>2. CASE q # p
      BY <2>2, <1>1, <1>3 DEF Decrypts, SecretsInv, KeysReadable
    <2> QED BY <2>1, <2>2
  <1>6. SecretsInv'
    <2> SUFFICES ASSUME NEW q \in Processes, NEW r \in Processes
                 PROVE  config'[r].active \in
                            Told(config'[q]) \cup missed'[q]
      BY <1>5 DEF SecretsInv
    <2>1. CASE q = p
      BY <2>1, <1>3, <1>4 DEF InUse, Told
    <2>2. CASE q # p
      BY <2>2, <1>3 DEF SecretsInv
    <2> QED BY <2>1, <2>2
  <1>7. CallInv'
    BY <1>1, CallKept DEF CallInv, Redeploy, CallOK
  <1>8. PairInv' /\ EntriesInv' /\ SignedByApprover' /\ ReaderInv' /\ ReceiptWhole'
    BY <1>1, SignedKept, ReadersKept, Clock DEF PairInv, EntriesInv
  <1> QED BY <1>2, <1>6, <1>7, <1>8

\* A row written under the active secret of a process is readable, as that secret is known.
LEMMA WrittenReadable ==
    ASSUME IInv, NEW p \in Processes, NEW u \in Users, NEW row, row.secret = config[p].active,
           key' = [key EXCEPT ![u] = row], UNCHANGED <<config, missed>>
    PROVE  SecretsInv'
  <1>1. \A v \in Keyed' : IF v = u THEN key'[v] = row ELSE v \in Keyed /\ key'[v] = key[v]
    BY DEF IInv, TypeOK, Keyed
  <1>2. KeysReadable'
    BY <1>1 DEF IInv, SecretsInv, KeysReadable, Decrypts, Keyed
  <1> QED BY <1>2 DEF IInv, SecretsInv

\* A registration adds a whole pair, or nothing.
LEMMA GenerateStep ==
    ASSUME IInv, NEW p \in Processes, NEW u \in Users, NEW pair \in Pairs,
           GenerateKeypairForUser(p, u, pair)
    PROVE  IInv'
  <1> USE DEF IInv
  <1> DEFINE row == [public |-> pair, private |-> pair, secret |-> config[p].active]
  <1>1. /\ UNCHANGED <<config, missed, deploys, requester, resolved, votes, calls, emitted, log>>
        /\ UNCHANGED <<readers, now>>
    BY DEF GenerateKeypairForUser, voteVars
  <1>2. CASE key[u] # NULL
    <2>1. key' = key
      BY <1>2 DEF GenerateKeypairForUser, Inserted, TypeOK
    <2> QED BY <1>1, <2>1 DEF TypeOK, SecretsInv, KeysReadable, Decrypts, PairInv, Keyed,
                CallInv, CallOK, EntriesInv, SignedByApprover, ReaderInv, ReceiptWhole, Verify, PayloadOf, About
  <1>3. CASE key[u] = NULL
    <2>1. key' = [key EXCEPT ![u] = row] /\ row \in KeyRow
      BY <1>3 DEF GenerateKeypairForUser, Inserted, Row, EncryptPrivateKey, TypeOK, Config, KeyRow
    <2>2. PairsKept /\ TypeOK'
      BY <1>1, <1>3, <2>1, KeysAssumption DEF PairsKept, Keyed, TypeOK
    <2>3. SecretsInv'
      BY <1>1, <2>1, WrittenReadable
    <2>4. PairInv'
      BY <2>1 DEF PairInv, Keyed, TypeOK
    <2>5. CallInv'
      BY <1>1, <2>2, CallKept DEF CallInv
    <2>6. EntriesInv' /\ SignedByApprover' /\ ReaderInv' /\ ReceiptWhole'
      BY <1>1, <2>2, SignedKept, ReadersKept, Clock DEF EntriesInv
    <2> QED BY <2>2, <2>3, <2>4, <2>5, <2>6
  <1> QED BY <1>2, <1>3

\* Statements that change only the state of calls, entries and receipts leave the
\* invariants on keys as they are.
LEMMA KeysKept ==
    ASSUME IInv, UNCHANGED keyVars
    PROVE  SecretsInv' /\ PairInv' /\ PairsKept /\ Keyed' = Keyed
  BY DEF IInv, keyVars, SecretsInv, KeysReadable, Decrypts, PairInv, Keyed, PairsKept

LEMMA SubmitStep ==
    ASSUME IInv, NEW c \in Calls, NEW p \in Processes, NEW u \in Users, NEW r \in Requests,
           NEW d \in Decisions, SubmitVote(c, p, u, r, d)
    PROVE  IInv'
  <1> USE DEF IInv
  <1> DEFINE call == [pc |-> IF NeedsReencryption(p, key[u]) THEN "reencrypt" ELSE "insert",
                      process |-> p, user |-> u, request |-> r, decision |-> d,
                      timestamp |-> now, private |-> key[u].private]
  <1>1. /\ UNCHANGED <<votes, readers, emitted, log, now>> /\ UNCHANGED keyVars /\ UNCHANGED voteVars
        /\ u \in Keyed /\ calls' = [calls EXCEPT ![c] = call]
    BY DEF SubmitVote, voteVars
  <1>2. call \in Call
    BY <1>1 DEF Call, Steps, Keyed, TypeOK, KeyRow
  <1>3. TypeOK'
    BY <1>1, <1>2 DEF TypeOK, keyVars, voteVars
  <1>4. SecretsInv' /\ PairInv' /\ PairsKept
    BY <1>1, KeysKept
  <1>5. CallOK(call)
    BY <1>1 DEF CallOK
  <1>6. CallInv'
    BY <1>1, <1>4, <1>5, CallKept DEF CallInv, TypeOK
  <1>7. EntriesInv' /\ SignedByApprover' /\ ReaderInv' /\ ReceiptWhole'
    BY <1>1, <1>4, SignedKept, ReadersKept, Clock DEF EntriesInv
  <1> QED BY <1>3, <1>4, <1>6, <1>7

\* The blob a vote writes back is of the pair it read, which nothing replaced meanwhile.
LEMMA ReencryptStep ==
    ASSUME IInv, NEW c \in Calls, Reencrypt(c)
    PROVE  IInv'
  <1> USE DEF IInv
  <1> DEFINE call == calls[c]
             row  == [public |-> key[call.user].public, private |-> call.private,
                      secret |-> config[call.process].active]
  <1>1. /\ call \in Call /\ call.pc = "reencrypt" /\ call.user \in Keyed
        /\ key[call.user].private = call.private /\ key[call.user] \in KeyRow
    BY DEF Reencrypt, TypeOK, CallInv, CallOK, Keyed
  <1>2. /\ UNCHANGED <<config, missed, deploys, requester, resolved, votes, emitted, log>>
        /\ UNCHANGED <<readers, now>>
        /\ key' = [key EXCEPT ![call.user] = row]
        /\ calls' = [calls EXCEPT ![c].pc = "insert"]
    BY DEF Reencrypt, voteVars, Row, EncryptPrivateKey
  <1>3. /\ call.user \in Users /\ call.process \in Processes /\ row \in KeyRow
        /\ [call EXCEPT !.pc = "insert"] \in Call
    BY <1>1 DEF Call, Steps, KeyRow, TypeOK, Config
  <1>4. TypeOK'
    BY <1>2, <1>3 DEF TypeOK
  <1>5. PairsKept
    BY <1>1, <1>2, <1>3, KeysAssumption DEF PairsKept, Keyed, TypeOK
  <1>6. SecretsInv'
    BY <1>2, <1>3, WrittenReadable
  <1>7. PairInv'
    BY <1>1, <1>2, <1>3 DEF PairInv, Keyed, TypeOK
  <1>8. CallInv'
    <2>1. calls'[c].user = call.user /\ calls'[c].private = call.private /\ calls'[c].pc = "insert"
      BY <1>1, <1>2 DEF TypeOK, Call
    <2>2. CallOK(calls[c])'
      BY <1>1, <1>5, <2>1 DEF CallOK, PairsKept
    <2>3. \A d \in Calls : d # c => calls'[d] = calls[d]
      BY <1>2 DEF TypeOK
    <2> QED BY <1>2, <1>5, <2>2, <2>3, CallKept DEF CallInv
  <1>9. EntriesInv' /\ SignedByApprover' /\ ReaderInv' /\ ReceiptWhole'
    BY <1>2, <1>5, SignedKept, ReadersKept, Clock DEF EntriesInv
  <1> QED BY <1>4, <1>5, <1>6, <1>7, <1>8, <1>9

\* The INSERT stores the only vote of its approver on the request, signed with the pair
\* whose public key is stored, and its entry; or it throws and stores neither.
LEMMA InsertStep ==
    ASSUME IInv, NEW c \in Calls, InsertVote(c)
    PROVE  IInv'
  <1> USE DEF IInv
  <1> DEFINE call == calls[c]
             vote == VoteOf(call)
             entry == [type |-> "vote", request |-> call.request, signature |-> Sign(call)]
  <1>1. /\ call \in Call /\ call.user \in Keyed /\ key[call.user].private = call.private
        /\ UNCHANGED keyVars /\ UNCHANGED <<requester, resolved, log, readers, now>>
    BY DEF InsertVote, TypeOK, CallInv, CallOK
  <1>2. SecretsInv' /\ PairInv' /\ PairsKept /\ Keyed' = Keyed
    BY <1>1, KeysKept
  <1>3. CASE UniqueViolation(call)
    <2>1. UNCHANGED <<votes, emitted>> /\ calls' = [calls EXCEPT ![c] = NULL]
      BY <1>3 DEF InsertVote, Announced, End
    <2>2. TypeOK' /\ CallInv'
      BY <1>1, <1>2, <2>1, CallKept DEF TypeOK, CallInv, CallOK, keyVars
    <2>3. EntriesInv' /\ SignedByApprover' /\ ReaderInv' /\ ReceiptWhole'
      BY <1>1, <1>2, <2>1, SignedKept, ReadersKept, Clock DEF EntriesInv
    <2> QED BY <1>2, <2>2, <2>3
  <1>4. CASE ~UniqueViolation(call)
    <2>1. /\ votes' = votes \cup {vote} /\ emitted' = emitted \cup {entry}
          /\ calls' = [calls EXCEPT ![c].pc = "resolve"]
      BY <1>4 DEF InsertVote, Announced
    <2>2. /\ vote \in Vote /\ entry \in Entry /\ [call EXCEPT !.pc = "resolve"] \in Call
          /\ vote.request = call.request /\ vote.approver = call.user /\ About(entry, vote)
      BY <1>1, Clock DEF Call, Steps, Vote, Signature, Payload, PayloadOf, Entry, VoteEntry,
         VoteOf, Sign, About
    <2>3. TypeOK'
      BY <1>1, <2>1, <2>2 DEF TypeOK, keyVars
    <2>4. CallInv'
      <3>1. /\ calls'[c].user = call.user /\ calls'[c].private = call.private
            /\ calls'[c].request = call.request
        BY <1>1, <2>1 DEF TypeOK, Call
      <3>2. CallOK(calls[c])'
        BY <1>1, <1>2, <2>1, <2>2, <3>1 DEF CallOK, PairsKept
      <3>3. \A d \in Calls : d # c => calls'[d] = calls[d]
        BY <2>1 DEF TypeOK
      <3> QED BY <1>2, <2>1, <3>2, <3>3, CallKept DEF CallInv
    <2>5. EntriesInv'
      BY <1>1, <2>1, <2>2 DEF EntriesInv
    <2>6. Signed(vote, key'[vote.approver].public)
      <3>1. vote.signature = [by |-> key'[vote.approver].public,
                              payload |-> PayloadOf(vote.request, vote.decision, call.timestamp)]
        BY <1>1, <1>2, <2>2 DEF VoteOf, Sign, PairInv, PairsKept
      <3>2. call.timestamp \in Times
        BY <1>1 DEF Call
      <3> QED BY <3>1, <3>2 DEF Signed, Verify
    <2>7. SignedByApprover'
      BY <1>1, <1>2, <2>1, <2>2, <2>6, SignedRead, SignedNext DEF PairsKept
    <2>8. ReaderInv' /\ ReceiptWhole'
      BY <1>1, <2>1, ReadersKept, Clock DEF VoteOf
    <2> QED BY <1>2, <2>3, <2>4, <2>5, <2>7, <2>8
  <1> QED BY <1>3, <1>4

\* A resolution emits an entry about the vote its call stored.
LEMMA ResolveStep ==
    ASSUME IInv, NEW c \in Calls, Resolve(c)
    PROVE  IInv'
  <1> USE DEF IInv
  <1> DEFINE call == calls[c]
             entry == [type |-> "request_resolved", request |-> call.request]
  <1>1. /\ call \in Call /\ \E v \in votes : v.request = call.request
        /\ UNCHANGED keyVars /\ UNCHANGED <<requester, votes, log, readers, now>>
        /\ resolved' = resolved \cup {call.request} /\ emitted' = emitted \cup {entry}
        /\ calls' = [calls EXCEPT ![c] = NULL]
    BY DEF Resolve, End, TypeOK, CallInv, CallOK
  <1>2. entry \in Entry /\ \E v \in votes : About(entry, v)
    BY <1>1 DEF Entry, ResolvedEntry, Call, About
  <1>3. SecretsInv' /\ PairInv' /\ PairsKept
    BY <1>1, KeysKept
  <1>4. TypeOK'
    BY <1>1, <1>2 DEF TypeOK, Call, keyVars
  <1>5. CallInv'
    BY <1>1, <1>3, CallKept DEF CallInv, CallOK, TypeOK
  <1>6. EntriesInv' /\ SignedByApprover' /\ ReaderInv' /\ ReceiptWhole'
    BY <1>1, <1>2, <1>3, SignedKept, ReadersKept, Clock DEF EntriesInv
  <1> QED BY <1>3, <1>4, <1>5, <1>6

LEMMA AbortStep ==
    ASSUME IInv, NEW c \in Calls, Abort(c)
    PROVE  IInv'
  <1> USE DEF IInv
  <1>1. /\ UNCHANGED keyVars /\ UNCHANGED <<requester, resolved, votes, emitted, log, readers, now>>
        /\ calls' = [calls EXCEPT ![c] = NULL]
    BY DEF Abort, End, voteVars
  <1>2. SecretsInv' /\ PairInv' /\ PairsKept
    BY <1>1, KeysKept
  <1>3. TypeOK' /\ CallInv'
    BY <1>1, <1>2, CallKept DEF TypeOK, CallInv, CallOK, keyVars
  <1>4. EntriesInv' /\ SignedByApprover' /\ ReaderInv' /\ ReceiptWhole'
    BY <1>1, <1>2, SignedKept, ReadersKept, Clock DEF EntriesInv
  <1> QED BY <1>2, <1>3, <1>4

LEMMA AppendStep ==
    ASSUME IInv, NEW e \in emitted, AppendAuditEntry(e)
    PROVE  IInv'
  <1> USE DEF IInv
  <1>1. /\ UNCHANGED keyVars /\ UNCHANGED <<requester, resolved, votes, calls, readers, now>>
        /\ emitted' \subseteq emitted /\ log' \subseteq log \cup {e}
    BY DEF AppendAuditEntry
  <1>2. SecretsInv' /\ PairInv' /\ PairsKept
    BY <1>1, KeysKept
  <1>3. TypeOK' /\ CallInv'
    BY <1>1, <1>2, CallKept DEF TypeOK, CallInv, keyVars
  <1>4. EntriesInv' /\ SignedByApprover' /\ ReaderInv' /\ ReceiptWhole'
    BY <1>1, <1>2, SignedKept, ReadersKept, Clock DEF EntriesInv, About
  <1> QED BY <1>2, <1>3, <1>4

-----------------------------------------------------------------------------
\* The votes a receipt shows are joined with keys under which they verify.
LEMMA SelectVotesStep ==
    ASSUME IInv, NEW r \in Readers, NEW u \in Users, NEW q \in Requests, SelectVotes(r, u, q)
    PROVE  IInv'
  <1> USE DEF IInv
  <1> DEFINE receipt == [pc |-> "entries", request |-> q, at |-> now, votes |-> Joined(q),
                         entries |-> {}]
  <1>1. /\ UNCHANGED keyVars /\ UNCHANGED <<requester, resolved, votes, emitted, log, calls, now>>
        /\ readers' = [readers EXCEPT ![r] = receipt]
    BY DEF SelectVotes, voteVars
  <1>2. SecretsInv' /\ PairInv' /\ PairsKept
    BY <1>1, KeysKept
  <1>3. \A s \in Joined(q) : /\ s \in SignedVote /\ s.vote \in votes /\ s.vote.request = q
                             /\ Signed(s.vote, s.public)
    <2> SUFFICES ASSUME NEW v \in votes, v.request = q
                 PROVE  /\ v \in Vote /\ key[v.approver].public \in Pairs
                        /\ v.approver \in Keyed /\ Signed(v, key[v.approver].public)
      BY DEF Joined, SignedVote, Keyed
    <2>1. v \in Vote /\ v.approver \in Keyed /\ Signed(v, key[v.approver].public)
      BY SignedRead DEF TypeOK
    <2> QED BY <2>1 DEF Keyed, TypeOK, KeyRow
  <1>4. receipt \in Receipt
    BY <1>3, Clock DEF Receipt
  <1>5. TypeOK' /\ CallInv'
    BY <1>1, <1>2, <1>4, CallKept DEF TypeOK, CallInv, keyVars
  <1>6. /\ readers'[r] = receipt
        /\ \A s \in Readers : s # r => readers'[s] = readers[s]
    BY <1>1 DEF TypeOK
  <1>7. SignedByApprover'
    BY <1>1, <1>2, <1>3, <1>6, SignedRead, SignedNext DEF keyVars, Keyed
  <1>8. EntriesInv' /\ ReaderInv'
    <2>1. ASSUME NEW v \in votes, v.request = q PROVE \E s \in receipt.votes : s.vote = v
      <3> DEFINE s == [vote |-> v,
                       public |-> IF key[v.approver] = NULL THEN NULL ELSE key[v.approver].public]
      <3>1. s \in Joined(q) /\ s.vote = v
        BY <2>1 DEF Joined
      <3> QED BY <3>1
    <2>2. now <= now
      BY Clock
    <2> QED BY <1>1, <1>6, <2>1, <2>2 DEF EntriesInv, ReaderInv, Seen
  <1>9. ReceiptWhole'
    BY <1>1, <1>6 DEF ReceiptWhole, About
  <1> QED BY <1>2, <1>5, <1>7, <1>8, <1>9

\* An entry is about a stored vote, which the receipt shows or which is younger than it.
LEMMA SelectEntriesStep ==
    ASSUME IInv, NEW r \in Readers, SelectEntries(r)
    PROVE  IInv'
  <1> USE DEF IInv
  <1> DEFINE old == readers[r]
             found == {e \in log : e.request = old.request}
  <1>1. /\ UNCHANGED keyVars /\ UNCHANGED <<requester, resolved, votes, emitted, log, calls, now>>
        /\ old \in Receipt /\ old # NULL
        /\ readers' = [readers EXCEPT ![r].pc = "done", ![r].entries = found]
    BY DEF SelectEntries, voteVars, TypeOK
  <1>2. SecretsInv' /\ PairInv' /\ PairsKept
    BY <1>1, KeysKept
  <1>3. [old EXCEPT !.pc = "done", !.entries = found] \in Receipt
    BY <1>1 DEF Receipt, TypeOK
  <1>4. TypeOK' /\ CallInv'
    BY <1>1, <1>2, <1>3, CallKept DEF TypeOK, CallInv, keyVars
  <1>5. /\ readers'[r].votes = old.votes /\ readers'[r].request = old.request
        /\ readers'[r].at = old.at
        /\ readers'[r].entries = found /\ readers'[r].pc = "done"
        /\ \A s \in Readers : s # r => readers'[s] = readers[s]
    BY <1>1 DEF TypeOK, Receipt
  <1>5a. \A s \in Readers : readers'[s] # NULL =>
            /\ readers[s] # NULL /\ readers'[s].votes = readers[s].votes
            /\ readers'[s].request = readers[s].request /\ readers'[s].at = readers[s].at
    BY <1>1, <1>5
  <1>5b. \A s \in Readers : readers'[s] # NULL /\ readers'[s].pc = "entries" => readers'[s].entries = {}
    BY <1>1, <1>5 DEF ReaderInv
  <1>6. SignedByApprover'
    BY <1>1, <1>2, <1>5a, SignedRead, SignedNext DEF keyVars, Keyed
  <1>7. EntriesInv' /\ ReaderInv'
    BY <1>1, <1>5a, <1>5b DEF EntriesInv, ReaderInv, Seen
  <1>8. ReceiptWhole'
    <2> DEFINE Whole(receipt, e) ==
          LET shown == {x.vote : x \in receipt.votes}
          IN  \E v \in votes : About(e, v)
                 /\ (v \in shown \/ v.createdAt >= receipt.at)
    <2> SUFFICES ASSUME NEW s \in Readers, readers'[s] # NULL, NEW e \in readers'[s].entries
                 PROVE  Whole(readers'[s], e)
      BY <1>1 DEF ReceiptWhole, About
    <2> HIDE DEF IInv
    <2>1. CASE s # r
      BY <2>1, <1>5 DEF ReceiptWhole, IInv
    <2>2. CASE s = r
      <3>1. e \in log /\ e.request = old.request
        BY <2>2, <1>5
      <3>2. PICK v \in votes : About(e, v)
        BY <3>1 DEF EntriesInv, IInv
      <3>3. Seen(old, v)
        BY <1>1, <3>1, <3>2 DEF ReaderInv, About, IInv
      <3> QED BY <2>2, <1>5, <3>2, <3>3 DEF Seen
    <2> QED BY <2>1, <2>2
  <1> QED BY <1>2, <1>4, <1>6, <1>7, <1>8

\* The clock moves, and nothing else.
LEMMA TickStep ==
    ASSUME IInv, Tick
    PROVE  IInv'
  <1> USE DEF IInv
  <1>1. /\ UNCHANGED keyVars /\ UNCHANGED <<requester, resolved, votes, emitted, log, calls, readers>>
        /\ now' \in Times /\ now' \in Int /\ now <= now'
    BY KeysAssumption DEF Tick, voteVars, TypeOK, Times
  <1>2. SecretsInv' /\ PairInv' /\ PairsKept
    BY <1>1, KeysKept
  <1>3. TypeOK' /\ CallInv'
    BY <1>1, <1>2, CallKept DEF TypeOK, CallInv, keyVars
  <1>4. EntriesInv' /\ SignedByApprover' /\ ReaderInv' /\ ReceiptWhole'
    BY <1>1, <1>2, SignedKept, ReadersKept, Clock DEF EntriesInv
  <1> QED BY <1>2, <1>3, <1>4

-----------------------------------------------------------------------------
\* The invariant is inductive.
LEMMA StepInv == IInv /\ [Next]_vars => IInv'
  <1> SUFFICES ASSUME IInv, [Next]_vars PROVE IInv'
    OBVIOUS
  <1>1. CASE UNCHANGED vars
    <2>1. /\ UNCHANGED keyVars /\ UNCHANGED <<requester, resolved, votes, emitted, log, calls>>
          /\ UNCHANGED <<readers, now>>
      BY <1>1 DEF vars, keyVars
    <2>2. SecretsInv' /\ PairInv' /\ PairsKept
      BY <2>1, KeysKept
    <2>3. TypeOK' /\ CallInv'
      BY <2>1, <2>2, CallKept DEF IInv, TypeOK, CallInv, keyVars
    <2>4. EntriesInv' /\ SignedByApprover' /\ ReaderInv' /\ ReceiptWhole'
      BY <2>1, <2>2, SignedKept, ReadersKept, Clock DEF IInv, EntriesInv
    <2> QED BY <2>2, <2>3, <2>4 DEF IInv
  <1>2. CASE Next
    BY <1>2, RedeployStep, GenerateStep, SubmitStep, ReencryptStep, InsertStep, ResolveStep,
       AbortStep, AppendStep, SelectVotesStep, SelectEntriesStep, TickStep DEF Next
  <1> QED BY <1>1, <1>2

LEMMA Invariance == Spec => []IInv
  <1>1. Init => IInv
    BY InitInv
  <1>2. IInv /\ [Next]_vars => IInv'
    BY StepInv
  <1> QED BY <1>1, <1>2, PTL DEF Spec

\* Every variable of Keys keeps its type; in particular no receipt shows a vote without
\* its public key.
THEOREM TypeCorrect == Spec => []TypeOK
  <1>1. IInv => TypeOK
    BY DEF IInv
  <1> QED BY <1>1, Invariance, PTL

\* decryptPrivateKeyWithMigration: whatever registrations, re-encryptions and deployments
\* race, a process reads every stored key, except under a secret that was in use when it
\* was deployed without being told of it, or that was made active later.
THEOREM KeysStayReadable == Spec => []KeysReadable
  <1>1. IInv => KeysReadable
    BY DEF IInv, SecretsInv
  <1> QED BY <1>1, Invariance, PTL

\* sign, in submitVote: every stored vote, and every vote a receipt shows, is signed with
\* the key stored or shown with it, for its request, its decision and some time.
THEOREM VotesSigned == Spec => []SignedByApprover
  <1>1. IInv => SignedByApprover
    BY DEF IInv
  <1> QED BY <1>1, Invariance, PTL

\* getReceiptForRequest: the entries of a receipt are about stored votes, which it shows
\* unless they were stored no earlier than its votes were read.
THEOREM ReceiptsWhole == Spec => []ReceiptWhole
  <1>1. IInv => ReceiptWhole
    BY DEF IInv
  <1> QED BY <1>1, Invariance, PTL
=============================================================================
