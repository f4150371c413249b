-------------------------------- MODULE Keys --------------------------------
(***************************************************************************)
(* Signing keys and receipts: keys.service.ts and signing.service.ts       *)
(* behind a vote, and getReceiptForRequest behind GET /receipt/:requestId. *)
(*                                                                         *)
(* Several processes share the database, each with the secrets it was      *)
(* deployed with.  A user's private key is stored encrypted under one      *)
(* secret and re-encrypted when a process with another active secret signs *)
(* with it: a SELECT and an unconditional UPDATE, with an await between.   *)
(* Ed25519 and AES-GCM are perfect: a signature verifies under the public  *)
(* key of its pair and for the payload that was signed only, and only the  *)
(* right secret decrypts.  One clock stands for those of the processes and *)
(* of the database.                                                        *)
(*                                                                         *)
(* A definition that no other one uses and that stands right before the    *)
(* one it resembles is a plausible mistake in that code.                   *)
(***************************************************************************)
EXTENDS Integers, FiniteSets

CONSTANTS NULL, Users, Requests,
          Processes,
          Secrets,   \* values of SIGNING_KEY_ENCRYPTION_SECRET over time
          Pairs,     \* the keypairs ever generated
          Calls,     \* votes that can be open at one time
          Readers,   \* receipts ever read
          First,     \* the secret of the first deployment
          MaxDeploys, \* bound on restarts with new secrets
          MaxTime    \* bound on the clock

Decisions == {"approve", "deny"}
Times == 0..MaxTime

VARIABLES
    config,     \* process -> its secrets
    missed,     \* process -> the secrets in use somewhere that it was not told of
    deploys,    \* restarts so far
    key,        \* signing_keys: user -> row, NULL when there is no row
    requester,  \* approval_requests: request -> requester_id
    resolved,   \* the requests whose status is no longer pending
    votes,      \* approval_votes
    calls,      \* the votes under way
    emitted,    \* audit entries handed to appendAuditEntry, not written yet
    log,        \* audit_log
    readers,    \* the receipts read or being read
    now         \* the clock

vars == <<config, missed, deploys, key, requester, resolved, votes, calls, emitted, log,
          readers, now>>
keyVars  == <<config, missed, deploys, key>>
voteVars == <<requester, resolved, votes, emitted, log>>

Config    == [active : Secrets, previous : SUBSET Secrets]
KeyRow    == [public : Pairs, private : Pairs, secret : Secrets]
Payload   == [request : Requests, decision : Decisions, timestamp : Times]
Signature == [by : Pairs, payload : Payload]
\* The row of a vote keeps its request, approver and decision, and created_at, the time
\* of the INSERT; the timestamp that was signed is in no column.
Vote      == [request : Requests, approver : Users, decision : Decisions,
              signature : Signature, createdAt : Times]
VoteEntry     == [type : {"vote"}, request : Requests, signature : Signature]
ResolvedEntry == [type : {"request_resolved"}, request : Requests]
Entry     == VoteEntry \cup ResolvedEntry

\* The statement a vote runs next: UPDATE the key, INSERT the vote, UPDATE the request.
Steps == {"reencrypt", "insert", "resolve"}
Call  == [pc : Steps, process : Processes, user : Users, request : Requests,
          decision : Decisions, timestamp : Times, private : Pairs]

\* A vote as the receipt joins it with signing_keys; the code allows a null public_key,
\* and no vote has one.
SignedVote == [vote : Vote, public : Pairs]
Receipt == [pc : {"entries", "done"}, request : Requests, at : Times,
            votes : SUBSET SignedVote, entries : SUBSET Entry]

ASSUME KeysAssumption ==
    /\ First \in Secrets /\ MaxDeploys \in Nat /\ MaxTime \in Nat
    /\ NULL \notin KeyRow \cup Call \cup Receipt \cup Pairs

Init ==
    /\ config = [p \in Processes |-> [active |-> First, previous |-> {}]]
    /\ missed = [p \in Processes |-> {}] /\ deploys = 0 /\ now = 0
    /\ key = [u \in Users |-> NULL]
    /\ requester \in [Requests -> Users] /\ resolved = {}
    /\ votes = {} /\ emitted = {} /\ log = {}
    /\ calls = [c \in Calls |-> NULL] /\ readers = [r \in Readers |-> NULL]

Keyed == {u \in Users : key[u] # NULL}
InUse == {key[u].secret : u \in Keyed} \cup {config[p].active : p \in Processes}

Told(new) == {new.active} \cup new.previous

\* A process is restarted with new secrets.  What .env.example asks of the operator is
\* to list the value that is replaced, not those of other processes or of keys that
\* were never used meanwhile.
Redeploy(p, new) ==
    /\ deploys < MaxDeploys
    /\ deploys' = deploys + 1
    /\ new.active \notin new.previous
    /\ config[p].active \in Told(new)
    /\ config' = [config EXCEPT ![p] = new]
    /\ missed' = [q \in Processes |->
          IF q = p THEN InUse \ Told(new) ELSE missed[q] \cup {new.active}]
    /\ calls' = [c \in Calls |->
          IF calls[c] # NULL /\ calls[c].process = p THEN NULL ELSE calls[c]]
    /\ UNCHANGED <<key, readers, now>> /\ UNCHANGED voteVars

EncryptPrivateKeyDefault(p, pair) == [private |-> pair, secret |-> First]

\* encryptPrivateKey: under the active secret of the process.
EncryptPrivateKey(p, pair) == [private |-> pair, secret |-> config[p].active]

\* decryptPrivateKeyWithMigration: the secrets that are tried.
Decrypts(p, row)  == row.secret \in Told(config[p])
NeedsReencryption(p, row) == row.secret # config[p].active

Row(public, blob) == [public |-> public, private |-> blob.private, secret |-> blob.secret]

InsertedOver(u, new) == new

\* INSERT ... ON CONFLICT (user_id) DO NOTHING.
Inserted(u, new) == IF key[u] = NULL THEN new ELSE key[u]

GenerateKeypairForUser(p, u, pair) ==
    /\ \A v \in Keyed : key[v].public # pair
    /\ key' = [key EXCEPT ![u] = Inserted(u, Row(pair, EncryptPrivateKey(p, pair)))]
    /\ UNCHANGED <<config, missed, deploys, calls, readers, now>> /\ UNCHANGED voteVars

-----------------------------------------------------------------------------
End(c) == calls' = [calls EXCEPT ![c] = NULL]

\* submitVote past its checks, the timestamp it takes, and in sign the SELECT of the blob and its decryption.
\* A vote that finds no key, or cannot decrypt it, ends there and changes nothing.
SubmitVote(c, p, u, r, d) ==
    /\ calls[c] = NULL
    /\ requester[r] = u /\ r \notin resolved
    /\ u \in Keyed /\ Decrypts(p, key[u])
    /\ calls' = [calls EXCEPT ![c] =
          [pc |-> IF NeedsReencryption(p, key[u]) THEN "reencrypt" ELSE "insert", process |-> p,
           user |-> u, request |-> r, decision |-> d, timestamp |-> now,
           private |-> key[u].private]]
    /\ UNCHANGED keyVars /\ UNCHANGED voteVars /\ UNCHANGED <<readers, now>>

\* updateEncryptedPrivateKey, whatever the blob is by now.
Reencrypt(c) ==
    LET call == calls[c]
    IN  /\ call # NULL /\ call.pc = "reencrypt"
        /\ key' = [key EXCEPT ![call.user] =
              Row(@.public, EncryptPrivateKey(call.process, call.private))]
        /\ calls' = [calls EXCEPT ![c].pc = "insert"]
        /\ UNCHANGED <<config, missed, deploys, readers, now>> /\ UNCHANGED voteVars

PayloadOf(request, decision, timestamp) ==
    [request |-> request, decision |-> decision, timestamp |-> timestamp]

Sign(call) == [by |-> call.private,
               payload |-> PayloadOf(call.request, call.decision, call.timestamp)]

VoteOf(call) == [request |-> call.request, approver |-> call.user, decision |-> call.decision,
                 signature |-> Sign(call), createdAt |-> now]

UniqueViolation(call) ==
    \E v \in votes : v.request = call.request /\ v.approver = call.user

\* The entry is emitted after the INSERT, not when it throws.
Announced(call) ==
    IF UniqueViolation(call) THEN {}
    ELSE {[type |-> "vote", request |-> call.request, signature |-> Sign(call)]}

InsertVote(c) ==
    LET call == calls[c]
    IN  /\ call # NULL /\ call.pc = "insert"
        /\ emitted' = emitted \cup Announced(call)
        /\ IF UniqueViolation(call)
           THEN End(c) /\ UNCHANGED votes
           ELSE /\ votes' = votes \cup {VoteOf(call)}
                /\ calls' = [calls EXCEPT ![c].pc = "resolve"]
        /\ UNCHANGED keyVars /\ UNCHANGED <<requester, resolved, log, readers, now>>

\* What the quorum rule says of the votes is Approval's: here it may resolve or not.
Resolve(c) ==
    LET call == calls[c]
    IN  /\ call # NULL /\ call.pc = "resolve"
        /\ resolved' = resolved \cup {call.request}
        /\ emitted' = emitted \cup {[type |-> "request_resolved", request |-> call.request]}
        /\ End(c)
        /\ UNCHANGED keyVars /\ UNCHANGED <<requester, votes, log, readers, now>>

\* The quorum is not reached; or a statement fails, and the route answers an error.
Abort(c) ==
    /\ calls[c] # NULL
    /\ End(c)
    /\ UNCHANGED keyVars /\ UNCHANGED voteVars /\ UNCHANGED <<readers, now>>

\* appendAuditEntry, un-awaited: in the log some time later, or lost.
AppendAuditEntry(e) ==
    /\ emitted' = emitted \ {e}
    /\ log' \in {log, log \cup {e}}
    /\ UNCHANGED keyVars /\ UNCHANGED <<requester, resolved, votes, calls, readers, now>>

-----------------------------------------------------------------------------
JoinedOnVoteId(q) == {[vote |-> v, public |-> NULL] : v \in {w \in votes : w.request = q}}

\* An inner join, on a column that never matches.
JoinedInner(q) == {s \in JoinedOnVoteId(q) : s.public # NULL}

\* votes LEFT JOIN signing_keys.
Joined(q) == {[vote |-> v, public |-> IF key[v.approver] = NULL THEN NULL ELSE key[v.approver].public]
                : v \in {w \in votes : w.request = q}}

\* GET /receipt/:requestId for the requester's own request: nothing that the first
\* query reads ever changes, so it is part of the second one's action.
SelectVotes(r, u, q) ==
    /\ readers[r] = NULL
    /\ requester[q] = u
    /\ readers' = [readers EXCEPT ![r] =
          [pc |-> "entries", request |-> q, at |-> now, votes |-> Joined(q), entries |-> {}]]
    /\ UNCHANGED keyVars /\ UNCHANGED voteVars /\ UNCHANGED <<calls, now>>

\* audit_log WHERE payload @> {requestId}.
SelectEntries(r) ==
    /\ readers[r] # NULL /\ readers[r].pc = "entries"
    /\ readers' = [readers EXCEPT ![r].pc = "done",
                                  ![r].entries = {e \in log : e.request = readers[r].request}]
    /\ UNCHANGED keyVars /\ UNCHANGED voteVars /\ UNCHANGED <<calls, now>>

Tick ==
    /\ now < MaxTime
    /\ now' = now + 1
    /\ UNCHANGED keyVars /\ UNCHANGED voteVars /\ UNCHANGED <<calls, readers>>

Next ==
    \/ \E p \in Processes, new \in Config : Redeploy(p, new)
    \/ \E p \in Processes, u \in Users, pair \in Pairs : GenerateKeypairForUser(p, u, pair)
    \/ \E c \in Calls, p \in Processes, u \in Users, r \in Requests, d \in Decisions :
          SubmitVote(c, p, u, r, d)
    \/ \E c \in Calls :
          Reencrypt(c) \/ InsertVote(c) \/ Resolve(c) \/ Abort(c)
    \/ \E e \in emitted : AppendAuditEntry(e)
    \/ \E r \in Readers, u \in Users, q \in Requests : SelectVotes(r, u, q)
    \/ \E r \in Readers : SelectEntries(r)
    \/ Tick

Spec == Init /\ [][Next]_vars

-----------------------------------------------------------------------------
\* Every variable has its type.
TypeOK ==
    /\ config \in [Processes -> Config]
    /\ missed \in [Processes -> SUBSET Secrets] /\ deploys \in Nat /\ now \in Times
    /\ key \in [Users -> KeyRow \cup {NULL}]
    /\ requester \in [Requests -> Users] /\ resolved \subseteq Requests
    /\ votes \subseteq Vote /\ emitted \subseteq Entry /\ log \subseteq Entry
    /\ calls \in [Calls -> Call \cup {NULL}]
    /\ readers \in [Readers -> Receipt \cup {NULL}]

\* keys.service.ts: whatever registrations, re-encryptions and deployments race, a
\* process decrypts every stored key, except under a secret that was in use when it was
\* deployed without being told of it, or that became active somewhere later.
KeysReadable ==
    \A p \in Processes, u \in Keyed : Decrypts(p, key[u]) \/ key[u].secret \in missed[p]

\* verify
Verify(public, payload, signature) == signature = [by |-> public, payload |-> payload]

\* sign, in submitVote: however keys are generated and re-encrypted meanwhile, a stored
\* vote carries a signature that its approver's stored key made, of its request, its
\* decision and some time; and so does every vote in a receipt, with the key shown next
\* to it.  The time is in no row, so that a reader of the receipt cannot check this.
SignedByApprover ==
    /\ \A v \in votes :
          /\ v.approver \in Keyed
          /\ \E t \in Times :
                Verify(key[v.approver].public, PayloadOf(v.request, v.decision, t), v.signature)
    /\ \A r \in Readers : readers[r] # NULL =>
          \A s \in readers[r].votes : \E t \in Times :
             Verify(s.public, PayloadOf(s.vote.request, s.vote.decision, t), s.vote.signature)

\* getReceiptForRequest reads its parts one after another, and entries are written
\* un-awaited: still each entry of a receipt is about a stored vote, with the same
\* signature, and the receipt shows that vote, unless it was stored at or after the
\* time at which the receipt's votes were read.
About(e, v) == e.request = v.request /\ (e.type = "vote" => e.signature = v.signature)

ReceiptWhole ==
    \A r \in Readers : readers[r] # NULL =>
        LET shown == {s.vote : s \in readers[r].votes}
        IN  \A e \in readers[r].entries : \E v \in votes :
                About(e, v) /\ (v \in shown \/ v.createdAt >= readers[r].at)
=============================================================================
