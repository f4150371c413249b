------------------------------- MODULE Passkey -------------------------------
(***************************************************************************)
(* The WebAuthn ceremonies of webauthn.service.ts: registration and login, *)
(* each an options call, a response made by the client's authenticator,    *)
(* and a verify call.                                                      *)
(*                                                                         *)
(* The two challenge stores are maps of the server process, keyed by       *)
(* e-mail, that a restart empties.  A verify call looks its challenge up   *)
(* first and deletes the entry last, some awaited statements later, so     *)
(* that other calls of the same user run in between.                       *)
(*                                                                         *)
(* The library checks of @simplewebauthn/server are taken as: a response   *)
(* is good for the challenge it was made for, and an assertion's counter   *)
(* must exceed the stored one unless both are zero.                        *)
(*                                                                         *)
(* A definition that no other one uses and that stands right before the    *)
(* one it resembles is a plausible mistake in that code.                   *)
(***************************************************************************)
EXTENDS Integers, FiniteSets

CONSTANTS NULL, Users, Challenges, Credentials,
          Counting,     \* credentials whose authenticator counts its assertions
          Calls,        \* verify calls that can be open at one time
          MaxCounter,   \* bound on an authenticator's counter
          MaxFailures   \* bound on calls that fail and on restarts

ASSUME PasskeyAssumption ==
    /\ Counting \subseteq Credentials
    /\ MaxCounter \in Nat /\ MaxFailures \in Nat

Kinds == {"registration", "login"}

VARIABLES
    challenge,   \* challengeStore and loginChallengeStore: kind -> user -> challenge
    credential,  \* webauthn_credentials: id -> row, NULL when there is no row
    keys,        \* users with a row in signing_keys
    latest,      \* the last challenge issued: kind -> user -> challenge
    issued,      \* the challenges issued: challenge -> whom and what for
    device,      \* the counters of the authenticators
    responses,   \* what authenticators answered so far
    accepted,    \* the responses of verify calls answered with success
    calls,       \* the verify calls under way, and the last answer of a slot
    failures     \* calls failed, key generations failed and restarts so far

vars == <<challenge, credential, keys, latest, issued, device, responses, accepted,
          calls, failures>>

CredentialRow == [user : Users, counter : Nat]
Purpose       == [kind : Kinds, user : Users]
Response      == [kind : Kinds, user : Users, credential : Credentials,
                  challenge : Challenges, counter : Nat]

ASSUME NullAssumption == NULL \notin CredentialRow \cup Purpose \cup Challenges

\* The statement a call runs next; "clear" is the delete after the last one.
Steps   == {"insert", "keygen", "select", "update", "clear"}
Answers == {"accepted", "rejected", "failed"}
NoCall  == [pc |-> "idle"]
\* read: the counter SELECTed.  late: the call began when its response had been
\* accepted before, or when its user had been issued a newer challenge.
Call    == [pc : Steps \cup Answers, response : Response, read : Nat, late : BOOLEAN]

Ended(k) == calls[k].pc \notin Steps

Init ==
    /\ challenge = [x \in Kinds |-> [u \in Users |-> NULL]]
    /\ latest = [x \in Kinds |-> [u \in Users |-> NULL]]
    /\ credential = [c \in Credentials |-> NULL]
    /\ keys = {} /\ responses = {} /\ accepted = {}
    /\ issued = [h \in Challenges |-> NULL]
    /\ device = [c \in Credentials |-> 0]
    /\ calls = [k \in Calls |-> NoCall]
    /\ failures = 0

-----------------------------------------------------------------------------
Registered(u) == {c \in Credentials : credential[c] # NULL /\ credential[c].user = u}

\* A mistake: a pending ceremony keeps its challenge.
StoredUnlessPending(kind, u, h) ==
    IF challenge[kind][u] = NULL THEN [challenge EXCEPT ![kind][u] = h] ELSE challenge

Stored(kind, u, h) == [challenge EXCEPT ![kind][u] = h]

\* generateRegistrationOptionsForUser, generateLoginOptionsForUser: a fresh random
\* challenge replaces the user's pending one.  The queries before it only tell
\* whether the user has credentials, and none is ever deleted.
GenerateOptions(kind, u, h) ==
    /\ issued[h] = NULL
    /\ kind = "login" => Registered(u) # {}
    /\ issued' = [issued EXCEPT ![h] = [kind |-> kind, user |-> u]]
    /\ latest' = [latest EXCEPT ![kind][u] = h]
    /\ challenge' = Stored(kind, u, h)
    /\ UNCHANGED <<credential, keys, device, responses, accepted, calls, failures>>

\* The browser: an authenticator makes a new credential, or signs an assertion with
\* one that is registered, for a challenge its user was issued at some time.
Respond(h, c) ==
    LET purpose == issued[h]
        counter == IF purpose.kind = "login" /\ c \in Counting THEN device[c] + 1 ELSE 0
    IN  /\ purpose # NULL
        /\ counter <= MaxCounter
        /\ IF purpose.kind = "registration"
           THEN \A r \in responses : r.credential # c
           ELSE c \in Registered(purpose.user)
        /\ device' = [device EXCEPT ![c] = IF counter > 0 THEN counter ELSE @]
        /\ responses' = responses \cup
              {[kind |-> purpose.kind, user |-> purpose.user, credential |-> c,
                challenge |-> h, counter |-> counter]}
        /\ UNCHANGED <<challenge, credential, keys, latest, issued, accepted, calls, failures>>

-----------------------------------------------------------------------------
Goto(k, pc) == calls' = [calls EXCEPT ![k].pc = pc]

FirstStep(kind) == IF kind = "registration" THEN "insert" ELSE "select"

\* verifyRegistration, verifyLogin: look the challenge up; the response is verified
\* against this one whatever the store holds by then.
Verify(k, r) ==
    /\ Ended(k)
    /\ calls' = [calls EXCEPT ![k] =
          [pc |-> IF challenge[r.kind][r.user] = r.challenge THEN FirstStep(r.kind)
                  ELSE "rejected",
           response |-> r, read |-> 0,
           late |-> r \in accepted \/ r.challenge # latest[r.kind][r.user]]]
    /\ UNCHANGED <<challenge, credential, keys, latest, issued, device, responses,
                   accepted, failures>>

\* A mistake: the counter is taken from a field the library no longer has.
NewCounterMissing(r) == NULL

NewCounter(r) == r.counter

\* A mistake: the key is left to the next ceremony.
AfterInsertKeyless(r) == "clear"

AfterInsert(r) == "keygen"

\* credential_id is unique.
InsertCredential(k) ==
    LET r == calls[k].response
    IN  /\ calls[k].pc = "insert"
        /\ IF credential[r.credential] # NULL
           THEN Goto(k, "rejected") /\ UNCHANGED credential
           ELSE /\ credential' = [credential EXCEPT ![r.credential] =
                       [user |-> r.user, counter |-> NewCounter(r)]]
                /\ Goto(k, AfterInsert(r))
        /\ UNCHANGED <<challenge, keys, latest, issued, device, responses, accepted, failures>>

\* generateKeypairForUser: INSERT ... ON CONFLICT DO NOTHING.  Its failure is caught.
GenerateKeypair(k) ==
    /\ calls[k].pc = "keygen"
    /\ \/ keys' = keys \cup {calls[k].response.user} /\ UNCHANGED failures
       \/ failures < MaxFailures /\ failures' = failures + 1 /\ UNCHANGED keys
    /\ Goto(k, "clear")
    /\ UNCHANGED <<challenge, credential, latest, issued, device, responses, accepted>>

\* A mistake: the counter is stored and never compared.
RefusesCounterNever(counter, stored) == FALSE

\* verifyAuthenticationResponse
RefusesCounter(counter, stored) == (counter > 0 \/ stored > 0) /\ counter <= stored

SelectCredential(k) ==
    LET r   == calls[k].response
        row == credential[r.credential]
    IN  /\ calls[k].pc = "select"
        /\ calls' = [calls EXCEPT
              ![k].pc = IF RefusesCounter(r.counter, row.counter) THEN "rejected" ELSE "update",
              ![k].read = row.counter]
        /\ UNCHANGED <<challenge, credential, keys, latest, issued, device, responses,
                       accepted, failures>>

UpdateCounter(k) ==
    LET r == calls[k].response
    IN  /\ calls[k].pc = "update"
        /\ credential' = [credential EXCEPT ![r.credential].counter = NewCounter(r)]
        /\ Goto(k, "clear")
        /\ UNCHANGED <<challenge, keys, latest, issued, device, responses, accepted, failures>>

\* A mistake: the challenge stays.
ClearedNothing(kind, u) == challenge

Cleared(kind, u) == [challenge EXCEPT ![kind][u] = NULL]

\* Map.delete, which removes whatever challenge the user has by now, and the answer.
Clear(k) ==
    LET r == calls[k].response
    IN  /\ calls[k].pc = "clear"
        /\ challenge' = Cleared(r.kind, r.user)
        /\ accepted' = accepted \cup {r}
        /\ Goto(k, "accepted")
        /\ UNCHANGED <<credential, keys, latest, issued, device, responses, failures>>

\* A statement fails, or its answer is lost.
Abort(k) ==
    /\ calls[k].pc \in Steps
    /\ failures < MaxFailures
    /\ failures' = failures + 1
    /\ Goto(k, "failed")
    /\ UNCHANGED <<challenge, credential, keys, latest, issued, device, responses, accepted>>

\* The process restarts: both maps and every open call are lost.
Restart ==
    /\ failures < MaxFailures
    /\ failures' = failures + 1
    /\ challenge' = [x \in Kinds |-> [u \in Users |-> NULL]]
    /\ calls' = [k \in Calls |-> IF Ended(k) THEN calls[k] ELSE [calls[k] EXCEPT !.pc = "failed"]]
    /\ UNCHANGED <<credential, keys, latest, issued, device, responses, accepted>>

Next ==
    \/ \E x \in Kinds, u \in Users, h \in Challenges : GenerateOptions(x, u, h)
    \/ \E h \in Challenges, c \in Credentials : Respond(h, c)
    \/ \E k \in Calls, r \in responses : Verify(k, r)
    \/ \E k \in Calls :
          \/ InsertCredential(k) \/ GenerateKeypair(k)
          \/ SelectCredential(k) \/ UpdateCounter(k)
          \/ Clear(k) \/ Abort(k)
    \/ Restart

Spec == Init /\ [][Next]_vars

-----------------------------------------------------------------------------
\* Every variable has its type.
TypeOK ==
    /\ challenge \in [Kinds -> [Users -> Challenges \cup {NULL}]]
    /\ latest \in [Kinds -> [Users -> Challenges \cup {NULL}]]
    /\ credential \in [Credentials -> CredentialRow \cup {NULL}]
    /\ keys \subseteq Users
    /\ issued \in [Challenges -> Purpose \cup {NULL}]
    /\ device \in [Credentials -> Nat]
    /\ responses \subseteq Response /\ accepted \subseteq Response
    /\ calls \in [Calls -> Call \cup {NoCall}]
    /\ failures \in Nat

\* verifyRegistration and verifyLogin: a response accepted once is never accepted by
\* a call made later, nor is one made for a challenge that a newer one replaced
\* before the call, whatever calls overlap, fail or see a restart.
OnlyLatestAndOnce ==
    \A k \in Calls : calls[k].pc = "accepted" => ~calls[k].late

\* The stored counter of a credential goes back only in a race: the UPDATE is of a
\* call whose SELECT saw another counter than the one it overwrites.
CounterFallsOnlyInRace ==
    [][\A c \in Credentials :
          credential[c] # NULL /\ credential'[c].counter < credential[c].counter =>
              \E k \in Calls : /\ calls[k].pc = "update"
                               /\ calls[k].response.credential = c
                               /\ calls[k].read # credential[c].counter]_vars

\* A registered user can sign votes: with a credential there is a key, or a call about
\* to make it, unless something failed.
CredentialHasKey ==
    \A c \in Credentials : credential[c] # NULL =>
        \/ credential[c].user \in keys
        \/ \E k \in Calls : calls[k].pc = "keygen" /\ calls[k].response.user = credential[c].user
        \/ failures > 0
=============================================================================
