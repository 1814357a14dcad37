------------------------------- MODULE Servers -------------------------------
(***************************************************************************)
(* Servers, their credentials and their trusted host keys: the handlers    *)
(* servers.create, update, delete, testConnection and confirmHostKey, and  *)
(* the connection of a run, over the servers table, the directory of       *)
(* secrets and the keys the hosts present.                                 *)
(*                                                                         *)
(* A request is handled by the goroutine of its session; several sessions  *)
(* and runs are served at once, and every statement, file operation and    *)
(* handshake is a step.  A handler reads a whole row, works on the copy    *)
(* and writes the whole row back.                                          *)
(***************************************************************************)
EXTENDS Naturals

CONSTANTS
    Ids,        \* identifiers NewID can give a server
    Refs,       \* identifiers NewID can give a secret
    Hosts,      \* host names
    Keys,       \* fingerprints of host keys
    Procs,      \* sessions and runs
    Jobs,       \* backup jobs
    NoRef,      \* the empty credential reference
    NoKey,      \* the empty fingerprint
    NoServer,   \* the job does not exist
    MaxRequests,  \* bound: requests and runs
    MaxRekeys     \* bound: hosts that change their key

ASSUME ConstantsDistinct ==
    /\ NoRef \notin Refs /\ NoKey \notin Keys /\ NoServer \notin Ids
    /\ Hosts # {} /\ Ids # {}
    /\ MaxRequests \in Nat /\ MaxRekeys \in Nat

VARIABLES
    live,      \* ids with a row in the servers table
    rows,      \* their columns
    secrets,   \* the file of a reference
    issued,    \* identifiers NewID has returned: random, never twice
    jobs,      \* server_id of a job
    hostKey,   \* what each host presents
    pc,        \* where a handler or run is
    req,       \* its request
    snap,      \* its copy of the row
    attempt,   \* Dial: attempts so far
    asked,     \* user confirmations: a fingerprint for a server
    seen,      \* keys met by the handshake of a confirmation
    sent,      \* keys of hosts that a credential was offered to
    sends,     \* credentials offered since the request came
    requests, rekeys

dbVars == <<live, rows, jobs>>
procVars == <<pc, req, snap, attempt>>
trustVars == <<asked, seen, sent, sends>>
vars == <<dbVars, secrets, issued, hostKey, procVars, trustVars, requests, rekeys>>

AuthType == {"PRIVATE_KEY", "PASSWORD"}
Op == {"create", "update", "delete", "test", "confirm", "run"}

Row == [host: Hosts, auth: AuthType, cred: Refs \cup {NoRef}, fp: Keys \cup {NoKey}]

\* pass: a passphrase or password is in the request; key: the fingerprint that
\* a confirmation is about.
Request == [op: Op, id: Ids, host: Hosts, auth: AuthType, pass: BOOLEAN,
            key: Keys \cup {NoKey}]

Blank == [host |-> CHOOSE h \in Hosts : TRUE, auth |-> "PRIVATE_KEY",
          cred |-> NoRef, fp |-> NoKey]
NoRequest == [op |-> "test", id |-> CHOOSE i \in Ids : TRUE, host |-> Blank.host,
              auth |-> "PRIVATE_KEY", pass |-> FALSE, key |-> NoKey]

\* Where a handler or run is: the statement or call it makes next.
Loc == {"idle", "get", "store", "write", "check", "delete", "unsecret", "resolve", "dial"}

\* len(retryDelays)
Retries == 3

TypeOK ==
    /\ live \subseteq Ids /\ rows \in [Ids -> Row]
    /\ secrets \in [Refs -> {"absent", "torn", "stored"}]
    /\ issued \subseteq Ids \cup Refs
    /\ jobs \in [Jobs -> Ids \cup {NoServer}]
    /\ hostKey \in [Hosts -> Keys]
    /\ pc \in [Procs -> Loc]
    /\ req \in [Procs -> Request] /\ snap \in [Procs -> Row]
    /\ attempt \in [Procs -> 0..(Retries + 1)]
    /\ asked \subseteq Ids \X (Keys \cup {NoKey}) /\ seen \subseteq Ids \X (Keys \cup {NoKey})
    /\ sent \subseteq Ids \X (Keys \cup {NoKey})
    /\ sends \in [Procs -> Nat]
    /\ requests \in 0..MaxRequests /\ rekeys \in 0..MaxRekeys

Init ==
    /\ live = {} /\ rows = [i \in Ids |-> Blank]
    /\ secrets = [r \in Refs |-> "absent"]
    /\ issued = {}
    /\ jobs = [j \in Jobs |-> NoServer]
    /\ hostKey \in [Hosts -> Keys]
    /\ pc = [p \in Procs |-> "idle"]
    /\ req = [p \in Procs |-> NoRequest] /\ snap = [p \in Procs |-> Blank]
    /\ attempt = [p \in Procs |-> 0]
    /\ asked = {} /\ seen = {} /\ sent = {}
    /\ sends = [p \in Procs |-> 0]
    /\ requests = 0 /\ rekeys = 0

-----------------------------------------------------------------------------
(* Handlers and runs: how they start, go on and return *)

\* The handler goes on at l with the row r in its hands.
Goto(p, l, r) ==
    /\ pc' = [pc EXCEPT ![p] = l] /\ snap' = [snap EXCEPT ![p] = r]
    /\ UNCHANGED <<req, attempt>>

\* The handler answers, or the run has or has not its connection.
Return(p) ==
    /\ pc' = [pc EXCEPT ![p] = "idle"]
    /\ req' = [req EXCEPT ![p] = NoRequest] /\ snap' = [snap EXCEPT ![p] = Blank]
    /\ attempt' = [attempt EXCEPT ![p] = 0]

\* A session reads a request, or a run of a job begins.  The id of a server
\* that is to be created is drawn later in the code; nothing sees it before.
Receive(p, r) ==
    /\ pc[p] = "idle" /\ requests < MaxRequests
    /\ r.op = "create" => r.id \notin issued
    /\ r.op = "run" => \E j \in Jobs : jobs[j] = r.id
    /\ pc' = [pc EXCEPT ![p] = IF r.op = "create" THEN "store" ELSE "get"]
    /\ req' = [req EXCEPT ![p] = r]
    /\ issued' = IF r.op = "create" THEN issued \cup {r.id} ELSE issued
    /\ asked' = IF r.op = "confirm" THEN asked \cup {<<r.id, r.key>>} ELSE asked
    /\ sends' = [sends EXCEPT ![p] = 0]
    /\ requests' = requests + 1
    /\ UNCHANGED <<dbVars, secrets, hostKey, snap, attempt, seen, sent, rekeys>>

\* A statement or file operation reports an error, a field of the request is
\* not valid, or the context is cancelled: the handler stops where it is.  A
\* crash of the service stops all of them.
Abort(p) ==
    /\ pc[p] # "idle"
    /\ Return(p)
    /\ UNCHANGED <<dbVars, secrets, issued, hostKey, trustVars, requests, rekeys>>

\* Servers.Get, or NOT_FOUND.
Get(p) ==
    /\ pc[p] = "get"
    /\ \/ req[p].id \notin live /\ Return(p)
       \/ /\ req[p].id \in live
          /\ Goto(p, CASE req[p].op = "update" -> "store"
                       [] req[p].op = "delete" -> "check"
                       [] OTHER -> "resolve", rows[req[p].id])
    /\ UNCHANGED <<dbVars, secrets, issued, hostKey, trustVars, requests, rekeys>>

-----------------------------------------------------------------------------
(* servers.create, servers.update *)

\* The fields of the request on the row, except the fingerprint.
edited(p, ref) == [host |-> req[p].host, auth |-> req[p].auth, cred |-> ref, fp |-> snap[p].fp]

\* os.WriteFile truncates the file before it writes: on an error or a crash
\* the old secret is gone as well.
writeProtected(p, ref) ==
    \/ secrets' = [secrets EXCEPT ![ref] = "stored"] /\ Goto(p, "write", edited(p, ref))
    \/ secrets' = [secrets EXCEPT ![ref] = "torn"] /\ Return(p)

\* Without a passphrase the reference stays as it is; with one its file is
\* replaced in place, or a new one is written.
storeCredential(p) ==
    /\ pc[p] = "store"
    /\ \/ /\ ~req[p].pass /\ Goto(p, "write", edited(p, snap[p].cred))
          /\ UNCHANGED <<secrets, issued>>
       \/ /\ req[p].pass /\ snap[p].cred # NoRef
          /\ writeProtected(p, snap[p].cred) /\ UNCHANGED issued
       \/ /\ req[p].pass /\ snap[p].cred = NoRef
          /\ \E ref \in Refs \ issued :
                issued' = issued \cup {ref} /\ writeProtected(p, ref)
    /\ UNCHANGED <<dbVars, hostKey, trustVars, requests, rekeys>>

\* Server.Validate; the fields that only have to be filled are Abort's.
Validate(r) == r.auth = "PASSWORD" => r.cred # NoRef

\* ServerRepository.Create, under the id drawn for the server.
CreateRow(p) ==
    live' = live \cup {req[p].id} /\ rows' = [rows EXCEPT ![req[p].id] = snap[p]]

\* ServerRepository.Update writes the whole row; when the row is gone it
\* affects none, which is NOT_FOUND.
UpdateRow(p) ==
    /\ rows' = IF req[p].id \in live THEN [rows EXCEPT ![req[p].id] = snap[p]] ELSE rows
    /\ UNCHANGED live

\* create and update validate the row first (one that is not valid is
\* Abort's); confirmHostKey writes the row it read with a new fingerprint.
WriteRow(p) ==
    /\ pc[p] = "write"
    /\ \/ req[p].op = "create" /\ Validate(snap[p]) /\ CreateRow(p)
       \/ req[p].op = "update" /\ Validate(snap[p]) /\ UpdateRow(p)
       \/ req[p].op = "confirm" /\ UpdateRow(p)
    /\ Return(p)
    /\ UNCHANGED <<jobs, secrets, issued, hostKey, trustVars, requests, rekeys>>

-----------------------------------------------------------------------------
(* servers.delete *)

referenced(i) == \E j \in Jobs : jobs[j] = i

\* The friendly refusal: a query of its own, before the DELETE.
JobsReferencing(p) ==
    /\ pc[p] = "check"
    /\ \/ referenced(req[p].id) /\ Return(p)
       \/ ~referenced(req[p].id) /\ Goto(p, "delete", snap[p])
    /\ UNCHANGED <<dbVars, secrets, issued, hostKey, trustVars, requests, rekeys>>

\* Mutant: the check before it stands for the foreign key.
DeleteRow_unchecked(p) ==
    /\ pc[p] = "delete"
    /\ \/ /\ req[p].id \in live
          /\ live' = live \ {req[p].id} /\ rows' = [rows EXCEPT ![req[p].id] = Blank]
          /\ Goto(p, "unsecret", snap[p])
       \/ req[p].id \notin live /\ UNCHANGED <<live, rows>> /\ Return(p)
    /\ UNCHANGED <<jobs, secrets, issued, hostKey, trustVars, requests, rekeys>>

\* Mutant: an error of the DELETE does not keep the credential.
DeleteRow_ignoresError(p) ==
    /\ pc[p] = "delete"
    /\ \/ /\ req[p].id \in live /\ ~referenced(req[p].id)
          /\ live' = live \ {req[p].id} /\ rows' = [rows EXCEPT ![req[p].id] = Blank]
       \/ (req[p].id \notin live \/ referenced(req[p].id)) /\ UNCHANGED <<live, rows>>
    /\ Goto(p, "unsecret", snap[p])
    /\ UNCHANGED <<jobs, secrets, issued, hostKey, trustVars, requests, rekeys>>

\* The DELETE.  The foreign key of backup_jobs refuses it when a job has come
\* to refer to the server since the query.
DeleteRow(p) ==
    /\ pc[p] = "delete"
    /\ \/ /\ req[p].id \in live /\ ~referenced(req[p].id)
          /\ live' = live \ {req[p].id} /\ rows' = [rows EXCEPT ![req[p].id] = Blank]
          /\ Goto(p, "unsecret", snap[p])
       \/ /\ req[p].id \notin live \/ referenced(req[p].id)
          /\ UNCHANGED <<live, rows>> /\ Return(p)
    /\ UNCHANGED <<jobs, secrets, issued, hostKey, trustVars, requests, rekeys>>

\* The credential the row named when it was read.
DeleteSecret(p) ==
    /\ pc[p] = "unsecret"
    /\ secrets' = IF snap[p].cred = NoRef THEN secrets
                  ELSE [secrets EXCEPT ![snap[p].cred] = "absent"]
    /\ Return(p)
    /\ UNCHANGED <<dbVars, issued, hostKey, trustVars, requests, rekeys>>

-----------------------------------------------------------------------------
(* Connections: servers.testConnection, servers.confirmHostKey and runs *)

\* The fingerprint the handshake is verified against.
trusted(p) == IF req[p].op = "confirm" THEN req[p].key ELSE snap[p].fp

\* ResolveCredentials and buildAuthMethod (the failures are Abort's), and the
\* refusal of Dial to trust on first use.
ResolveCredentials(p) ==
    /\ pc[p] = "resolve"
    /\ snap[p].cred # NoRef => secrets[snap[p].cred] = "stored"
    /\ req[p].op = "run" => trusted(p) # NoKey
    /\ pc' = [pc EXCEPT ![p] = "dial"]
    /\ attempt' = [attempt EXCEPT ![p] = 1]
    /\ UNCHANGED <<dbVars, secrets, issued, hostKey, req, snap, trustVars, requests, rekeys>>

\* Mutant: without a stored fingerprint the presented key is accepted.
verifyHostKey_firstUse(fp, key) ==
    IF fp = NoKey \/ fp = key THEN "" ELSE "SSH_HOST_KEY_CHANGED"

verifyHostKey(fp, key) ==
    CASE fp = NoKey -> "SSH_HOST_KEY_UNVERIFIED"
      [] fp # NoKey /\ fp # key -> "SSH_HOST_KEY_CHANGED"
      [] OTHER -> ""

\* What one TCP dial and SSH handshake with a host that presents key can give:
\* the error code, the key met (tcp: the result has one, though an empty one
\* when the handshake breaks early) and whether authentication was begun.
dialOnce(fp, key) ==
    {[code |-> "SSH_CONNECTION_FAILED", tcp |-> FALSE, key |-> NoKey, auth |-> FALSE],
     [code |-> "SSH_AUTH_FAILED", tcp |-> TRUE, key |-> NoKey, auth |-> FALSE]}
    \cup IF verifyHostKey(fp, key) = ""
         THEN {[code |-> c, tcp |-> TRUE, key |-> key, auth |-> TRUE] : c \in {"", "SSH_AUTH_FAILED"}}
         ELSE {[code |-> verifyHostKey(fp, key), tcp |-> TRUE, key |-> key, auth |-> FALSE]}

\* What a handshake leaves behind.
offered(p, o) ==
    /\ sent' = IF o.auth THEN sent \cup {<<req[p].id, o.key>>} ELSE sent
    /\ sends' = IF o.auth THEN [sends EXCEPT ![p] = @ + 1] ELSE sends
    /\ UNCHANGED <<dbVars, secrets, issued, hostKey, asked, requests, rekeys>>

\* Mutant: every failure is worth another attempt.
isRetryable_always(code) == code # ""

isRetryable(code) ==
    code \notin {"", "SSH_AUTH_FAILED", "SSH_HOST_KEY_CHANGED", "SSH_HOST_KEY_UNVERIFIED"}

\* One attempt of Dial, for a run: connected, given up, or once more after
\* a delay.
DialAttempt(p) ==
    /\ pc[p] = "dial" /\ req[p].op = "run"
    /\ \E o \in dialOnce(trusted(p), hostKey[snap[p].host]) :
          /\ offered(p, o)
          /\ IF isRetryable(o.code) /\ attempt[p] <= Retries
             THEN /\ attempt' = [attempt EXCEPT ![p] = @ + 1]
                  /\ UNCHANGED <<pc, req, snap>>
             ELSE Return(p)
    /\ UNCHANGED seen

\* The handshake of servers.testConnection: the answer tells what was met.
TestConnection(p) ==
    /\ pc[p] = "dial" /\ req[p].op = "test"
    /\ \E o \in dialOnce(trusted(p), hostKey[snap[p].host]) : offered(p, o)
    /\ Return(p)
    /\ UNCHANGED seen

\* Mutant: reaching the host is enough.
confirms_any(p, o) == o.tcp

\* The handshake met the key that is being confirmed.
confirms(p, o) == o.tcp /\ o.key = req[p].key

\* The handshake of servers.confirmHostKey.  It may fail to authenticate.
ConfirmHostKey(p) ==
    /\ pc[p] = "dial" /\ req[p].op = "confirm"
    /\ \E o \in dialOnce(trusted(p), hostKey[snap[p].host]) :
          /\ offered(p, o)
          /\ seen' = IF o.tcp THEN seen \cup {<<req[p].id, o.key>>} ELSE seen
          /\ IF confirms(p, o)
             THEN Goto(p, "write", [snap[p] EXCEPT !.fp = req[p].key])
             ELSE Return(p)

-----------------------------------------------------------------------------
(* Jobs and hosts *)

\* jobs.create and jobs.update: the foreign key wants the server to exist.
SaveJob(j, i) ==
    /\ i \in live /\ jobs[j] # i
    /\ jobs' = [jobs EXCEPT ![j] = i]
    /\ UNCHANGED <<live, rows, secrets, issued, hostKey, procVars, trustVars, requests, rekeys>>

DeleteJob(j) ==
    /\ jobs[j] # NoServer
    /\ jobs' = [jobs EXCEPT ![j] = NoServer]
    /\ UNCHANGED <<live, rows, secrets, issued, hostKey, procVars, trustVars, requests, rekeys>>

\* A host is reinstalled, or another one answers in its place.
Rekey(h, k) ==
    /\ rekeys < MaxRekeys /\ hostKey[h] # k
    /\ hostKey' = [hostKey EXCEPT ![h] = k]
    /\ rekeys' = rekeys + 1
    /\ UNCHANGED <<dbVars, secrets, issued, procVars, trustVars, requests>>

-----------------------------------------------------------------------------
\* Fields a handler does not read have their value in NoRequest.
Requests ==
    {r \in Request :
        /\ r.op \notin {"create", "update"} =>
              r.host = NoRequest.host /\ r.auth = NoRequest.auth /\ ~r.pass
        /\ r.op # "confirm" => r.key = NoKey}

Step(p) ==
    \/ Abort(p) \/ Get(p) \/ storeCredential(p) \/ WriteRow(p)
    \/ JobsReferencing(p) \/ DeleteRow(p) \/ DeleteSecret(p)
    \/ ResolveCredentials(p) \/ DialAttempt(p) \/ TestConnection(p) \/ ConfirmHostKey(p)

Next ==
    \/ \E p \in Procs : Step(p)
    \/ \E p \in Procs, r \in Requests : Receive(p, r)
    \/ \E j \in Jobs, i \in Ids : SaveJob(j, i)
    \/ \E j \in Jobs : DeleteJob(j)
    \/ \E h \in Hosts, k \in Keys : Rekey(h, k)

Spec == Init /\ [][Next]_vars

-----------------------------------------------------------------------------
(* Properties *)

\* A fingerprint in the servers table was confirmed by the user for that
\* server, and a host answering for it presented that very key when the
\* confirmation was recorded ("a confirmation can never be recorded without
\* actually having seen that exact key"), however edits, confirmations and
\* changes of the host's key overlap.
TrustConfirmed ==
    \A i \in live : rows[i].fp # NoKey => <<i, rows[i].fp>> \in asked \cap seen

\* A credential is only ever offered to a host whose key the user confirmed
\* for that server: no test, confirmation or run trusts on first use, with
\* whatever old copy of the row it works.
OfferedToConfirmed == sent \subseteq asked

\* The credential of a server is there: a row never names a secret file that
\* was not written or that a deletion has removed, and a server that
\* authenticates by password names one, whichever handlers overlap and
\* wherever one stops.
CredentialsResolve ==
    \A i \in live :
        /\ rows[i].auth = "PASSWORD" => rows[i].cred # NoRef
        /\ rows[i].cred # NoRef => secrets[rows[i].cred] # "absent"

\* A job's server exists: the refusal to delete it holds although the query
\* for jobs and the DELETE are two statements.
JobsHaveServers == \A j \in Jobs : jobs[j] # NoServer => jobs[j] \in live

\* A request or a run offers its credential at most once: a rejected
\* password is not tried again by the attempts of Dial.
OfferedOnce == \A p \in Procs : sends[p] <= 1
=============================================================================
