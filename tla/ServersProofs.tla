---------------------------- MODULE ServersProofs ----------------------------
(***************************************************************************)
(* Proofs about Servers, for any number of servers, secrets, hosts, keys,  *)
(* sessions and runs: which fingerprints are trusted, which hosts a        *)
(* credential is offered to, and that credentials resolve.                 *)
(***************************************************************************)
EXTENDS Servers, TLAPS

AllKeys == Keys \cup {NoKey}

\* p is between the beginning of a servers.create and its answer.
Creating(p) == req[p].op = "create"

\* Which requests are at which place, and where a handler has no row yet.
Shape ==
    \A p \in Procs :
        /\ pc[p] \in {"idle", "get"} \/ (pc[p] = "store" /\ Creating(p)) => snap[p] = Blank
        /\ pc[p] = "idle" => ~Creating(p)
        /\ pc[p] = "get" => ~Creating(p)
        /\ pc[p] = "store" => req[p].op \in {"create", "update"}
        /\ pc[p] = "write" => req[p].op \in {"create", "update", "confirm"}
        /\ pc[p] \in {"check", "delete", "unsecret"} => req[p].op = "delete"
        /\ pc[p] \in {"resolve", "dial"} => req[p].op \in {"test", "confirm", "run"}

\* A fingerprint in a row, or in the copy of a handler, was confirmed and met;
\* the one of a confirmation in progress was asked for.
Confirmed(i, k) == k # NoKey => <<i, k>> \in asked /\ <<i, k>> \in seen

Trust ==
    /\ \A i \in Ids : Confirmed(i, rows[i].fp)
    /\ \A p \in Procs : Confirmed(req[p].id, snap[p].fp)
    /\ \A p \in Procs : req[p].op = "confirm" => <<req[p].id, req[p].key>> \in asked
    /\ sent \subseteq asked

\* Identifiers are drawn once, and the id of a server that is being created
\* is known to no handler that has got past Get.
Issued ==
    /\ live \subseteq issued
    /\ \A i \in Ids : rows[i].cred # NoRef => rows[i].cred \in issued
    /\ \A p \in Procs : snap[p].cred # NoRef => snap[p].cred \in issued
    /\ \A p \in Procs : pc[p] \notin {"idle", "get"} => req[p].id \in issued
    /\ \A p \in Procs : Creating(p) => req[p].id \notin live
    /\ \A p, q \in Procs : p # q /\ Creating(p) /\ req[q].id = req[p].id
                             => pc[q] \in {"idle", "get"}
    /\ \A p \in Procs : pc[p] = "unsecret" => req[p].id \notin live

\* A reference belongs to one server, in rows and in copies of rows alike.
Owned ==
    /\ \A i, k \in live : rows[i].cred # NoRef /\ rows[i].cred = rows[k].cred => i = k
    /\ \A i \in live, p \in Procs :
          rows[i].cred # NoRef /\ rows[i].cred = snap[p].cred => req[p].id = i
    /\ \A p, q \in Procs :
          snap[p].cred # NoRef /\ snap[p].cred = snap[q].cred => req[p].id = req[q].id

\* The secret of a row is there, and so is the one a copy names as long as
\* it may still be written to the table; a copy that is not edited is valid.
Present ==
    /\ CredentialsResolve
    /\ \A p \in Procs : snap[p].cred # NoRef /\ (req[p].id \in live \/ Creating(p))
                          => secrets[snap[p].cred] # "absent"
    /\ \A p \in Procs : req[p].op \notin {"create", "update"} => Validate(snap[p])

\* Nothing is offered before the handshake.
Offers ==
    \A p \in Procs : sends[p] <= 1 /\ (pc[p] \in {"get", "resolve", "dial"} => sends[p] = 0)

IInv == TypeOK /\ Shape /\ Trust /\ Issued /\ Owned /\ Present /\ Offers /\ JobsHaveServers

-----------------------------------------------------------------------------
\* The copy and the request of an idle handler are well formed and empty.
LEMMA BlankFacts ==
    /\ Blank \in Row /\ Blank.cred = NoRef /\ Blank.fp = NoKey /\ Blank.auth = "PRIVATE_KEY"
    /\ NoRequest \in Request /\ NoRequest.op = "test"
    /\ NoKey \notin Keys /\ NoRef \notin Refs /\ NoServer \notin Ids
BY ConstantsDistinct DEF Blank, NoRequest, Row, Request, AuthType, Op

\* What one handshake can give: authentication begins only with the trusted key.
LEMMA DialFacts ==
    ASSUME NEW fp \in AllKeys, NEW key \in Keys, NEW o \in dialOnce(fp, key)
    PROVE  /\ o.key \in AllKeys
           /\ o.auth \in BOOLEAN /\ o.tcp \in BOOLEAN
           /\ o.auth => fp = o.key /\ o.key # NoKey /\ ~isRetryable(o.code)
<1> USE ConstantsDistinct DEF AllKeys, isRetryable
<1>1. CASE o = [code |-> "SSH_CONNECTION_FAILED", tcp |-> FALSE, key |-> NoKey, auth |-> FALSE]
  BY <1>1
<1>2. CASE o = [code |-> "SSH_AUTH_FAILED", tcp |-> TRUE, key |-> NoKey, auth |-> FALSE]
  BY <1>2
<1>3. ASSUME verifyHostKey(fp, key) = "", NEW c \in {"", "SSH_AUTH_FAILED"},
             o = [code |-> c, tcp |-> TRUE, key |-> key, auth |-> TRUE]
      PROVE  /\ o.key = key /\ o.auth = TRUE /\ o.tcp = TRUE
             /\ fp = key /\ ~isRetryable(o.code)
  <2>1. fp = key
    BY <1>3 DEF verifyHostKey
  <2>2. o.code = c /\ o.key = key /\ o.auth = TRUE /\ o.tcp = TRUE
    BY <1>3
  <2> QED
    BY <2>1, <2>2
<1>4. CASE o = [code |-> verifyHostKey(fp, key), tcp |-> TRUE, key |-> key, auth |-> FALSE]
  BY <1>4
<1> QED
  BY <1>1, <1>2, <1>3, <1>4 DEF dialOnce

\* The types of what a handler keeps.
ProcTypes ==
    /\ pc \in [Procs -> Loc] /\ req \in [Procs -> Request] /\ snap \in [Procs -> Row]
    /\ attempt \in [Procs -> 0..(Retries + 1)]

\* Return and Goto keep them.
LEMMA ReturnTypes ==
    ASSUME ProcTypes, NEW p \in Procs, Return(p)
    PROVE  ProcTypes'
BY BlankFacts DEF ProcTypes, Return, Loc, Retries

\* Goto keeps the types of what the handlers hold.
LEMMA GotoTypes ==
    ASSUME ProcTypes, NEW p \in Procs, NEW l \in Loc, NEW r \in Row, Goto(p, l, r)
    PROVE  ProcTypes'
BY DEF ProcTypes, Goto

\* Fields of a request and of a row.
LEMMA FieldTypes ==
    ASSUME TypeOK
    PROVE  /\ \A p \in Procs : req[p].id \in Ids /\ req[p].host \in Hosts /\ req[p].key \in AllKeys
                              /\ req[p].auth \in AuthType /\ req[p].pass \in BOOLEAN
                              /\ req[p].op \in Op
           /\ \A p \in Procs : snap[p].fp \in AllKeys /\ snap[p].cred \in Refs \cup {NoRef}
                              /\ snap[p].host \in Hosts /\ snap[p].auth \in AuthType
           /\ \A i \in Ids : rows[i].fp \in AllKeys /\ rows[i].cred \in Refs \cup {NoRef}
           /\ live \subseteq Ids
           /\ \A p \in Procs : trusted(p) \in AllKeys /\ hostKey[snap[p].host] \in Keys
BY DEF TypeOK, Request, Row, AllKeys, trusted

\* Types are kept.
LEMMA StepTypes ==
    ASSUME TypeOK, [Next]_vars
    PROVE  TypeOK'
<1> USE BlankFacts, ConstantsDistinct DEF TypeOK, AllKeys, dbVars, procVars, trustVars
<1>1. ASSUME NEW p \in Procs, Abort(p) PROVE TypeOK'
  <2>1. ProcTypes
    BY DEF ProcTypes
  <2> QED
    BY <1>1, <2>1, ReturnTypes DEF Abort, ProcTypes
<1>2. ASSUME NEW p \in Procs, Get(p) PROVE TypeOK'
  <2>1. ProcTypes
    BY DEF ProcTypes
  <2>2. ProcTypes'
    <3>1. CASE Return(p)
      BY <2>1, <3>1, ReturnTypes
    <3>2. ASSUME NEW l \in Loc, Goto(p, l, rows[req[p].id]) PROVE ProcTypes'
      BY <2>1, <3>2, GotoTypes, FieldTypes
    <3> QED
      BY <1>2, <3>1, <3>2 DEF Get, Loc
  <2> QED
    BY <1>2, <2>2 DEF Get, ProcTypes
<1>3. ASSUME NEW p \in Procs, storeCredential(p) PROVE TypeOK'
  <2>1. ProcTypes
    BY DEF ProcTypes
  <2>2. \A ref \in Refs \cup {NoRef} : edited(p, ref) \in Row
    BY FieldTypes DEF edited, Row, AllKeys
  <2>3. ASSUME NEW ref \in Refs \cup {NoRef}, Goto(p, "write", edited(p, ref)) PROVE ProcTypes'
    BY <2>1, <2>2, <2>3, GotoTypes DEF Loc
  <2>4. ASSUME NEW ref \in Refs, writeProtected(p, ref)
        PROVE  ProcTypes' /\ secrets' \in [Refs -> {"absent", "torn", "stored"}]
    BY <2>1, <2>3, <2>4, ReturnTypes DEF writeProtected
  <2>5. /\ ProcTypes' /\ secrets' \in [Refs -> {"absent", "torn", "stored"}]
        /\ issued' \subseteq Ids \cup Refs
    BY <1>3, <2>3, <2>4, FieldTypes DEF storeCredential
  <2> QED
    BY <1>3, <2>5 DEF storeCredential, ProcTypes
<1>4. ASSUME NEW p \in Procs, WriteRow(p) PROVE TypeOK'
  <2>1. ProcTypes
    BY DEF ProcTypes
  <2>2. live' \subseteq Ids /\ rows' \in [Ids -> Row]
    <3>1. CASE UNCHANGED rows /\ (UNCHANGED live \/ live' = live \cup {req[p].id})
      BY <3>1, FieldTypes
    <3>2. CASE /\ UNCHANGED live \/ live' = live \cup {req[p].id}
               /\ rows' = [rows EXCEPT ![req[p].id] = snap[p]]
      BY <3>2, FieldTypes
    <3> QED
      BY <1>4, <3>1, <3>2 DEF WriteRow, CreateRow, UpdateRow
  <2>3. ProcTypes' /\ UNCHANGED <<jobs, secrets, issued, hostKey, trustVars, requests, rekeys>>
    BY <1>4, <2>1, ReturnTypes DEF WriteRow, CreateRow, UpdateRow
  <2> QED
    BY <2>2, <2>3 DEF ProcTypes
<1>5. ASSUME NEW p \in Procs, JobsReferencing(p) PROVE TypeOK'
  <2>1. ProcTypes
    BY DEF ProcTypes
  <2>2. ProcTypes'
    <3>1. CASE Return(p)
      BY <2>1, <3>1, ReturnTypes
    <3>2. CASE Goto(p, "delete", snap[p])
      BY <2>1, <3>2, GotoTypes DEF Loc
    <3> QED
      BY <1>5, <3>1, <3>2 DEF JobsReferencing
  <2> QED
    BY <1>5, <2>2, FieldTypes DEF JobsReferencing, ProcTypes
<1>6. ASSUME NEW p \in Procs, DeleteRow(p) PROVE TypeOK'
  <2>1. ProcTypes
    BY DEF ProcTypes
  <2>2. ProcTypes'
    <3>1. CASE Return(p)
      BY <2>1, <3>1, ReturnTypes
    <3>2. CASE Goto(p, "unsecret", snap[p])
      BY <2>1, <3>2, GotoTypes DEF Loc
    <3> QED
      BY <1>6, <3>1, <3>2 DEF DeleteRow
  <2>3. live' \subseteq Ids /\ rows' \in [Ids -> Row]
    <3>1. CASE UNCHANGED <<live, rows>>
      BY <3>1
    <3>2. CASE live' = live \ {req[p].id} /\ rows' = [rows EXCEPT ![req[p].id] = Blank]
      BY <3>2
    <3> QED
      BY <1>6, <3>1, <3>2 DEF DeleteRow
  <2>4. UNCHANGED <<jobs, secrets, issued, hostKey, trustVars, requests, rekeys>>
    BY <1>6 DEF DeleteRow
  <2> QED
    BY <2>2, <2>3, <2>4 DEF ProcTypes
<1>7. ASSUME NEW p \in Procs, DeleteSecret(p) PROVE TypeOK'
  <2>1. ProcTypes
    BY DEF ProcTypes
  <2> QED
    BY <1>7, <2>1, ReturnTypes, FieldTypes DEF DeleteSecret, ProcTypes
<1>8. ASSUME NEW p \in Procs, ResolveCredentials(p) PROVE TypeOK'
  BY <1>8 DEF ResolveCredentials, Retries, Loc
<1>9. ASSUME NEW p \in Procs, DialAttempt(p) PROVE TypeOK'
  <2>1. ProcTypes
    BY DEF ProcTypes
  <2>2. PICK o \in dialOnce(trusted(p), hostKey[snap[p].host]) : offered(p, o) /\ (Return(p) \/ (attempt[p] <= Retries /\ attempt' = [attempt EXCEPT ![p] = @ + 1] /\ UNCHANGED <<pc, req, snap>>))
    BY <1>9 DEF DialAttempt
  <2>3. o.key \in AllKeys
    BY DialFacts, FieldTypes
  <2>4. /\ sent' \subseteq Ids \X AllKeys /\ sends' \in [Procs -> Nat]
        /\ UNCHANGED <<dbVars, secrets, issued, hostKey, asked, requests, rekeys>>
    BY <2>2, <2>3, FieldTypes DEF offered
  <2>5. ProcTypes'
    BY <2>1, <2>2, ReturnTypes DEF ProcTypes, Retries
  <2> QED
    BY <1>9, <2>4, <2>5 DEF DialAttempt, ProcTypes
<1>10. ASSUME NEW p \in Procs, TestConnection(p) PROVE TypeOK'
  <2>1. ProcTypes
    BY DEF ProcTypes
  <2>2. PICK o \in dialOnce(trusted(p), hostKey[snap[p].host]) : offered(p, o) /\ Return(p)
    BY <1>10 DEF TestConnection
  <2>3. o.key \in AllKeys
    BY DialFacts, FieldTypes
  <2>4. /\ sent' \subseteq Ids \X AllKeys /\ sends' \in [Procs -> Nat]
        /\ UNCHANGED <<dbVars, secrets, issued, hostKey, asked, requests, rekeys>>
    BY <2>2, <2>3, FieldTypes DEF offered
  <2> QED
    BY <1>10, <2>1, <2>2, <2>4, ReturnTypes DEF TestConnection, ProcTypes
<1>11. ASSUME NEW p \in Procs, ConfirmHostKey(p) PROVE TypeOK'
  <2>1. ProcTypes
    BY DEF ProcTypes
  <2>2. PICK o \in dialOnce(trusted(p), hostKey[snap[p].host]) : offered(p, o) /\ seen' = (IF o.tcp THEN seen \cup {<<req[p].id, o.key>>} ELSE seen)
          /\ (Return(p) \/ Goto(p, "write", [snap[p] EXCEPT !.fp = req[p].key]))
    BY <1>11 DEF ConfirmHostKey
  <2>3. o.key \in AllKeys
    BY DialFacts, FieldTypes
  <2>4. /\ sent' \subseteq Ids \X AllKeys /\ sends' \in [Procs -> Nat]
        /\ UNCHANGED <<dbVars, secrets, issued, hostKey, asked, requests, rekeys>>
    BY <2>2, <2>3, FieldTypes DEF offered
  <2>5. [snap[p] EXCEPT !.fp = req[p].key] \in Row
    BY FieldTypes DEF Row, AllKeys
  <2>6. ProcTypes'
    BY <2>1, <2>2, <2>5, ReturnTypes, GotoTypes DEF Loc
  <2> QED
    BY <2>2, <2>3, <2>4, <2>6, FieldTypes DEF ProcTypes
<1>12. ASSUME NEW p \in Procs, NEW r \in Requests, Receive(p, r) PROVE TypeOK'
  BY <1>12 DEF Receive, Requests, Request, Loc
<1>13. ASSUME NEW j \in Jobs, NEW i \in Ids, SaveJob(j, i) PROVE TypeOK'
  BY <1>13 DEF SaveJob, TypeOK
<1>14. ASSUME NEW j \in Jobs, DeleteJob(j) PROVE TypeOK'
  BY <1>14 DEF DeleteJob, TypeOK
<1>15. ASSUME NEW h \in Hosts, NEW k \in Keys, Rekey(h, k) PROVE TypeOK'
  BY <1>15 DEF Rekey, TypeOK
<1>16. CASE UNCHANGED vars
  BY <1>16 DEF vars
<1> QED
  BY <1>1, <1>2, <1>3, <1>4, <1>5, <1>6, <1>7, <1>8, <1>9, <1>10, <1>11, <1>12, <1>13, <1>14, <1>15, <1>16 DEF Next, Step

\* What the handlers hold after Return and Goto, one by one.
LEMMA ReturnFacts ==
    ASSUME TypeOK, NEW p \in Procs, Return(p)
    PROVE  /\ pc'[p] = "idle" /\ req'[p] = NoRequest /\ snap'[p] = Blank
           /\ \A q \in Procs : q # p => pc'[q] = pc[q] /\ req'[q] = req[q] /\ snap'[q] = snap[q]
BY DEF TypeOK, Return

\* After Goto a handler is at the new place with the new copy, and the others
\* are where they were.
LEMMA GotoFacts ==
    ASSUME TypeOK, NEW p \in Procs, NEW l, NEW r, Goto(p, l, r)
    PROVE  /\ pc'[p] = l /\ snap'[p] = r
           /\ \A q \in Procs : req'[q] = req[q]
           /\ \A q \in Procs : q # p => pc'[q] = pc[q] /\ snap'[q] = snap[q]
BY DEF TypeOK, Goto

\* What the longer actions do to the table, the secrets and the trust.
Offering(p) ==
    \A e : e \in sent' => e \in sent \/ (trusted(p) # NoKey /\ e = <<req[p].id, trusted(p)>>)

\* A connection offers the credential at most to the host with the trusted key.
LEMMA OfferedEffect ==
    ASSUME TypeOK, NEW p \in Procs, NEW o \in dialOnce(trusted(p), hostKey[snap[p].host]),
           offered(p, o)
    PROVE  Offering(p) /\ UNCHANGED <<live, rows, jobs, secrets, issued, asked>>
<1>1. o.auth => trusted(p) = o.key /\ o.key # NoKey
  BY DialFacts, FieldTypes
<1> QED
  BY <1>1 DEF offered, Offering, dbVars

\* So does an attempt of a run; it touches nothing that is stored.
LEMMA DialEffect ==
    ASSUME TypeOK, NEW p \in Procs, DialAttempt(p)
    PROVE  /\ Offering(p) /\ UNCHANGED <<live, rows, jobs, secrets, issued, asked, seen>>
           /\ Return(p) \/ UNCHANGED <<pc, req, snap>>
BY OfferedEffect DEF DialAttempt

\* So does testConnection, and it answers.
LEMMA TestEffect ==
    ASSUME TypeOK, NEW p \in Procs, TestConnection(p)
    PROVE  /\ Offering(p) /\ UNCHANGED <<live, rows, jobs, secrets, issued, asked, seen>>
           /\ Return(p)
BY OfferedEffect DEF TestConnection

\* confirmHostKey goes on to write exactly the key that the user asked for and
\* a handshake met.
LEMMA ConfirmEffect ==
    ASSUME TypeOK, NEW p \in Procs, ConfirmHostKey(p)
    PROVE  /\ pc[p] = "dial" /\ req[p].op = "confirm"
           /\ Offering(p) /\ UNCHANGED <<live, rows, jobs, secrets, issued, asked>>
           /\ seen \subseteq seen'
           /\ \/ Return(p)
              \/ \E r \in Row : /\ Goto(p, "write", r)
                                /\ r.cred = snap[p].cred /\ r.auth = snap[p].auth
                                /\ r.fp = req[p].key
                                /\ <<req[p].id, req[p].key>> \in seen'
<1> DEFINE r == [snap[p] EXCEPT !.fp = req[p].key]
<1>1. r \in Row /\ r.cred = snap[p].cred /\ r.auth = snap[p].auth /\ r.fp = req[p].key
  BY FieldTypes DEF TypeOK, Row, AllKeys
<1>2. PICK o \in dialOnce(trusted(p), hostKey[snap[p].host]) :
          /\ offered(p, o)
          /\ seen' = IF o.tcp THEN seen \cup {<<req[p].id, o.key>>} ELSE seen
          /\ IF confirms(p, o) THEN Goto(p, "write", r) ELSE Return(p)
  BY DEF ConfirmHostKey
<1>3. seen \subseteq seen' /\ (confirms(p, o) => <<req[p].id, req[p].key>> \in seen')
  BY <1>2 DEF confirms
<1> HIDE DEF r
<1> QED
  BY <1>1, <1>2, <1>3, OfferedEffect DEF ConfirmHostKey

\* The DELETE removes the row of the request and goes on to the secret, or
\* answers.
LEMMA DeleteEffect ==
    ASSUME TypeOK, NEW p \in Procs, DeleteRow(p)
    PROVE  /\ pc[p] = "delete"
           /\ UNCHANGED <<jobs, secrets, issued, hostKey, asked, seen, sent, sends>>
           /\ \/ Return(p) /\ UNCHANGED <<live, rows>>
              \/ /\ Goto(p, "unsecret", snap[p]) /\ req[p].id \in live
                 /\ live' = live \ {req[p].id}
                 /\ rows'[req[p].id] = Blank
                 /\ \A i \in Ids : i # req[p].id => rows'[i] = rows[i]
<1>1. ASSUME rows' = [rows EXCEPT ![req[p].id] = Blank]
      PROVE  rows'[req[p].id] = Blank /\ \A i \in Ids : i # req[p].id => rows'[i] = rows[i]
  BY <1>1, FieldTypes DEF TypeOK
<1> QED
  BY <1>1 DEF DeleteRow, trustVars

\* The last statement writes the handler's copy into the row of the request, if
\* there is one or it creates one, and answers.
LEMMA WriteEffect ==
    ASSUME TypeOK, NEW p \in Procs, WriteRow(p)
    PROVE  /\ pc[p] = "write" /\ Return(p)
           /\ UNCHANGED <<jobs, secrets, issued, hostKey, asked, seen, sent, sends>>
           /\ \/ UNCHANGED <<live, rows>>
              \/ /\ req[p].id \in live \/ Creating(p)
                 /\ req[p].op # "confirm" => Validate(snap[p])
                 /\ live' = live \cup {req[p].id}
                 /\ rows'[req[p].id] = snap[p]
                 /\ \A i \in Ids : i # req[p].id => rows'[i] = rows[i]
<1>1. ASSUME rows' = [rows EXCEPT ![req[p].id] = snap[p]]
      PROVE  rows'[req[p].id] = snap[p] /\ \A i \in Ids : i # req[p].id => rows'[i] = rows[i]
  BY <1>1, FieldTypes DEF TypeOK
<1>2. req[p].id \in live => live = live \cup {req[p].id}
  OBVIOUS
<1> QED
  BY <1>1, <1>2 DEF WriteRow, CreateRow, UpdateRow, trustVars, Creating

\* The reference the new row is to have: the old one, or one never used.
LEMMA StoreEffect ==
    ASSUME TypeOK, NEW p \in Procs, storeCredential(p)
    PROVE  /\ pc[p] = "store" /\ issued \subseteq issued'
           /\ UNCHANGED <<live, rows, jobs, hostKey, asked, seen, sent, sends>>
           /\ \A ref \in Refs : secrets[ref] # "absent" => secrets'[ref] # "absent"
           /\ \/ Return(p)
              \/ \E r \in Row : /\ Goto(p, "write", r) /\ r.fp = snap[p].fp
                                /\ \/ r.cred = snap[p].cred
                                   \/ /\ r.cred \in Refs /\ r.cred \notin issued
                                      /\ r.cred \in issued'
                                      /\ secrets'[r.cred] # "absent"
<1>1. \A ref \in Refs \cup {NoRef} : /\ edited(p, ref) \in Row
                                     /\ edited(p, ref).cred = ref /\ edited(p, ref).fp = snap[p].fp
  BY FieldTypes DEF edited, Row, AllKeys
<1>2. ASSUME NEW ref \in Refs, writeProtected(p, ref)
      PROVE  /\ \A x \in Refs : secrets[x] # "absent" => secrets'[x] # "absent"
             /\ secrets'[ref] # "absent"
             /\ Return(p) \/ Goto(p, "write", edited(p, ref))
  BY <1>2 DEF writeProtected, TypeOK
<1>3. CASE ~req[p].pass /\ Goto(p, "write", edited(p, snap[p].cred)) /\ UNCHANGED <<secrets, issued>>
  BY <1>1, <1>3, FieldTypes DEF storeCredential, dbVars, trustVars
<1>4. CASE snap[p].cred # NoRef /\ writeProtected(p, snap[p].cred) /\ UNCHANGED issued
  BY <1>1, <1>2, <1>4, FieldTypes DEF storeCredential, dbVars, trustVars
<1>5. ASSUME NEW ref \in Refs \ issued, issued' = issued \cup {ref}, writeProtected(p, ref)
      PROVE  /\ issued \subseteq issued'
             /\ \A x \in Refs : secrets[x] # "absent" => secrets'[x] # "absent"
             /\ \/ Return(p)
                \/ \E r \in Row : /\ Goto(p, "write", r) /\ r.fp = snap[p].fp
                                  /\ r.cred \in Refs /\ r.cred \notin issued
                                  /\ r.cred \in issued' /\ secrets'[r.cred] # "absent"
  BY <1>1, <1>2, <1>5
<1> QED
  BY <1>3, <1>4, <1>5 DEF storeCredential, dbVars, trustVars

\* Requests stay in their places.
LEMMA StepShape ==
    ASSUME TypeOK, Shape, [Next]_vars
    PROVE  Shape'
<1> USE BlankFacts, FieldTypes DEF Shape, Creating, dbVars, procVars, trustVars
<1>1. ASSUME NEW p \in Procs, Abort(p) PROVE Shape'
  BY <1>1 DEF Abort, Return, TypeOK
<1>2. ASSUME NEW p \in Procs, Get(p) PROVE Shape'
  <2>0. UNCHANGED <<dbVars, secrets, issued, hostKey, trustVars>>
    BY <1>2 DEF Get
  <2>1. CASE Return(p)
    BY <2>0, <2>1, ReturnFacts
  <2>2. CASE req[p].id \in live /\ pc[p] = "get" /\ req[p].op = "update" /\ Goto(p, "store", rows[req[p].id])
    BY <1>2, <2>0, <2>2, GotoFacts
  <2>3. CASE req[p].id \in live /\ pc[p] = "get" /\ req[p].op = "delete" /\ Goto(p, "check", rows[req[p].id])
    BY <1>2, <2>0, <2>3, GotoFacts
  <2>4. CASE req[p].id \in live /\ pc[p] = "get" /\ req[p].op \notin {"update", "delete"} /\ Goto(p, "resolve", rows[req[p].id])
    BY <1>2, <2>0, <2>4, GotoFacts DEF Op
  <2> QED
    BY <1>2, <2>1, <2>2, <2>3, <2>4 DEF Get
<1>3. ASSUME NEW p \in Procs, storeCredential(p) PROVE Shape'
  BY <1>3 DEF storeCredential, writeProtected, edited, Return, Goto, TypeOK
<1>4. ASSUME NEW p \in Procs, WriteRow(p) PROVE Shape'
  BY <1>4 DEF WriteRow, CreateRow, UpdateRow, Return, TypeOK
<1>5. ASSUME NEW p \in Procs, JobsReferencing(p) PROVE Shape'
  <2>0. UNCHANGED <<dbVars, secrets, issued, hostKey, trustVars>>
    BY <1>5 DEF JobsReferencing
  <2>1. CASE Return(p)
    BY <2>0, <2>1, ReturnFacts
  <2>2. CASE Goto(p, "delete", snap[p]) /\ pc[p] = "check"
    BY <1>5, <2>0, <2>2, GotoFacts
  <2> QED
    BY <1>5, <2>1, <2>2 DEF JobsReferencing
<1>6. ASSUME NEW p \in Procs, DeleteRow(p) PROVE Shape'
  BY <1>6 DEF DeleteRow, referenced, Return, Goto, TypeOK
<1>7. ASSUME NEW p \in Procs, DeleteSecret(p) PROVE Shape'
  BY <1>7 DEF DeleteSecret, Return, TypeOK
<1>8. ASSUME NEW p \in Procs, ResolveCredentials(p) PROVE Shape'
  BY <1>8 DEF ResolveCredentials, TypeOK
<1>9. ASSUME NEW p \in Procs, DialAttempt(p) PROVE Shape'
  BY <1>9, DialFacts DEF DialAttempt, offered, Return, trusted, TypeOK
<1>10. ASSUME NEW p \in Procs, TestConnection(p) PROVE Shape'
  BY <1>10, DialFacts DEF TestConnection, offered, Return, trusted, TypeOK
<1>11. ASSUME NEW p \in Procs, ConfirmHostKey(p) PROVE Shape'
  BY <1>11, DialFacts DEF ConfirmHostKey, offered, confirms, Return, Goto, trusted, TypeOK
<1>12. ASSUME NEW p \in Procs, NEW r \in Requests, Receive(p, r) PROVE Shape'
  BY <1>12 DEF Receive, Requests, TypeOK
<1>13. ASSUME NEW j \in Jobs, NEW i \in Ids, SaveJob(j, i) PROVE Shape'
  BY <1>13 DEF SaveJob, TypeOK
<1>14. ASSUME NEW j \in Jobs, DeleteJob(j) PROVE Shape'
  BY <1>14 DEF DeleteJob, TypeOK
<1>15. ASSUME NEW h \in Hosts, NEW k \in Keys, Rekey(h, k) PROVE Shape'
  BY <1>15 DEF Rekey, TypeOK
<1>16. CASE UNCHANGED vars
  BY <1>16 DEF vars
<1> QED
  BY <1>1, <1>2, <1>3, <1>4, <1>5, <1>6, <1>7, <1>8, <1>9, <1>10, <1>11, <1>12, <1>13, <1>14, <1>15, <1>16 DEF Next, Step

\* Fingerprints stay confirmed.
LEMMA StepTrust ==
    ASSUME TypeOK, Shape, Trust, [Next]_vars
    PROVE  Trust'
<1> USE BlankFacts, FieldTypes DEF Shape, Creating, Trust, Confirmed, dbVars, procVars, trustVars
<1>1. ASSUME NEW p \in Procs, Abort(p) PROVE Trust'
  <2>1. Return(p) /\ UNCHANGED <<dbVars, secrets, issued, trustVars>>
    BY <1>1 DEF Abort
  <2> QED
    BY <2>1, ReturnFacts
<1>2. ASSUME NEW p \in Procs, Get(p) PROVE Trust'
  <2>0. UNCHANGED <<dbVars, secrets, issued, hostKey, trustVars>>
    BY <1>2 DEF Get
  <2>1. CASE Return(p)
    BY <2>0, <2>1, ReturnFacts
  <2>2. CASE req[p].id \in live /\ pc[p] = "get" /\ req[p].op = "update" /\ Goto(p, "store", rows[req[p].id])
    BY <1>2, <2>0, <2>2, GotoFacts
  <2>3. CASE req[p].id \in live /\ pc[p] = "get" /\ req[p].op = "delete" /\ Goto(p, "check", rows[req[p].id])
    BY <1>2, <2>0, <2>3, GotoFacts
  <2>4. CASE req[p].id \in live /\ pc[p] = "get" /\ req[p].op \notin {"update", "delete"} /\ Goto(p, "resolve", rows[req[p].id])
    BY <1>2, <2>0, <2>4, GotoFacts
  <2> QED
    BY <1>2, <2>1, <2>2, <2>3, <2>4 DEF Get
<1>3. ASSUME NEW p \in Procs, storeCredential(p) PROVE Trust'
  <2>0. /\ pc[p] = "store" /\ issued \subseteq issued'
        /\ UNCHANGED <<live, rows, jobs, hostKey, asked, seen, sent, sends>>
        /\ \A ref \in Refs : secrets[ref] # "absent" => secrets'[ref] # "absent"
    BY <1>3, StoreEffect
  <2>1. CASE Return(p)
    BY <2>0, <2>1, ReturnFacts
  <2>2. ASSUME NEW r \in Row, Goto(p, "write", r), r.fp = snap[p].fp, r.cred = snap[p].cred
        PROVE  Trust'
    BY <2>0, <2>2, GotoFacts
  <2>3. ASSUME NEW r \in Row, Goto(p, "write", r), r.fp = snap[p].fp, r.cred \in Refs,
               r.cred \notin issued, r.cred \in issued', secrets'[r.cred] # "absent"
        PROVE  Trust'
    BY <2>0, <2>3, GotoFacts
  <2> QED
    BY <1>3, <2>1, <2>2, <2>3, StoreEffect
<1>4. ASSUME NEW p \in Procs, WriteRow(p) PROVE Trust'
  <2>0. /\ pc[p] = "write" /\ Return(p)
        /\ UNCHANGED <<jobs, secrets, issued, hostKey, asked, seen, sent, sends>>
    BY <1>4, WriteEffect
  <2>1. CASE UNCHANGED <<live, rows>>
    BY <2>0, <2>1, ReturnFacts
  <2>2. ASSUME req[p].id \in live \/ Creating(p), req[p].op # "confirm" => Validate(snap[p]),
               live' = live \cup {req[p].id}, rows'[req[p].id] = snap[p],
               \A i \in Ids : i # req[p].id => rows'[i] = rows[i]
        PROVE  Trust'
    BY <2>0, <2>2, ReturnFacts
  <2> QED
    BY <1>4, <2>1, <2>2, WriteEffect
<1>5. ASSUME NEW p \in Procs, JobsReferencing(p) PROVE Trust'
  <2>0. UNCHANGED <<dbVars, secrets, issued, hostKey, trustVars>>
    BY <1>5 DEF JobsReferencing
  <2>1. CASE Return(p)
    BY <2>0, <2>1, ReturnFacts
  <2>2. CASE Goto(p, "delete", snap[p]) /\ pc[p] = "check"
    BY <1>5, <2>0, <2>2, GotoFacts
  <2> QED
    BY <1>5, <2>1, <2>2 DEF JobsReferencing
<1>6. ASSUME NEW p \in Procs, DeleteRow(p) PROVE Trust'
  <2>0. pc[p] = "delete" /\ UNCHANGED <<jobs, secrets, issued, hostKey, asked, seen, sent, sends>>
    BY <1>6, DeleteEffect
  <2>1. CASE Return(p) /\ UNCHANGED <<live, rows>>
    BY <2>0, <2>1, ReturnFacts
  <2>2. ASSUME Goto(p, "unsecret", snap[p]), req[p].id \in live, live' = live \ {req[p].id},
               rows'[req[p].id] = Blank, \A i \in Ids : i # req[p].id => rows'[i] = rows[i]
        PROVE  Trust'
    BY <2>0, <2>2, GotoFacts
  <2> QED
    BY <1>6, <2>1, <2>2, DeleteEffect
<1>7. ASSUME NEW p \in Procs, DeleteSecret(p) PROVE Trust'
  BY <1>7 DEF DeleteSecret, Return, TypeOK
<1>8. ASSUME NEW p \in Procs, ResolveCredentials(p) PROVE Trust'
  BY <1>8 DEF ResolveCredentials, TypeOK
<1>9. ASSUME NEW p \in Procs, DialAttempt(p) PROVE Trust'
  <2>1. CASE Return(p)
    BY <1>9, <2>1, DialEffect, ReturnFacts DEF Offering, trusted
  <2>2. CASE UNCHANGED <<pc, req, snap>>
    BY <1>9, <2>2, DialEffect DEF Offering, trusted
  <2> QED
    BY <1>9, <2>1, <2>2, DialEffect DEF Offering, trusted
<1>10. ASSUME NEW p \in Procs, TestConnection(p) PROVE Trust'
  BY <1>10, TestEffect, ReturnFacts DEF Offering, trusted
<1>11. ASSUME NEW p \in Procs, ConfirmHostKey(p) PROVE Trust'
  <2>0. /\ pc[p] = "dial" /\ req[p].op = "confirm" /\ Offering(p) /\ seen \subseteq seen'
        /\ UNCHANGED <<live, rows, jobs, secrets, issued, asked>>
    BY <1>11, ConfirmEffect
  <2>1. CASE Return(p)
    BY <2>0, <2>1, ReturnFacts DEF Offering, trusted
  <2>2. ASSUME NEW r \in Row, Goto(p, "write", r), r.cred = snap[p].cred, r.auth = snap[p].auth,
               r.fp = req[p].key, <<req[p].id, req[p].key>> \in seen'
        PROVE  Trust'
    BY <2>0, <2>2, GotoFacts DEF Offering, trusted
  <2> QED
    BY <1>11, <2>1, <2>2, ConfirmEffect
<1>12. ASSUME NEW p \in Procs, NEW r \in Requests, Receive(p, r) PROVE Trust'
  BY <1>12 DEF Receive, Requests, TypeOK
<1>13. ASSUME NEW j \in Jobs, NEW i \in Ids, SaveJob(j, i) PROVE Trust'
  BY <1>13 DEF SaveJob, TypeOK
<1>14. ASSUME NEW j \in Jobs, DeleteJob(j) PROVE Trust'
  BY <1>14 DEF DeleteJob, TypeOK
<1>15. ASSUME NEW h \in Hosts, NEW k \in Keys, Rekey(h, k) PROVE Trust'
  BY <1>15 DEF Rekey, TypeOK
<1>16. CASE UNCHANGED vars
  BY <1>16 DEF vars
<1> QED
  BY <1>1, <1>2, <1>3, <1>4, <1>5, <1>6, <1>7, <1>8, <1>9, <1>10, <1>11, <1>12, <1>13, <1>14, <1>15, <1>16 DEF Next, Step

\* Identifiers stay unique.
LEMMA StepIssued ==
    ASSUME TypeOK, Shape, Issued, [Next]_vars
    PROVE  Issued'
<1> USE BlankFacts, FieldTypes DEF Shape, Creating, Issued, dbVars, procVars, trustVars
<1>1. ASSUME NEW p \in Procs, Abort(p) PROVE Issued'
  <2>1. Return(p) /\ UNCHANGED <<dbVars, secrets, issued, trustVars>>
    BY <1>1 DEF Abort
  <2> QED
    BY <2>1, ReturnFacts
<1>2. ASSUME NEW p \in Procs, Get(p) PROVE Issued'
  <2>0. UNCHANGED <<dbVars, secrets, issued, hostKey, trustVars>>
    BY <1>2 DEF Get
  <2>1. CASE Return(p)
    BY <2>0, <2>1, ReturnFacts
  <2>2. CASE req[p].id \in live /\ pc[p] = "get" /\ req[p].op = "update" /\ Goto(p, "store", rows[req[p].id])
    BY <1>2, <2>0, <2>2, GotoFacts
  <2>3. CASE req[p].id \in live /\ pc[p] = "get" /\ req[p].op = "delete" /\ Goto(p, "check", rows[req[p].id])
    BY <1>2, <2>0, <2>3, GotoFacts
  <2>4. CASE req[p].id \in live /\ pc[p] = "get" /\ req[p].op \notin {"update", "delete"} /\ Goto(p, "resolve", rows[req[p].id])
    BY <1>2, <2>0, <2>4, GotoFacts
  <2> QED
    BY <1>2, <2>1, <2>2, <2>3, <2>4 DEF Get
<1>3. ASSUME NEW p \in Procs, storeCredential(p) PROVE Issued'
  <2>0. /\ pc[p] = "store" /\ issued \subseteq issued'
        /\ UNCHANGED <<live, rows, jobs, hostKey, asked, seen, sent, sends>>
        /\ \A ref \in Refs : secrets[ref] # "absent" => secrets'[ref] # "absent"
    BY <1>3, StoreEffect
  <2>1. CASE Return(p)
    BY <2>0, <2>1, ReturnFacts
  <2>2. ASSUME NEW r \in Row, Goto(p, "write", r), r.fp = snap[p].fp, r.cred = snap[p].cred
        PROVE  Issued'
    BY <2>0, <2>2, GotoFacts
  <2>3. ASSUME NEW r \in Row, Goto(p, "write", r), r.fp = snap[p].fp, r.cred \in Refs,
               r.cred \notin issued, r.cred \in issued', secrets'[r.cred] # "absent"
        PROVE  Issued'
    BY <2>0, <2>3, GotoFacts
  <2> QED
    BY <1>3, <2>1, <2>2, <2>3, StoreEffect
<1>4. ASSUME NEW p \in Procs, WriteRow(p) PROVE Issued'
  <2>0. /\ pc[p] = "write" /\ Return(p)
        /\ UNCHANGED <<jobs, secrets, issued, hostKey, asked, seen, sent, sends>>
    BY <1>4, WriteEffect
  <2>1. CASE UNCHANGED <<live, rows>>
    BY <2>0, <2>1, ReturnFacts
  <2>2. ASSUME req[p].id \in live \/ Creating(p), req[p].op # "confirm" => Validate(snap[p]),
               live' = live \cup {req[p].id}, rows'[req[p].id] = snap[p],
               \A i \in Ids : i # req[p].id => rows'[i] = rows[i]
        PROVE  Issued'
    BY <2>0, <2>2, ReturnFacts
  <2> QED
    BY <1>4, <2>1, <2>2, WriteEffect
<1>5. ASSUME NEW p \in Procs, JobsReferencing(p) PROVE Issued'
  <2>0. UNCHANGED <<dbVars, secrets, issued, hostKey, trustVars>>
    BY <1>5 DEF JobsReferencing
  <2>1. CASE Return(p)
    BY <2>0, <2>1, ReturnFacts
  <2>2. CASE Goto(p, "delete", snap[p]) /\ pc[p] = "check"
    BY <1>5, <2>0, <2>2, GotoFacts
  <2> QED
    BY <1>5, <2>1, <2>2 DEF JobsReferencing
<1>6. ASSUME NEW p \in Procs, DeleteRow(p) PROVE Issued'
  <2>0. pc[p] = "delete" /\ UNCHANGED <<jobs, secrets, issued, hostKey, asked, seen, sent, sends>>
    BY <1>6, DeleteEffect
  <2>1. CASE Return(p) /\ UNCHANGED <<live, rows>>
    BY <2>0, <2>1, ReturnFacts
  <2>2. ASSUME Goto(p, "unsecret", snap[p]), req[p].id \in live, live' = live \ {req[p].id},
               rows'[req[p].id] = Blank, \A i \in Ids : i # req[p].id => rows'[i] = rows[i]
        PROVE  Issued'
    BY <2>0, <2>2, GotoFacts
  <2> QED
    BY <1>6, <2>1, <2>2, DeleteEffect
<1>7. ASSUME NEW p \in Procs, DeleteSecret(p) PROVE Issued'
  BY <1>7 DEF DeleteSecret, Return, TypeOK
<1>8. ASSUME NEW p \in Procs, ResolveCredentials(p) PROVE Issued'
  BY <1>8 DEF ResolveCredentials, TypeOK
<1>9. ASSUME NEW p \in Procs, DialAttempt(p) PROVE Issued'
  <2>1. CASE Return(p)
    BY <1>9, <2>1, DialEffect, ReturnFacts
  <2>2. CASE UNCHANGED <<pc, req, snap>>
    BY <1>9, <2>2, DialEffect
  <2> QED
    BY <1>9, <2>1, <2>2, DialEffect
<1>10. ASSUME NEW p \in Procs, TestConnection(p) PROVE Issued'
  BY <1>10, TestEffect, ReturnFacts
<1>11. ASSUME NEW p \in Procs, ConfirmHostKey(p) PROVE Issued'
  <2>0. /\ pc[p] = "dial" /\ req[p].op = "confirm" /\ Offering(p) /\ seen \subseteq seen'
        /\ UNCHANGED <<live, rows, jobs, secrets, issued, asked>>
    BY <1>11, ConfirmEffect
  <2>1. CASE Return(p)
    BY <2>0, <2>1, ReturnFacts
  <2>2. ASSUME NEW r \in Row, Goto(p, "write", r), r.cred = snap[p].cred, r.auth = snap[p].auth,
               r.fp = req[p].key, <<req[p].id, req[p].key>> \in seen'
        PROVE  Issued'
    BY <2>0, <2>2, GotoFacts
  <2> QED
    BY <1>11, <2>1, <2>2, ConfirmEffect
<1>12. ASSUME NEW p \in Procs, NEW r \in Requests, Receive(p, r) PROVE Issued'
  BY <1>12 DEF Receive, Requests, TypeOK
<1>13. ASSUME NEW j \in Jobs, NEW i \in Ids, SaveJob(j, i) PROVE Issued'
  BY <1>13 DEF SaveJob, TypeOK
<1>14. ASSUME NEW j \in Jobs, DeleteJob(j) PROVE Issued'
  BY <1>14 DEF DeleteJob, TypeOK
<1>15. ASSUME NEW h \in Hosts, NEW k \in Keys, Rekey(h, k) PROVE Issued'
  BY <1>15 DEF Rekey, TypeOK
<1>16. CASE UNCHANGED vars
  BY <1>16 DEF vars
<1> QED
  BY <1>1, <1>2, <1>3, <1>4, <1>5, <1>6, <1>7, <1>8, <1>9, <1>10, <1>11, <1>12, <1>13, <1>14, <1>15, <1>16 DEF Next, Step

\* References stay private.
LEMMA StepOwned ==
    ASSUME TypeOK, Shape, Issued, Owned, [Next]_vars
    PROVE  Owned'
<1> USE BlankFacts, FieldTypes DEF Shape, Creating, Issued, Owned, dbVars, procVars, trustVars
<1>1. ASSUME NEW p \in Procs, Abort(p) PROVE Owned'
  <2>1. Return(p) /\ UNCHANGED <<dbVars, secrets, issued, trustVars>>
    BY <1>1 DEF Abort
  <2> QED
    BY <2>1, ReturnFacts
<1>2. ASSUME NEW p \in Procs, Get(p) PROVE Owned'
  <2>0. UNCHANGED <<dbVars, secrets, issued, hostKey, trustVars>>
    BY <1>2 DEF Get
  <2>1. CASE Return(p)
    BY <2>0, <2>1, ReturnFacts
  <2>2. CASE req[p].id \in live /\ pc[p] = "get" /\ req[p].op = "update" /\ Goto(p, "store", rows[req[p].id])
    BY <1>2, <2>0, <2>2, GotoFacts
  <2>3. CASE req[p].id \in live /\ pc[p] = "get" /\ req[p].op = "delete" /\ Goto(p, "check", rows[req[p].id])
    BY <1>2, <2>0, <2>3, GotoFacts
  <2>4. CASE req[p].id \in live /\ pc[p] = "get" /\ req[p].op \notin {"update", "delete"} /\ Goto(p, "resolve", rows[req[p].id])
    BY <1>2, <2>0, <2>4, GotoFacts
  <2> QED
    BY <1>2, <2>1, <2>2, <2>3, <2>4 DEF Get
<1>3. ASSUME NEW p \in Procs, storeCredential(p) PROVE Owned'
  <2>0. /\ pc[p] = "store" /\ issued \subseteq issued'
        /\ UNCHANGED <<live, rows, jobs, hostKey, asked, seen, sent, sends>>
        /\ \A ref \in Refs : secrets[ref] # "absent" => secrets'[ref] # "absent"
    BY <1>3, StoreEffect
  <2>1. CASE Return(p)
    BY <2>0, <2>1, ReturnFacts
  <2>2. ASSUME NEW r \in Row, Goto(p, "write", r), r.fp = snap[p].fp, r.cred = snap[p].cred
        PROVE  Owned'
    BY <2>0, <2>2, GotoFacts
  <2>3. ASSUME NEW r \in Row, Goto(p, "write", r), r.fp = snap[p].fp, r.cred \in Refs,
               r.cred \notin issued, r.cred \in issued', secrets'[r.cred] # "absent"
        PROVE  Owned'
    BY <2>0, <2>3, GotoFacts
  <2> QED
    BY <1>3, <2>1, <2>2, <2>3, StoreEffect
<1>4. ASSUME NEW p \in Procs, WriteRow(p) PROVE Owned'
  <2>0. /\ pc[p] = "write" /\ Return(p)
        /\ UNCHANGED <<jobs, secrets, issued, hostKey, asked, seen, sent, sends>>
    BY <1>4, WriteEffect
  <2>1. CASE UNCHANGED <<live, rows>>
    BY <2>0, <2>1, ReturnFacts
  <2>2. ASSUME req[p].id \in live \/ Creating(p), req[p].op # "confirm" => Validate(snap[p]),
               live' = live \cup {req[p].id}, rows'[req[p].id] = snap[p],
               \A i \in Ids : i # req[p].id => rows'[i] = rows[i]
        PROVE  Owned'
    BY <2>0, <2>2, ReturnFacts
  <2> QED
    BY <1>4, <2>1, <2>2, WriteEffect
<1>5. ASSUME NEW p \in Procs, JobsReferencing(p) PROVE Owned'
  <2>0. UNCHANGED <<dbVars, secrets, issued, hostKey, trustVars>>
    BY <1>5 DEF JobsReferencing
  <2>1. CASE Return(p)
    BY <2>0, <2>1, ReturnFacts
  <2>2. CASE Goto(p, "delete", snap[p]) /\ pc[p] = "check"
    BY <1>5, <2>0, <2>2, GotoFacts
  <2> QED
    BY <1>5, <2>1, <2>2 DEF JobsReferencing
<1>6. ASSUME NEW p \in Procs, DeleteRow(p) PROVE Owned'
  <2>0. pc[p] = "delete" /\ UNCHANGED <<jobs, secrets, issued, hostKey, asked, seen, sent, sends>>
    BY <1>6, DeleteEffect
  <2>1. CASE Return(p) /\ UNCHANGED <<live, rows>>
    BY <2>0, <2>1, ReturnFacts
  <2>2. ASSUME Goto(p, "unsecret", snap[p]), req[p].id \in live, live' = live \ {req[p].id},
               rows'[req[p].id] = Blank, \A i \in Ids : i # req[p].id => rows'[i] = rows[i]
        PROVE  Owned'
    BY <2>0, <2>2, GotoFacts
  <2> QED
    BY <1>6, <2>1, <2>2, DeleteEffect
<1>7. ASSUME NEW p \in Procs, DeleteSecret(p) PROVE Owned'
  BY <1>7 DEF DeleteSecret, Return, TypeOK
<1>8. ASSUME NEW p \in Procs, ResolveCredentials(p) PROVE Owned'
  BY <1>8 DEF ResolveCredentials, TypeOK
<1>9. ASSUME NEW p \in Procs, DialAttempt(p) PROVE Owned'
  <2>1. CASE Return(p)
    BY <1>9, <2>1, DialEffect, ReturnFacts
  <2>2. CASE UNCHANGED <<pc, req, snap>>
    BY <1>9, <2>2, DialEffect
  <2> QED
    BY <1>9, <2>1, <2>2, DialEffect
<1>10. ASSUME NEW p \in Procs, TestConnection(p) PROVE Owned'
  BY <1>10, TestEffect, ReturnFacts
<1>11. ASSUME NEW p \in Procs, ConfirmHostKey(p) PROVE Owned'
  <2>0. /\ pc[p] = "dial" /\ req[p].op = "confirm" /\ Offering(p) /\ seen \subseteq seen'
        /\ UNCHANGED <<live, rows, jobs, secrets, issued, asked>>
    BY <1>11, ConfirmEffect
  <2>1. CASE Return(p)
    BY <2>0, <2>1, ReturnFacts
  <2>2. ASSUME NEW r \in Row, Goto(p, "write", r), r.cred = snap[p].cred, r.auth = snap[p].auth,
               r.fp = req[p].key, <<req[p].id, req[p].key>> \in seen'
        PROVE  Owned'
    BY <2>0, <2>2, GotoFacts
  <2> QED
    BY <1>11, <2>1, <2>2, ConfirmEffect
<1>12. ASSUME NEW p \in Procs, NEW r \in Requests, Receive(p, r) PROVE Owned'
  BY <1>12 DEF Receive, Requests, TypeOK
<1>13. ASSUME NEW j \in Jobs, NEW i \in Ids, SaveJob(j, i) PROVE Owned'
  BY <1>13 DEF SaveJob, TypeOK
<1>14. ASSUME NEW j \in Jobs, DeleteJob(j) PROVE Owned'
  BY <1>14 DEF DeleteJob, TypeOK
<1>15. ASSUME NEW h \in Hosts, NEW k \in Keys, Rekey(h, k) PROVE Owned'
  BY <1>15 DEF Rekey, TypeOK
<1>16. CASE UNCHANGED vars
  BY <1>16 DEF vars
<1> QED
  BY <1>1, <1>2, <1>3, <1>4, <1>5, <1>6, <1>7, <1>8, <1>9, <1>10, <1>11, <1>12, <1>13, <1>14, <1>15, <1>16 DEF Next, Step

\* Secrets stay present.
LEMMA StepPresent ==
    ASSUME TypeOK, Shape, Issued, Owned, Present, [Next]_vars
    PROVE  Present'
<1> USE BlankFacts, FieldTypes DEF Shape, Creating, Issued, Owned, Present, CredentialsResolve, Validate, dbVars, procVars, trustVars
<1>1. ASSUME NEW p \in Procs, Abort(p) PROVE Present'
  <2>1. Return(p) /\ UNCHANGED <<dbVars, secrets, issued, trustVars>>
    BY <1>1 DEF Abort
  <2> QED
    BY <2>1, ReturnFacts
<1>2. ASSUME NEW p \in Procs, Get(p) PROVE Present'
  <2>0. UNCHANGED <<dbVars, secrets, issued, hostKey, trustVars>>
    BY <1>2 DEF Get
  <2>1. CASE Return(p)
    BY <2>0, <2>1, ReturnFacts
  <2>2. CASE req[p].id \in live /\ pc[p] = "get" /\ req[p].op = "update" /\ Goto(p, "store", rows[req[p].id])
    BY <1>2, <2>0, <2>2, GotoFacts
  <2>3. CASE req[p].id \in live /\ pc[p] = "get" /\ req[p].op = "delete" /\ Goto(p, "check", rows[req[p].id])
    BY <1>2, <2>0, <2>3, GotoFacts
  <2>4. CASE req[p].id \in live /\ pc[p] = "get" /\ req[p].op \notin {"update", "delete"} /\ Goto(p, "resolve", rows[req[p].id])
    BY <1>2, <2>0, <2>4, GotoFacts
  <2> QED
    BY <1>2, <2>1, <2>2, <2>3, <2>4 DEF Get
<1>3. ASSUME NEW p \in Procs, storeCredential(p) PROVE Present'
  <2>0. /\ pc[p] = "store" /\ issued \subseteq issued'
        /\ UNCHANGED <<live, rows, jobs, hostKey, asked, seen, sent, sends>>
        /\ \A ref \in Refs : secrets[ref] # "absent" => secrets'[ref] # "absent"
    BY <1>3, StoreEffect
  <2>1. CASE Return(p)
    BY <2>0, <2>1, ReturnFacts
  <2>2. ASSUME NEW r \in Row, Goto(p, "write", r), r.fp = snap[p].fp, r.cred = snap[p].cred
        PROVE  Present'
    BY <2>0, <2>2, GotoFacts
  <2>3. ASSUME NEW r \in Row, Goto(p, "write", r), r.fp = snap[p].fp, r.cred \in Refs,
               r.cred \notin issued, r.cred \in issued', secrets'[r.cred] # "absent"
        PROVE  Present'
    BY <2>0, <2>3, GotoFacts
  <2> QED
    BY <1>3, <2>1, <2>2, <2>3, StoreEffect
<1>4. ASSUME NEW p \in Procs, WriteRow(p) PROVE Present'
  <2>0. /\ pc[p] = "write" /\ Return(p)
        /\ UNCHANGED <<jobs, secrets, issued, hostKey, asked, seen, sent, sends>>
    BY <1>4, WriteEffect
  <2>1. CASE UNCHANGED <<live, rows>>
    BY <2>0, <2>1, ReturnFacts
  <2>2. ASSUME req[p].id \in live \/ Creating(p), req[p].op # "confirm" => Validate(snap[p]),
               live' = live \cup {req[p].id}, rows'[req[p].id] = snap[p],
               \A i \in Ids : i # req[p].id => rows'[i] = rows[i]
        PROVE  Present'
    BY <2>0, <2>2, ReturnFacts
  <2> QED
    BY <1>4, <2>1, <2>2, WriteEffect
<1>5. ASSUME NEW p \in Procs, JobsReferencing(p) PROVE Present'
  <2>0. UNCHANGED <<dbVars, secrets, issued, hostKey, trustVars>>
    BY <1>5 DEF JobsReferencing
  <2>1. CASE Return(p)
    BY <2>0, <2>1, ReturnFacts
  <2>2. CASE Goto(p, "delete", snap[p]) /\ pc[p] = "check"
    BY <1>5, <2>0, <2>2, GotoFacts
  <2> QED
    BY <1>5, <2>1, <2>2 DEF JobsReferencing
<1>6. ASSUME NEW p \in Procs, DeleteRow(p) PROVE Present'
  <2>0. pc[p] = "delete" /\ UNCHANGED <<jobs, secrets, issued, hostKey, asked, seen, sent, sends>>
    BY <1>6, DeleteEffect
  <2>1. CASE Return(p) /\ UNCHANGED <<live, rows>>
    BY <2>0, <2>1, ReturnFacts
  <2>2. ASSUME Goto(p, "unsecret", snap[p]), req[p].id \in live, live' = live \ {req[p].id},
               rows'[req[p].id] = Blank, \A i \in Ids : i # req[p].id => rows'[i] = rows[i]
        PROVE  Present'
    BY <2>0, <2>2, GotoFacts
  <2> QED
    BY <1>6, <2>1, <2>2, DeleteEffect
<1>7. ASSUME NEW p \in Procs, DeleteSecret(p) PROVE Present'
  BY <1>7 DEF DeleteSecret, Return, TypeOK
<1>8. ASSUME NEW p \in Procs, ResolveCredentials(p) PROVE Present'
  BY <1>8 DEF ResolveCredentials, TypeOK
<1>9. ASSUME NEW p \in Procs, DialAttempt(p) PROVE Present'
  <2>1. CASE Return(p)
    BY <1>9, <2>1, DialEffect, ReturnFacts
  <2>2. CASE UNCHANGED <<pc, req, snap>>
    BY <1>9, <2>2, DialEffect
  <2> QED
    BY <1>9, <2>1, <2>2, DialEffect
<1>10. ASSUME NEW p \in Procs, TestConnection(p) PROVE Present'
  BY <1>10, TestEffect, ReturnFacts
<1>11. ASSUME NEW p \in Procs, ConfirmHostKey(p) PROVE Present'
  <2>0. /\ pc[p] = "dial" /\ req[p].op = "confirm" /\ Offering(p) /\ seen \subseteq seen'
        /\ UNCHANGED <<live, rows, jobs, secrets, issued, asked>>
    BY <1>11, ConfirmEffect
  <2>1. CASE Return(p)
    BY <2>0, <2>1, ReturnFacts
  <2>2. ASSUME NEW r \in Row, Goto(p, "write", r), r.cred = snap[p].cred, r.auth = snap[p].auth,
               r.fp = req[p].key, <<req[p].id, req[p].key>> \in seen'
        PROVE  Present'
    BY <2>0, <2>2, GotoFacts
  <2> QED
    BY <1>11, <2>1, <2>2, ConfirmEffect
<1>12. ASSUME NEW p \in Procs, NEW r \in Requests, Receive(p, r) PROVE Present'
  BY <1>12 DEF Receive, Requests, TypeOK
<1>13. ASSUME NEW j \in Jobs, NEW i \in Ids, SaveJob(j, i) PROVE Present'
  BY <1>13 DEF SaveJob, TypeOK
<1>14. ASSUME NEW j \in Jobs, DeleteJob(j) PROVE Present'
  BY <1>14 DEF DeleteJob, TypeOK
<1>15. ASSUME NEW h \in Hosts, NEW k \in Keys, Rekey(h, k) PROVE Present'
  BY <1>15 DEF Rekey, TypeOK
<1>16. CASE UNCHANGED vars
  BY <1>16 DEF vars
<1> QED
  BY <1>1, <1>2, <1>3, <1>4, <1>5, <1>6, <1>7, <1>8, <1>9, <1>10, <1>11, <1>12, <1>13, <1>14, <1>15, <1>16 DEF Next, Step

\* Nothing is offered twice.
LEMMA StepOffers ==
    ASSUME TypeOK, Shape, Offers, [Next]_vars
    PROVE  Offers'
<1> USE BlankFacts, FieldTypes DEF Shape, Offers, dbVars, procVars, trustVars
<1>1. ASSUME NEW p \in Procs, Abort(p) PROVE Offers'
  BY <1>1 DEF Abort, Return, TypeOK
<1>2. ASSUME NEW p \in Procs, Get(p) PROVE Offers'
  BY <1>2 DEF Get, Return, Goto, TypeOK
<1>3. ASSUME NEW p \in Procs, storeCredential(p) PROVE Offers'
  BY <1>3 DEF storeCredential, writeProtected, edited, Return, Goto, TypeOK
<1>4. ASSUME NEW p \in Procs, WriteRow(p) PROVE Offers'
  BY <1>4 DEF WriteRow, CreateRow, UpdateRow, Return, TypeOK
<1>5. ASSUME NEW p \in Procs, JobsReferencing(p) PROVE Offers'
  BY <1>5 DEF JobsReferencing, Return, Goto, TypeOK
<1>6. ASSUME NEW p \in Procs, DeleteRow(p) PROVE Offers'
  BY <1>6 DEF DeleteRow, referenced, Return, Goto, TypeOK
<1>7. ASSUME NEW p \in Procs, DeleteSecret(p) PROVE Offers'
  BY <1>7 DEF DeleteSecret, Return, TypeOK
<1>8. ASSUME NEW p \in Procs, ResolveCredentials(p) PROVE Offers'
  BY <1>8 DEF ResolveCredentials, TypeOK
<1>9. ASSUME NEW p \in Procs, DialAttempt(p) PROVE Offers'
  BY <1>9, DialFacts DEF DialAttempt, offered, Return, trusted, TypeOK
<1>10. ASSUME NEW p \in Procs, TestConnection(p) PROVE Offers'
  BY <1>10, DialFacts DEF TestConnection, offered, Return, trusted, TypeOK
<1>11. ASSUME NEW p \in Procs, ConfirmHostKey(p) PROVE Offers'
  BY <1>11, DialFacts DEF ConfirmHostKey, offered, confirms, Return, Goto, trusted, TypeOK
<1>12. ASSUME NEW p \in Procs, NEW r \in Requests, Receive(p, r) PROVE Offers'
  BY <1>12 DEF Receive, Requests, TypeOK
<1>13. ASSUME NEW j \in Jobs, NEW i \in Ids, SaveJob(j, i) PROVE Offers'
  BY <1>13 DEF SaveJob, TypeOK
<1>14. ASSUME NEW j \in Jobs, DeleteJob(j) PROVE Offers'
  BY <1>14 DEF DeleteJob, TypeOK
<1>15. ASSUME NEW h \in Hosts, NEW k \in Keys, Rekey(h, k) PROVE Offers'
  BY <1>15 DEF Rekey, TypeOK
<1>16. CASE UNCHANGED vars
  BY <1>16 DEF vars
<1> QED
  BY <1>1, <1>2, <1>3, <1>4, <1>5, <1>6, <1>7, <1>8, <1>9, <1>10, <1>11, <1>12, <1>13, <1>14, <1>15, <1>16 DEF Next, Step

\* Jobs keep their servers.
LEMMA StepJobsHaveServers ==
    ASSUME TypeOK, JobsHaveServers, [Next]_vars
    PROVE  JobsHaveServers'
<1> USE BlankFacts, FieldTypes DEF JobsHaveServers, dbVars, procVars, trustVars
<1>1. ASSUME NEW p \in Procs, Abort(p) PROVE JobsHaveServers'
  BY <1>1 DEF Abort, Return, TypeOK
<1>2. ASSUME NEW p \in Procs, Get(p) PROVE JobsHaveServers'
  BY <1>2 DEF Get, Return, Goto, TypeOK
<1>3. ASSUME NEW p \in Procs, storeCredential(p) PROVE JobsHaveServers'
  BY <1>3 DEF storeCredential, writeProtected, edited, Return, Goto, TypeOK
<1>4. ASSUME NEW p \in Procs, WriteRow(p) PROVE JobsHaveServers'
  BY <1>4 DEF WriteRow, CreateRow, UpdateRow, Return, TypeOK
<1>5. ASSUME NEW p \in Procs, JobsReferencing(p) PROVE JobsHaveServers'
  BY <1>5 DEF JobsReferencing, Return, Goto, TypeOK
<1>6. ASSUME NEW p \in Procs, DeleteRow(p) PROVE JobsHaveServers'
  BY <1>6 DEF DeleteRow, referenced, Return, Goto, TypeOK
<1>7. ASSUME NEW p \in Procs, DeleteSecret(p) PROVE JobsHaveServers'
  BY <1>7 DEF DeleteSecret, Return, TypeOK
<1>8. ASSUME NEW p \in Procs, ResolveCredentials(p) PROVE JobsHaveServers'
  BY <1>8 DEF ResolveCredentials, TypeOK
<1>9. ASSUME NEW p \in Procs, DialAttempt(p) PROVE JobsHaveServers'
  BY <1>9 DEF DialAttempt, offered, Return, trusted, TypeOK
<1>10. ASSUME NEW p \in Procs, TestConnection(p) PROVE JobsHaveServers'
  BY <1>10 DEF TestConnection, offered, Return, trusted, TypeOK
<1>11. ASSUME NEW p \in Procs, ConfirmHostKey(p) PROVE JobsHaveServers'
  BY <1>11 DEF ConfirmHostKey, offered, confirms, Return, Goto, trusted, TypeOK
<1>12. ASSUME NEW p \in Procs, NEW r \in Requests, Receive(p, r) PROVE JobsHaveServers'
  BY <1>12 DEF Receive, Requests, TypeOK
<1>13. ASSUME NEW j \in Jobs, NEW i \in Ids, SaveJob(j, i) PROVE JobsHaveServers'
  BY <1>13 DEF SaveJob, TypeOK
<1>14. ASSUME NEW j \in Jobs, DeleteJob(j) PROVE JobsHaveServers'
  BY <1>14 DEF DeleteJob, TypeOK
<1>15. ASSUME NEW h \in Hosts, NEW k \in Keys, Rekey(h, k) PROVE JobsHaveServers'
  BY <1>15 DEF Rekey, TypeOK
<1>16. CASE UNCHANGED vars
  BY <1>16 DEF vars
<1> QED
  BY <1>1, <1>2, <1>3, <1>4, <1>5, <1>6, <1>7, <1>8, <1>9, <1>10, <1>11, <1>12, <1>13, <1>14, <1>15, <1>16 DEF Next, Step

-----------------------------------------------------------------------------
\* The invariant holds at first: no server, no secret, nothing asked.
LEMMA Initially == Init => IInv
<1> SUFFICES ASSUME Init PROVE IInv
  OBVIOUS
<1> USE BlankFacts, ConstantsDistinct DEF Init
<1>1. TypeOK
  BY DEF TypeOK, Loc, Retries
<1>2. Shape /\ Offers
  BY DEF Shape, Creating, Offers
<1>3. Trust /\ Issued /\ Owned
  BY DEF Trust, Confirmed, Issued, Owned, Creating
<1>4. Present /\ JobsHaveServers
  BY DEF Present, CredentialsResolve, Validate, JobsHaveServers
<1> QED
  BY <1>1, <1>2, <1>3, <1>4 DEF IInv

\* Every step of a handler, a run, a job or a host keeps it.
LEMMA Inductive == IInv /\ [Next]_vars => IInv'
BY StepTypes, StepShape, StepTrust, StepIssued, StepOwned, StepPresent, StepOffers,
   StepJobsHaveServers DEF IInv

\* The inductive invariant holds in every reachable state.
LEMMA InvariantHolds == Spec => []IInv
BY Initially, Inductive, PTL DEF Spec

\* Every fingerprint in the servers table was confirmed by the user and met by
\* the handshake of that confirmation, for any number of sessions that edit,
\* test and confirm at once and hosts that change their keys
\* (handleConfirmHostKey, handleServersUpdate).
THEOREM TrustIsConfirmed == Spec => []TrustConfirmed
<1>1. IInv => TrustConfirmed
  BY DEF IInv, TypeOK, Trust, Confirmed, TrustConfirmed
<1> QED
  BY InvariantHolds, <1>1, PTL

\* No test, confirmation or run offers a credential to a host whose key was
\* not confirmed for that server (verifyHostKey, Dial, TestConnection).
THEOREM OnlyConfirmedHosts == Spec => []OfferedToConfirmed
<1>1. IInv => OfferedToConfirmed
  BY DEF IInv, Trust, OfferedToConfirmed
<1> QED
  BY InvariantHolds, <1>1, PTL

\* A server never names a credential that is not there, whatever handlers
\* overlap and wherever they stop (storeCredential, handleServersDelete).
THEOREM CredentialsAreThere == Spec => []CredentialsResolve
<1>1. IInv => CredentialsResolve
  BY DEF IInv, Present
<1> QED
  BY InvariantHolds, <1>1, PTL

\* A job's server is never deleted, although the query for jobs and the DELETE
\* are two statements (ServerRepository.Delete, JobRepository.Create).
THEOREM JobsKeepServers == Spec => []JobsHaveServers
<1>1. IInv => JobsHaveServers
  BY DEF IInv
<1> QED
  BY InvariantHolds, <1>1, PTL

\* The attempts of one request or run offer its credential at most once
\* (Dial, isRetryable).
THEOREM OneOffer == Spec => []OfferedOnce
<1>1. IInv => OfferedOnce
  BY DEF IInv, Offers, OfferedOnce
<1> QED
  BY InvariantHolds, <1>1, PTL
=============================================================================
