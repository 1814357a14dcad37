---------------------------- MODULE StoreProofs ----------------------------
(***************************************************************************)
(* Proofs about module Store: StoreInv is inductive, and what is committed *)
(* of a job is whole, loads go forward in time, migrations can be          *)
(* restarted and deletions are safe, for all sets of jobs and sessions and *)
(* every number of migrations, failures and crashes.                       *)
(*                                                                         *)
(* The argument: the connection serializes transactions, so the database   *)
(* stands still while one is open, and each statement is one step of a     *)
(* program whose next statement is known (Follow).  From the statement a   *)
(* thread is at follows what its transaction has done so far.              *)
(***************************************************************************)
EXTENDS Store, SequenceTheorems, FiniteSetTheorems, TLAPS

-----------------------------------------------------------------------------
(* Programs *)

\* The five tables of the aggregate.
LEMMA TablesAre == Tables = {"row", "sources", "scripts", "schedule", "retention"}
  BY DEF Tables, Parts

\* What programs of sessions are made of.
SessionStatements == Statements \ (Ddl \cup {"readApplied"})

\* A piece of a program of a session that may be followed by the statement n.
Piece(q, n) ==
    /\ q \in Seq(SessionStatements) /\ Len(q) > 0
    /\ \A i \in 1..Len(q) :
         /\ i = Len(q) => n \in Follow(q[i])
         /\ i < Len(q) => q[i + 1] \in Follow(q[i])
         /\ q[i] = "insertRow" => i <= 2

\* Pieces can be put together.
LEMMA PieceConcat ==
    ASSUME NEW q, NEW r, NEW n, Piece(q, r[1]), Piece(r, n),
           \A i \in 1..Len(r) : r[i] # "insertRow"
    PROVE  /\ Piece(q \o r, n) /\ (q \o r)[1] = q[1]
           /\ (\A i \in 1..Len(q) : q[i] # "insertRow") => \A i \in 1..Len(q \o r) : (q \o r)[i] # "insertRow"
  <1> DEFINE s == q \o r
  <1>1. /\ q \in Seq(SessionStatements) /\ r \in Seq(SessionStatements)
        /\ Len(q) \in Nat \ {0} /\ Len(r) \in Nat \ {0}
    BY DEF Piece
  <1>2. /\ s \in Seq(SessionStatements) /\ Len(s) = Len(q) + Len(r)
        /\ \A i \in 1..(Len(q) + Len(r)) : s[i] = IF i <= Len(q) THEN q[i] ELSE r[i - Len(q)]
    BY <1>1, ConcatProperties
  <1> HIDE DEF s
  <1>3. ASSUME NEW i \in 1..Len(s)
        PROVE  /\ i = Len(s) => n \in Follow(s[i])
               /\ i < Len(s) => s[i + 1] \in Follow(s[i])
               /\ s[i] = "insertRow" => i <= 2
    <2>1. CASE i < Len(q)
      <3>1. i \in 1..Len(q) /\ s[i] = q[i] /\ s[i + 1] = q[i + 1] /\ i # Len(s)
        BY <1>1, <1>2, <2>1
      <3> QED BY <2>1, <3>1 DEF Piece
    <2>2. CASE i = Len(q)
      <3>1. i + 1 \in 1..(Len(q) + Len(r)) /\ ~(i + 1 <= Len(q)) /\ (i + 1) - Len(q) = 1
        BY <1>1, <2>2
      <3>2. s[i + 1] = r[1]
        BY <1>2, <3>1
      <3>3. i \in 1..Len(q) /\ s[i] = q[i] /\ i # Len(s)
        BY <1>1, <1>2, <2>2
      <3> QED BY <2>2, <3>2, <3>3 DEF Piece
    <2>3. CASE i > Len(q)
      <3> DEFINE k == i - Len(q)
      <3>1. k \in 1..Len(r) /\ s[i] = r[k] /\ (i < Len(s) => s[i + 1] = r[k + 1])
            /\ (i = Len(s) <=> k = Len(r)) /\ (i < Len(s) <=> k < Len(r))
        BY <1>1, <1>2, <2>3
      <3> HIDE DEF k
      <3> QED BY <3>1 DEF Piece
    <2> QED BY <1>1, <2>1, <2>2, <2>3
  <1>4. s[1] = q[1]
    BY <1>1, <1>2
  <1>5. ASSUME \A i \in 1..Len(q) : q[i] # "insertRow", NEW i \in 1..Len(s)
        PROVE  s[i] # "insertRow"
    BY <1>1, <1>2, <1>5
  <1> QED BY <1>1, <1>2, <1>3, <1>4, <1>5 DEF Piece, s

\* What holds of every program a session may be given.
Program(q) ==
    /\ q \in Seq(Statements) /\ q # <<>> /\ WellFormed(q)
    /\ \A i \in 1..Len(q) : q[i] \notin Ddl \cup {"readApplied"}
    /\ Head(q) \notin TxStatements

\* A piece that may be followed by the end is a program.
LEMMA PieceProgram ==
    ASSUME NEW q, Piece(q, "end"), q[1] \notin TxStatements
    PROVE  Program(q)
  BY DEF Piece, Program, WellFormed, SessionStatements

\* The programs of all requests are programs of that kind, and only Create
\* inserts a row.
LEMMA Programs ==
    /\ Program(Create) /\ Program(Parts \o Update) /\ Program(Parts) /\ Program(<<"setEnabled">>)
    /\ Program(Parts \o <<"acquire", "createRun", "release">>)
    /\ \A h \in BOOLEAN : Program(Delete(h)) /\ Delete(h)[2] = "checkLock" /\ Delete(h)[1] = "begin"
    /\ (Parts \o Update)[1] = "row" /\ Parts[1] = "row"
    /\ (Parts \o <<"acquire", "createRun", "release">>)[1] = "row"
  <1> USE TablesAre DEF SessionStatements, Statements, TxStatements, Edits, Deletes, Ddl, RunStatements, Follow
  <1> DEFINE c == replaceJobChildren
             e == <<"upsertSchedule", "upsertRetention", "commit">>
             u == <<"begin", "updateRow", "clearSources", "clearScripts">>
             a == <<"acquire", "createRun", "release">>
  <1>1. Piece(c, "commit") /\ Piece(c, "upsertSchedule") /\ c[1] = "insertSources"
        /\ \A i \in 1..Len(c) : c[i] # "insertRow"
    BY DEF replaceJobChildren, Piece
  <1>2. Piece(e, "end") /\ e[1] = "upsertSchedule" /\ \A i \in 1..Len(e) : e[i] # "insertRow"
    BY DEF Piece
  <1>3. Piece(u, "insertSources") /\ u[1] = "begin" /\ \A i \in 1..Len(u) : u[i] # "insertRow"
    BY DEF Piece
  <1>4. Piece(Parts, "begin") /\ Piece(Parts, "acquire") /\ Piece(Parts, "end") /\ Parts[1] = "row"
        /\ \A i \in 1..Len(Parts) : Parts[i] # "insertRow"
    BY DEF Piece, Parts
  <1>5. Piece(a, "end") /\ a[1] = "acquire" /\ \A i \in 1..Len(a) : a[i] # "insertRow"
    BY DEF Piece
  <1>6. Piece(<<"begin", "insertRow">>, "insertSources")
    BY DEF Piece
  <1>7. Piece(<<"commit">>, "end")
    BY DEF Piece
  <1> HIDE DEF c, e, u, a
  <1>8. Program(Create)
    <2>1. Piece(<<"begin", "insertRow">> \o c, "commit") /\ (<<"begin", "insertRow">> \o c)[1] = "begin"
      BY <1>1, <1>6, PieceConcat
    <2>2. Piece((<<"begin", "insertRow">> \o c) \o <<"commit">>, "end") /\ ((<<"begin", "insertRow">> \o c) \o <<"commit">>)[1] = "begin"
      BY <1>7, <2>1, PieceConcat
    <2> QED BY <2>2, PieceProgram DEF Create, c
  <1>9. Program(Parts \o Update) /\ (Parts \o Update)[1] = "row"
    <2>1. Piece(u \o c, "upsertSchedule") /\ (u \o c)[1] = "begin" /\ \A i \in 1..Len(u \o c) : (u \o c)[i] # "insertRow"
      BY <1>1, <1>3, PieceConcat
    <2>2. Piece((u \o c) \o e, "end") /\ ((u \o c) \o e)[1] = "begin" /\ \A i \in 1..Len((u \o c) \o e) : ((u \o c) \o e)[i] # "insertRow"
      BY <1>2, <2>1, PieceConcat
    <2>3. Update = (u \o c) \o e
      BY DEF Update, u, c, e
    <2>4. Piece(Parts \o Update, "end") /\ (Parts \o Update)[1] = "row"
      BY <1>4, <2>2, <2>3, PieceConcat
    <2> QED BY <2>4, PieceProgram
  <1>10. Program(Parts \o a) /\ (Parts \o a)[1] = "row"
    <2>1. Piece(Parts \o a, "end") /\ (Parts \o a)[1] = "row"
      BY <1>4, <1>5, PieceConcat
    <2> QED BY <2>1, PieceProgram
  <1>11. Program(Parts) /\ Parts[1] = "row"
    BY <1>4, PieceProgram
  <1>12. Program(<<"setEnabled">>)
    BY DEF Program, WellFormed
  <1>13. ASSUME NEW h \in BOOLEAN PROVE Program(Delete(h)) /\ Delete(h)[2] = "checkLock" /\ Delete(h)[1] = "begin"
    <2> DEFINE x == <<"begin", "checkLock">>  z == <<"deleteRow", "commit">>  y == <<"deleteRuns">>
    <2>1. Piece(x, "deleteRuns") /\ Piece(x, "deleteRow") /\ x[1] = "begin" /\ x \in Seq(SessionStatements)
      BY DEF Piece
    <2>2. Piece(z, "end") /\ z[1] = "deleteRow" /\ \A i \in 1..Len(z) : z[i] # "insertRow"
      BY DEF Piece
    <2>3. Piece(y, "deleteRow") /\ y[1] = "deleteRuns" /\ \A i \in 1..Len(y) : y[i] # "insertRow"
      BY DEF Piece
    <2> HIDE DEF x, y, z
    <2>4. Piece(x \o y, "deleteRow") /\ (x \o y)[1] = "begin" /\ (x \o y)[2] = "checkLock" /\ Len(x \o y) = 3
      <3>1. (x \o y)[2] = "checkLock" /\ Len(x \o y) = 3
        BY DEF x, y
      <3> QED BY <2>1, <2>3, <3>1, PieceConcat
    <2>5. Piece((x \o y) \o z, "end") /\ ((x \o y) \o z)[1] = "begin" /\ ((x \o y) \o z)[2] = "checkLock"
      <3>1. x \o y \in Seq(SessionStatements) /\ z \in Seq(SessionStatements) /\ Len(z) \in Nat
        BY <2>2, <2>4 DEF Piece
      <3>2. \A i \in 1..(Len(x \o y) + Len(z)) : ((x \o y) \o z)[i] = IF i <= Len(x \o y) THEN (x \o y)[i]
                                                                       ELSE z[i - Len(x \o y)]
        BY <3>1, ConcatProperties
      <3>3. 2 \in 1..(Len(x \o y) + Len(z)) /\ 2 <= Len(x \o y)
        BY <2>4, <3>1
      <3>4. ((x \o y) \o z)[2] = "checkLock"
        BY <2>4, <3>2, <3>3
      <3> QED BY <2>2, <2>4, <3>4, PieceConcat
    <2>6. Piece((x \o <<>>) \o z, "end") /\ ((x \o <<>>) \o z)[1] = "begin" /\ ((x \o <<>>) \o z)[2] = "checkLock"
      <3>1. x \o <<>> = x
        BY <2>1, ConcatEmptySeq
      <3>2. (x \o z)[2] = "checkLock"
        BY DEF x, z
      <3> QED BY <2>1, <2>2, <3>1, <3>2, PieceConcat
    <2>7. Delete(h) \in {(x \o y) \o z, (x \o <<>>) \o z}
      BY DEF Delete, x, y, z
    <2> QED BY <2>5, <2>6, <2>7, PieceProgram
  <1> QED BY <1>8, <1>9, <1>10, <1>11, <1>12, <1>13 DEF a

\* One statement on.
LEMMA TailProgram ==
    ASSUME NEW q \in Seq(Statements), WellFormed(q), q # <<>>
    PROVE  /\ Tail(q) \in Seq(Statements) /\ WellFormed(Tail(q)) /\ Head(q) = q[1] /\ Head(q) \in Statements
           /\ Len(Tail(q)) = Len(q) - 1 /\ \A i \in 1..Len(Tail(q)) : Tail(q)[i] = q[i + 1] /\ i + 1 \in 1..Len(q)
           /\ Tail(q) = <<>> => "end" \in Follow(Head(q))
           /\ Tail(q) # <<>> => Head(Tail(q)) = q[2] /\ q[2] \in Follow(Head(q)) /\ q[2] \in Statements
  <1>1. /\ Head(q) = q[1] /\ Head(q) \in Statements /\ Tail(q) \in Seq(Statements) /\ Len(Tail(q)) = Len(q) - 1
        /\ \A i \in 1..Len(Tail(q)) : Tail(q)[i] = q[i + 1]
    BY HeadTailProperties
  <1>2. Len(q) \in Nat \ {0}
    BY EmptySeq
  <1>3. WellFormed(Tail(q))
    <2> SUFFICES ASSUME NEW i \in 1..Len(Tail(q))
                 PROVE  /\ i = Len(Tail(q)) => "end" \in Follow(Tail(q)[i])
                        /\ i < Len(Tail(q)) => Tail(q)[i + 1] \in Follow(Tail(q)[i])
                        /\ Tail(q)[i] = "insertRow" => i <= 2
      BY DEF WellFormed
    <2> DEFINE k == i + 1
    <2>1. /\ k \in 1..Len(q) /\ Tail(q)[i] = q[k] /\ (i < Len(Tail(q)) => Tail(q)[i + 1] = q[k + 1])
          /\ (i = Len(Tail(q)) <=> k = Len(q)) /\ (i < Len(Tail(q)) <=> k < Len(q)) /\ (k <= 2 => i <= 2)
      BY <1>1, <1>2
    <2> HIDE DEF k
    <2> QED BY <2>1 DEF WellFormed
  <1>4. Tail(q) = <<>> => "end" \in Follow(Head(q))
    <2>1. Tail(q) = <<>> => Len(q) = 1
      BY <1>1, <1>2, EmptySeq
    <2>2. Len(q) = 1 => "end" \in Follow(q[1])
      BY DEF WellFormed
    <2> QED BY <1>1, <2>1, <2>2
  <1>5. ASSUME Tail(q) # <<>> PROVE Head(Tail(q)) = q[2] /\ q[2] \in Follow(Head(q)) /\ q[2] \in Statements
    <2>1. Len(q) > 1
      BY <1>1, <1>2, <1>5
    <2>2. Head(Tail(q)) = q[2]
      BY <1>1, <1>5, <2>1
    <2>3. 1 \in 1..Len(q) /\ 2 \in 1..Len(q) /\ 1 < Len(q)
      BY <1>2, <2>1
    <2>4. q[2] \in Follow(q[1])
      <3>1. \A i \in 1..Len(q) : i < Len(q) => q[i + 1] \in Follow(q[i])
        BY DEF WellFormed
      <3>2. q[1 + 1] \in Follow(q[1])
        BY <2>3, <3>1
      <3>3. 1 + 1 = 2
        OBVIOUS
      <3> QED BY <3>2, <3>3
    <2>5. q[2] \in Statements
      BY <2>3, ElementOfSeq
    <2> QED BY <1>1, <2>2, <2>4, <2>5
  <1> QED BY <1>1, <1>2, <1>3, <1>4, <1>5

-----------------------------------------------------------------------------
(* Statements *)

\* An edit changes one table of one job.
Target(s) ==
    CASE s \in {"insertRow", "updateRow"} -> "row"
      [] s \in {"clearSources", "insertSources"} -> "sources"
      [] s \in {"clearScripts", "insertScripts"} -> "scripts"
      [] s = "upsertSchedule" -> "schedule"
      [] OTHER -> "retention"

\* What the statement of an edit does: its target changes, nothing else.
LEMMA EditEffect ==
    ASSUME NEW d \in Database, NEW a \in [job: Jobs, edit: Nat], NEW s \in Edits
    PROVE  LET r == Effect(s, d, a) IN
           /\ r \in Database
           /\ r.schema = d.schema /\ r.recorded = d.recorded /\ r.lock = d.lock /\ r.runs = d.runs
           /\ Target(s) \in Tables
           /\ \A p \in Tables, k \in Jobs : ~(p = Target(s) /\ k = a.job) => r.tab[p][k] = d.tab[p][k]
           /\ s \in {"clearSources", "clearScripts"} => r.tab[Target(s)][a.job] = {}
           /\ s \in {"insertSources", "insertScripts"} => r.tab[Target(s)][a.job] = d.tab[Target(s)][a.job] \cup {a.edit}
           /\ s \in {"insertRow", "updateRow", "upsertSchedule", "upsertRetention"} => r.tab[Target(s)][a.job] = {a.edit}
  <1> DEFINE r == Effect(s, d, a)
  <1>0. r = Effect(s, d, a)
    OBVIOUS
  <1> HIDE DEF r
  <1> DEFINE p == Target(s)
             v == IF s \in {"clearSources", "clearScripts"} THEN {}
                  ELSE IF s \in {"insertSources", "insertScripts"} THEN d.tab[p][a.job] \cup {a.edit} ELSE {a.edit}
  <1>1. p \in Tables
    BY TablesAre DEF Target
  <1>2. r = [d EXCEPT !.tab[p][a.job] = v]
    BY <1>0 DEF Effect, Put, Clear, Target, Edits
  <1>3. d.tab \in [Tables -> [Jobs -> SUBSET Nat]] /\ v \in SUBSET Nat /\ a.job \in Jobs
    BY <1>1 DEF Database
  <1> HIDE DEF p, v
  <1>4. r.tab = [d.tab EXCEPT ![p] = [d.tab[p] EXCEPT ![a.job] = v]]
    BY <1>2 DEF Database
  <1>5. /\ r.tab \in [Tables -> [Jobs -> SUBSET Nat]] /\ r.tab[p][a.job] = v
        /\ \A q \in Tables, k \in Jobs : ~(q = p /\ k = a.job) => r.tab[q][k] = d.tab[q][k]
    BY <1>1, <1>3, <1>4
  <1>6. /\ r \in Database /\ r.schema = d.schema /\ r.recorded = d.recorded /\ r.lock = d.lock /\ r.runs = d.runs
    BY <1>2, <1>5 DEF Database
  <1> QED BY <1>0, <1>1, <1>5, <1>6 DEF p, v, Edits

\* What deletions do.
LEMMA DeleteEffect ==
    ASSUME NEW d \in Database, NEW a \in [job: Jobs, edit: Nat], NEW s \in Deletes
    PROVE  LET r == Effect(s, d, a) IN
           /\ r \in Database /\ r.schema = d.schema /\ r.recorded = d.recorded
           /\ s = "checkLock" => r = d
           /\ s = "deleteRuns" => r.tab = d.tab /\ r.lock = d.lock /\ r.runs = d.runs \ {a.job}
           /\ s = "deleteRow" => /\ r.lock = d.lock \ {a.job} /\ r.runs = d.runs
                                 /\ \A p \in Tables, k \in Jobs : r.tab[p][k] = IF k = a.job THEN {} ELSE d.tab[p][k]
  <1> DEFINE r == Effect(s, d, a)
  <1>0. r = Effect(s, d, a)
    OBVIOUS
  <1> HIDE DEF r
  <1>1. CASE s = "checkLock"
    BY <1>0, <1>1 DEF Effect
  <1>2. CASE s = "deleteRuns"
    BY <1>0, <1>2 DEF Effect, Database
  <1>3. CASE s = "deleteRow"
    <2> DEFINE tb == [p \in Tables |-> [d.tab[p] EXCEPT ![a.job] = {}]]
    <2>1. r = [d EXCEPT !.tab = tb, !.lock = d.lock \ {a.job}]
      BY <1>0, <1>3 DEF Effect, Cascade
    <2>2. tb \in [Tables -> [Jobs -> SUBSET Nat]] /\ \A p \in Tables, k \in Jobs : tb[p][k] = IF k = a.job THEN {} ELSE d.tab[p][k]
      BY DEF Database
    <2> HIDE DEF tb
    <2>3. r.tab = tb /\ r.lock = d.lock \ {a.job} /\ r.runs = d.runs /\ r.schema = d.schema /\ r.recorded = d.recorded
      BY <2>1 DEF Database
    <2>4. r \in Database
      BY <2>1, <2>2 DEF Database
    <2> QED BY <1>0, <1>3, <2>2, <2>3, <2>4
  <1> QED BY <1>0, <1>1, <1>2, <1>3 DEF Deletes

\* What migrations do.
LEMMA DdlEffect ==
    ASSUME NEW d \in Database, NEW a \in [job: Jobs \cup {None}, edit: Nat], a.edit \in Versions,
           NEW s \in Ddl
    PROVE  LET r == Effect(s, d, a) IN
           /\ r \in Database /\ r.tab = d.tab /\ r.lock = d.lock /\ r.runs = d.runs
           /\ r.schema = IF s = "applySql" THEN d.schema \cup {a.edit} ELSE d.schema
           /\ r.recorded = IF s = "record" THEN d.recorded \cup {a.edit} ELSE d.recorded
  BY DEF Effect, Database, Ddl

\* What single statements do.
LEMMA SingleEffect ==
    ASSUME NEW d \in Database, NEW a \in [job: Jobs, edit: Nat], NEW s \in RunStatements
    PROVE  LET r == Effect(s, d, a) IN
           /\ r \in Database /\ r.tab = d.tab /\ r.schema = d.schema /\ r.recorded = d.recorded
           /\ r.lock = IF s = "acquire" THEN d.lock \cup {a.job}
                       ELSE IF s = "release" THEN d.lock \ {a.job} ELSE d.lock
           /\ d.runs \subseteq r.runs
  BY DEF Effect, Database, RunStatements

-----------------------------------------------------------------------------
(* Types and discipline *)

\* The program of a thread moves on by one statement.
LEMMA Advances ==
    ASSUME TypeOK, Discipline, NEW t \in Threads, ~Idle(t), Advance(t)
    PROVE  /\ todo' \in [Threads -> Seq(Statements)]
           /\ \A u \in Threads : u # t => todo'[u] = todo[u]
           /\ WellFormed(todo'[t])
           /\ Head(todo[t]) = todo[t][1] /\ Head(todo[t]) \in Statements /\ 1 \in 1..Len(todo[t])
           /\ todo'[t] = <<>> => "end" \in Follow(Head(todo[t]))
           /\ todo'[t] # <<>> => /\ Head(todo'[t]) = todo[t][2] /\ 2 \in 1..Len(todo[t])
                                 /\ todo[t][2] \in Follow(Head(todo[t])) /\ todo[t][2] \in Statements
           /\ \A i \in 1..Len(todo'[t]) : todo'[t][i] = todo[t][i + 1] /\ i + 1 \in 1..Len(todo[t])
  <1>1. todo[t] \in Seq(Statements) /\ WellFormed(todo[t]) /\ todo[t] # <<>>
    BY DEF TypeOK, Discipline, Idle
  <1>2. todo'[t] = Tail(todo[t]) /\ \A u \in Threads : u # t => todo'[u] = todo[u]
    BY DEF Advance, TypeOK
  <1>3. Len(todo[t]) \in Nat \ {0}
    BY <1>1, EmptySeq
  <1>4. todo' \in [Threads -> Seq(Statements)]
    BY <1>1, TailProgram DEF Advance, TypeOK
  <1>5. todo'[t] # <<>> => Len(todo[t]) >= 2
    BY <1>1, <1>2, <1>3, TailProgram
  <1>6. WellFormed(todo'[t]) /\ Head(todo[t]) = todo[t][1] /\ Head(todo[t]) \in Statements
    BY <1>1, <1>2, TailProgram
  <1>7. todo'[t] = <<>> => "end" \in Follow(Head(todo[t]))
    BY <1>1, <1>2, TailProgram
  <1>8. todo'[t] # <<>> => /\ Head(todo'[t]) = todo[t][2] /\ todo[t][2] \in Follow(Head(todo[t]))
                           /\ todo[t][2] \in Statements
    BY <1>1, <1>2, TailProgram
  <1>9. \A i \in 1..Len(todo'[t]) : todo'[t][i] = todo[t][i + 1] /\ i + 1 \in 1..Len(todo[t])
    BY <1>1, <1>2, TailProgram
  <1>10. 1 \in 1..Len(todo[t]) /\ (todo'[t] # <<>> => 2 \in 1..Len(todo[t]))
    BY <1>3, <1>5
  <1> QED BY <1>2, <1>4, <1>6, <1>7, <1>8, <1>9, <1>10

\* What is known of the statement a thread is at.
LEMMA AtStatement ==
    ASSUME TypeOK, Discipline, NEW t \in Threads, ~Idle(t)
    PROVE  /\ Head(todo[t]) \in Statements
           /\ Head(todo[t]) \in TxStatements <=> conn = t
           /\ t \in Sessions => Head(todo[t]) \notin Ddl \cup {"readApplied"} /\ arg[t] \in [job: Jobs, edit: Nat]
           /\ t = Main => Head(todo[t]) \in Ddl \cup {"readApplied", "begin", "commit"}
  <1>1. todo[t] \in Seq(Statements) /\ todo[t] # <<>>
    BY DEF TypeOK, Idle
  <1>2. Head(todo[t]) = todo[t][1] /\ Head(todo[t]) \in Statements /\ 1 \in 1..Len(todo[t])
    BY <1>1, EmptySeq, HeadTailProperties
  <1>3. t \in Sessions => arg[t] \in [job: Jobs, edit: Nat]
    BY DEF TypeOK, Discipline
  <1> QED BY <1>2, <1>3 DEF Discipline

\* A statement of a transaction is an edit or a deletion of a session, or a
\* migration of Main.
LEMMA InTransaction ==
    ASSUME TypeOK, Discipline, Migrating, NEW t \in Threads, InTx(t), ~At(t, "commit")
    PROVE  /\ ~Idle(t) /\ conn = t
           /\ t \in Sessions => Head(todo[t]) \in Edits \cup Deletes /\ arg[t] \in [job: Jobs, edit: Nat]
           /\ t = Main => /\ Head(todo[t]) \in Ddl /\ arg[t] \in [job: Jobs \cup {None}, edit: Nat]
                          /\ arg[t].edit \in Versions
  <1>1. ~Idle(t) /\ conn = t /\ Head(todo[t]) # "commit"
    BY DEF InTx, At, Idle
  <1>2. Head(todo[t]) \in TxStatements
    BY <1>1, AtStatement
  <1>3. t \in Sessions => Head(todo[t]) \in Edits \cup Deletes /\ arg[t] \in [job: Jobs, edit: Nat]
    BY <1>1, <1>2, AtStatement DEF TxStatements
  <1>4. t = Main => Head(todo[t]) \in Ddl
    BY <1>1, <1>2, AtStatement DEF TxStatements, Edits, Deletes
  <1>5. t = Main => arg[t].edit \in Versions
    BY <1>1, <1>4 DEF Migrating, TypeOK, At, Ddl
  <1>6. t = Main => arg[t] \in [job: Jobs \cup {None}, edit: Nat]
    BY DEF TypeOK
  <1> QED BY <1>1, <1>3, <1>4, <1>5, <1>6

\* Outside a transaction only single statements of a session are executed.
LEMMA OutsideTransaction ==
    ASSUME TypeOK, Discipline, NEW t \in Threads, conn = None, Single(t)
    PROVE  ~Idle(t) /\ t \in Sessions /\ Head(todo[t]) \in RunStatements /\ arg[t] \in [job: Jobs, edit: Nat]
  <1>1. ~Idle(t) /\ Head(todo[t]) \notin Pooled /\ conn # t
    BY StoreAssumption DEF Single
  <1>2. Head(todo[t]) \in RunStatements
    BY <1>1, AtStatement DEF Statements, Pooled
  <1>3. t # Main
    BY <1>1, <1>2, AtStatement DEF Ddl, RunStatements
  <1> QED BY <1>1, <1>2, <1>3, AtStatement DEF Threads

\* A request gives a session one of the programs, and only jobs.create one that
\* inserts a row, for an id that is not in use.
LEMMA RequestedProgram ==
    ASSUME NEW t \in Threads, Requests(t)
    PROVE  \E q : \E j \in Jobs :
               /\ Request(t, q, j) /\ Program(q)
               /\ FreshId(j) \/ (q[1] # "insertRow" /\ ~(q[1] = "begin" /\ q[2] = "insertRow"))
  <1>1. PICK j \in Jobs : \/ handleJobsCreate(t, j) \/ handleJobsUpdate(t, j) \/ handleJobsSetEnabled(t, j)
                         \/ \E h \in BOOLEAN : handleJobsDelete(t, j, h)
                         \/ loadJobs(t, j) \/ StartRun(t, j)
    BY DEF Requests
  <1>2. CASE handleJobsCreate(t, j)
    BY <1>2, Programs DEF handleJobsCreate
  <1>3. CASE handleJobsUpdate(t, j)
    BY <1>3, Programs DEF handleJobsUpdate
  <1>4. CASE handleJobsSetEnabled(t, j)
    BY <1>4, Programs DEF handleJobsSetEnabled
  <1>5. CASE \E h \in BOOLEAN : handleJobsDelete(t, j, h)
    BY <1>5, Programs DEF handleJobsDelete
  <1>6. CASE loadJobs(t, j)
    BY <1>6, Programs DEF loadJobs
  <1>7. CASE StartRun(t, j)
    BY <1>7, Programs DEF StartRun
  <1> QED BY <1>1, <1>2, <1>3, <1>4, <1>5, <1>6, <1>7

\* The empty database is one.
LEMMA EmptyIsDatabase == EmptyDb \in Database
  BY DEF EmptyDb, Database

\* Every step keeps the types.
LEMMA StepTyped ==
    ASSUME TypeOK, Discipline, Migrating, Next
    PROVE  TypeOK'
<1> USE DEF TypeOK
<1>1. ASSUME NEW t \in Threads, Requests(t) PROVE TypeOK'
  <2>0. PICK q : \E j \in Jobs : Request(t, q, j) /\ Program(q)
    BY <1>1, RequestedProgram
  <2>1. PICK j \in Jobs : Request(t, q, j) /\ Program(q)
    BY <2>0
  <2>2. q \in Seq(Statements) /\ <<>> \in Seq(SUBSET Nat)
    BY <2>1 DEF Program
  <2> QED BY <2>1, <2>2 DEF Request
<1>2. ASSUME NEW t \in Threads, Begin(t) PROVE TypeOK'
  <2>1. todo' \in [Threads -> Seq(Statements)]
    BY <1>2, Advances DEF Begin, At, Idle
  <2>2. arg' \in [Threads -> [job: Jobs \cup {None}, edit: Nat]] /\ serial' \in Nat
    <3>1. arg[t] \in [job: Jobs \cup {None}, edit: Nat] /\ serial + 1 \in Nat
      OBVIOUS
    <3>2. [arg[t] EXCEPT !.edit = serial + 1] \in [job: Jobs \cup {None}, edit: Nat]
      BY <3>1
    <3>3. arg' = arg \/ arg' = [arg EXCEPT ![t] = [arg[t] EXCEPT !.edit = serial + 1]]
      BY <1>2 DEF Begin
    <3> QED BY <1>2, <3>1, <3>2, <3>3 DEF Begin
  <2> QED BY <1>2, <2>1, <2>2 DEF Begin
<1>3. ASSUME NEW t \in Threads, Exec(t) PROVE TypeOK'
  <2>1. todo' \in [Threads -> Seq(Statements)]
    BY <1>3, Advances DEF Exec, InTx
  <2>2. tx' \in Database
    <3>1. InTx(t) /\ ~At(t, "commit") /\ tx' = Effect(Head(todo[t]), tx, arg[t])
      BY <1>3 DEF Exec
    <3>2. CASE t \in Sessions /\ Head(todo[t]) \in Edits
      BY <3>1, <3>2, InTransaction, EditEffect
    <3>3. CASE t \in Sessions /\ Head(todo[t]) \in Deletes
      BY <3>1, <3>3, InTransaction, DeleteEffect
    <3>4. CASE t = Main
      BY <3>1, <3>4, InTransaction, DdlEffect
    <3> QED BY <3>1, <3>2, <3>3, <3>4, InTransaction DEF Threads
  <2> QED BY <1>3, <2>1, <2>2 DEF Exec
<1>4. ASSUME NEW t \in Threads, Commit(t) PROVE TypeOK'
  <2>1. todo' \in [Threads -> Seq(Statements)]
    BY <1>4, Advances DEF Commit, InTx
  <2> QED BY <1>4, <2>1, EmptyIsDatabase DEF Commit
<1>5. ASSUME NEW t \in Threads, Rollback(t) PROVE TypeOK'
  <2>1. todo' \in [Threads -> Seq(Statements)]
    BY <1>5, EmptySeq DEF Rollback, Abandon
  <2> QED BY <1>5, <2>1, EmptyIsDatabase DEF Rollback, ErrorOf
<1>6. ASSUME NEW t \in Threads, Query(t) PROVE TypeOK'
  <2>1. ~Idle(t) /\ Head(todo[t]) \in Tables
    BY <1>6 DEF Query, At, Idle
  <2>2. t \in Sessions /\ arg[t].job \in Jobs
    <3>1. t # Main
      BY <2>1, TablesAre, AtStatement DEF Ddl
    <3>2. t \in Sessions
      BY <3>1 DEF Threads
    <3> QED BY <2>1, <3>2, AtStatement
  <2>3. todo' \in [Threads -> Seq(Statements)]
    BY <1>6, <2>1, Advances, EmptySeq DEF Query, Abandon
  <2>4. db.tab[Head(todo[t])][arg[t].job] \in SUBSET Nat
    BY <2>1, <2>2 DEF Database
  <2>5. loaded' = [loaded EXCEPT ![t] = Append(@, db.tab[Head(todo[t])][arg[t].job])]
    BY <1>6 DEF Query
  <2>6. loaded' \in [Threads -> Seq(SUBSET Nat)]
    BY <2>4, <2>5, AppendProperties
  <2> QED BY <1>6, <2>3, <2>6 DEF Query
<1>7. ASSUME NEW t \in Threads, AutoCommit(t) PROVE TypeOK'
  <2>1. conn = None /\ Single(t) /\ db' = Effect(Head(todo[t]), db, arg[t])
    BY <1>7 DEF AutoCommit
  <2>2. db' \in Database
    BY <2>1, OutsideTransaction, SingleEffect
  <2>3. todo' \in [Threads -> Seq(Statements)]
    BY <1>7, <2>1, Advances DEF AutoCommit, Single
  <2> QED BY <1>7, <2>2, <2>3 DEF AutoCommit
<1>8. ASSUME NEW t \in Threads, StatementFails(t) PROVE TypeOK'
  <2>1. AfterRefusal(t) \in Seq(Statements) /\ AfterFault(t) \in Seq(Statements)
    <3>1. <<>> \in Seq(Statements) /\ <<"createSkipped">> \in Seq(Statements) /\ <<"release">> \in Seq(Statements)
      BY DEF Statements, RunStatements
    <3> QED BY <3>1 DEF AfterRefusal, AfterFault
  <2>2. todo' \in [Threads -> Seq(Statements)]
    BY <1>8, <2>1 DEF StatementFails
  <2> QED BY <1>8, <2>2 DEF StatementFails, ErrorOf
<1>9. ASSUME Start PROVE TypeOK'
  <2>1. <<"readApplied">> \in Seq(Statements)
    BY DEF Statements
  <2> QED BY <1>9, <2>1 DEF Start
<1>10. ASSUME appliedMigrationVersions PROVE TypeOK'
  <2>1. todo' \in [Threads -> Seq(Statements)]
    BY <1>10, Advances DEF appliedMigrationVersions, At, Idle, Threads
  <2> QED BY <1>10, <2>1 DEF appliedMigrationVersions
<1>11. ASSUME MigrateNext PROVE TypeOK'
  <2>1. applyMigration \in Seq(Statements)
    BY DEF applyMigration, Statements, TxStatements, Ddl
  <2>2. arg' \in [Threads -> [job: Jobs \cup {None}, edit: Nat]]
    <3>1. PICK v \in missing : arg' = [arg EXCEPT ![Main].edit = v]
      BY <1>11 DEF MigrateNext
    <3>2. v \in Nat /\ Main \in Threads
      BY DEF Versions, Threads
    <3>3. [arg[Main] EXCEPT !.edit = v] \in [job: Jobs \cup {None}, edit: Nat]
      BY <3>2
    <3>4. arg' = [arg EXCEPT ![Main] = [arg[Main] EXCEPT !.edit = v]]
      BY <3>1
    <3> QED BY <3>3, <3>4
  <2> QED BY <1>11, <2>1, <2>2 DEF MigrateNext
<1>12. ASSUME Serve PROVE TypeOK'
  BY <1>12 DEF Serve, Database
<1>13. ASSUME Crash PROVE TypeOK'
  <2>1. /\ todo' \in [Threads -> Seq(Statements)] /\ loaded' \in [Threads -> Seq(SUBSET Nat)]
        /\ arg' \in [Threads -> [job: Jobs \cup {None}, edit: Nat]]
    BY <1>13, EmptySeq DEF Crash, NoArg
  <2> QED BY <1>13, <2>1, EmptyIsDatabase DEF Crash
<1> QED BY <1>1, <1>2, <1>3, <1>4, <1>5, <1>6, <1>7, <1>8, <1>9, <1>10, <1>11, <1>12, <1>13 DEF Next, Step, Startup

\* How programs go on: a transaction goes on to its commit, nothing else leads
\* into one but its begin.
LEMMA FollowFacts ==
    /\ "end" \notin Statements
    /\ Follow("begin") \subseteq TxStatements
    /\ \A s \in Edits \cup Deletes \cup Ddl : Follow(s) \subseteq TxStatements
    /\ Follow("commit") = {"end"}
    /\ \A s \in Tables \cup RunStatements \cup {"readApplied"} : Follow(s) \cap TxStatements = {}
  BY TablesAre DEF Follow, Statements, TxStatements, Edits, Deletes, Ddl, RunStatements

\* Discipline is a matter of the thread that moves.
LEMMA OneThreadMoves ==
    ASSUME Discipline, NEW t \in Threads,
           \A u \in Threads : u # t => todo'[u] = todo[u] /\ (conn' = u <=> conn = u),
           WellFormed(todo'[t]),
           todo'[t] # <<>> => (Head(todo'[t]) \in TxStatements <=> conn' = t),
           conn' = t => todo'[t] # <<>>,
           t \in Sessions => \A i \in 1..Len(todo'[t]) : todo'[t][i] \notin Ddl \cup {"readApplied"},
           t = Main => \A i \in 1..Len(todo'[t]) : todo'[t][i] \in Ddl \cup {"readApplied", "begin", "commit"},
           \A u \in Sessions : /\ todo'[u] # <<>> => arg'[u].job \in Jobs
                               /\ phase' # "serve" => todo'[u] = <<>>,
           phase' # "migrate" => todo'[Main] = <<>>,
           loaded'[Main] = <<>>
    PROVE  Discipline'
  BY DEF Discipline, Idle, Threads

\* A thread that works is a session that serves, or Main that migrates.
LEMMA PhaseOfThread ==
    ASSUME TypeOK, Discipline, NEW t \in Threads, ~Idle(t)
    PROVE  /\ t \in Sessions => phase = "serve" /\ Idle(Main)
           /\ t = Main => phase = "migrate" /\ \A u \in Sessions : Idle(u)
           /\ t \in Sessions \/ t = Main
  BY DEF TypeOK, Discipline, Threads

\* A transaction begins: an edit gets its number, the program goes on with the
\* first statement of the transaction.
LEMMA BeginFacts ==
    ASSUME TypeOK, Discipline, NEW t \in Threads, Begin(t)
    PROVE  /\ ~Idle(t) /\ Head(todo[t]) = "begin" /\ Advance(t)
           /\ conn = None /\ conn' = t /\ db' = db /\ tx' = db
           /\ phase' = phase /\ loaded' = loaded /\ missing' = missing /\ gone' = gone
           /\ \A u \in Threads : /\ arg'[u].job = arg[u].job
                                 /\ u # t => arg'[u] = arg[u] /\ todo'[u] = todo[u]
           /\ todo'[t] # <<>> /\ Head(todo'[t]) = todo[t][2]
           /\ t \in Sessions => Head(todo'[t]) \in {"insertRow", "updateRow", "checkLock"}
           /\ t = Main => Head(todo'[t]) = "applySql" /\ arg' = arg /\ serial' = serial
           /\ \/ /\ t \in Sessions /\ Head(todo'[t]) \in {"insertRow", "updateRow"}
                 /\ serial' = serial + 1 /\ arg'[t].edit = serial'
              \/ ~(t \in Sessions /\ Head(todo'[t]) \in {"insertRow", "updateRow"}) /\ arg' = arg /\ serial' = serial
  <1>1. /\ ~Idle(t) /\ Head(todo[t]) = "begin" /\ Advance(t)
        /\ conn = None /\ conn' = t /\ db' = db /\ tx' = db
        /\ phase' = phase /\ loaded' = loaded /\ missing' = missing /\ gone' = gone
    BY DEF Begin, At, Idle
  <1>2. arg[t] \in [job: Jobs \cup {None}, edit: Nat] /\ serial \in Nat
    BY DEF TypeOK
  <1> DEFINE new == [arg[t] EXCEPT !.edit = serial + 1]
  <1>3. new.job = arg[t].job /\ new.edit = serial + 1
    BY <1>2
  <1>4. IF t # Main /\ todo[t][2] \in {"insertRow", "updateRow"}
        THEN serial' = serial + 1 /\ arg' = [arg EXCEPT ![t] = new]
        ELSE serial' = serial /\ arg' = arg
    BY DEF Begin
  <1> HIDE DEF new
  <1>5. \A u \in Threads : /\ arg'[u].job = arg[u].job
                           /\ u # t => arg'[u] = arg[u]
    BY <1>3, <1>4 DEF TypeOK
  <1>6. "end" \notin Follow("begin") /\ Follow("begin") = {"insertRow", "updateRow", "checkLock", "applySql"}
    BY DEF Follow
  <1>7. todo'[t] # <<>> /\ Head(todo'[t]) = todo[t][2] /\ todo[t][2] \in Follow("begin") /\ 2 \in 1..Len(todo[t])
    BY <1>1, <1>6, Advances
  <1>8. \A u \in Threads : u # t => todo'[u] = todo[u]
    BY <1>1, Advances
  <1>9. t \in Sessions => todo[t][2] \notin Ddl
    BY <1>7 DEF Discipline
  <1>10. t = Main => todo[t][2] \in Ddl \cup {"readApplied", "begin", "commit"}
    BY <1>7 DEF Discipline
  <1>11. /\ t \in Sessions => Head(todo'[t]) \in {"insertRow", "updateRow", "checkLock"}
         /\ t = Main => Head(todo'[t]) = "applySql"
    BY <1>6, <1>7, <1>9, <1>10 DEF Ddl
  <1>12. t \in Sessions <=> t # Main
    BY StoreAssumption DEF Threads
  <1>13. IF t \in Sessions /\ Head(todo'[t]) \in {"insertRow", "updateRow"}
         THEN serial' = serial + 1 /\ arg'[t].edit = serial'
         ELSE serial' = serial /\ arg' = arg
    BY <1>3, <1>4, <1>7, <1>12 DEF TypeOK
  <1>14. t = Main => arg' = arg /\ serial' = serial
    BY <1>4
  <1> QED BY <1>1, <1>5, <1>7, <1>8, <1>11, <1>13, <1>14

\* Every step keeps the discipline.
LEMMA StepDiscipline ==
    ASSUME TypeOK, Discipline, Migrating, Next
    PROVE  Discipline'
<1> DEFINE AllJobs == \A u \in Sessions : ~Idle(u) => arg[u].job \in Jobs
<1>0. AllJobs /\ loaded[Main] = <<>> /\ None \notin Threads /\ Main \in Threads /\ Main \notin Sessions
      /\ \A u \in Sessions : u \in Threads
  BY StoreAssumption DEF Discipline, Threads
<1> USE DEF Idle
<1>1. ASSUME NEW t \in Threads, Requests(t) PROVE Discipline'
  <2>0. PICK q : \E j \in Jobs : Request(t, q, j) /\ Program(q)
    BY <1>1, RequestedProgram
  <2>1. PICK j \in Jobs : Request(t, q, j) /\ Program(q)
    BY <2>0
  <2>2. t \in Sessions /\ t # Main /\ conn' = conn /\ conn # t /\ phase' = "serve" /\ phase = "serve"
    BY <1>0, <2>1 DEF Request, Discipline
  <2>3. todo'[t] = q /\ \A u \in Threads : u # t => todo'[u] = todo[u]
    BY <2>1 DEF Request, TypeOK
  <2>4. arg'[t].job = j /\ \A u \in Threads : u # t => arg'[u] = arg[u]
    BY <2>1 DEF Request, TypeOK
  <2>5. loaded'[Main] = <<>>
    BY <1>0, <2>1, <2>2 DEF Request, TypeOK
  <2>6. \A u \in Sessions : todo'[u] # <<>> => arg'[u].job \in Jobs
    BY <1>0, <2>3, <2>4
  <2>7. todo'[Main] = <<>>
    BY <1>0, <2>2, <2>3 DEF Discipline
  <2> QED BY <2>1, <2>2, <2>3, <2>5, <2>6, <2>7, OneThreadMoves DEF Program
<1>2. ASSUME NEW t \in Threads, Begin(t) PROVE Discipline'
  <2>1. ~Idle(t) /\ Head(todo[t]) = "begin" /\ conn = None /\ conn' = t /\ Advance(t) /\ phase' = phase /\ loaded' = loaded
    BY <1>2 DEF Begin, At
  <2>2. todo'[t] # <<>> /\ Head(todo'[t]) \in TxStatements
    BY <2>1, Advances, FollowFacts DEF TxStatements, Edits, Deletes, Ddl
  <2>3. \A u \in Threads : arg'[u].job = arg[u].job
    BY <1>2, BeginFacts
  <2>4. \A u \in Threads : todo'[u] # <<>> => todo[u] # <<>>
    BY <2>1, Advances
  <2>5. \A u \in Threads : u # t => todo'[u] = todo[u] /\ (conn' = u <=> conn = u)
    BY <1>0, <2>1, Advances
  <2>6. WellFormed(todo'[t]) /\ \A i \in 1..Len(todo'[t]) : \E k \in 1..Len(todo[t]) : todo'[t][i] = todo[t][k]
    BY <2>1, Advances
  <2>7. /\ t \in Sessions => \A i \in 1..Len(todo'[t]) : todo'[t][i] \notin Ddl \cup {"readApplied"}
        /\ t = Main => \A i \in 1..Len(todo'[t]) : todo'[t][i] \in Ddl \cup {"readApplied", "begin", "commit"}
    BY <2>6 DEF Discipline
  <2>8. /\ \A u \in Sessions : /\ todo'[u] # <<>> => arg'[u].job \in Jobs
                               /\ phase' # "serve" => todo'[u] = <<>>
        /\ phase' # "migrate" => todo'[Main] = <<>>
    BY <1>0, <2>1, <2>3, <2>4 DEF Discipline
  <2> HIDE DEF Idle
  <2> QED BY <1>0, <2>1, <2>2, <2>5, <2>6, <2>7, <2>8, OneThreadMoves
<1>3. ASSUME NEW t \in Threads, Exec(t) PROVE Discipline'
  <2>1. ~Idle(t) /\ conn = t /\ conn' = t /\ Advance(t) /\ phase' = phase /\ loaded' = loaded /\ arg' = arg
    BY <1>3 DEF Exec, InTx
  <2>2. todo'[t] # <<>> /\ Head(todo'[t]) \in TxStatements
    <3>1. Head(todo[t]) \in Edits \cup Deletes \cup Ddl
      BY <1>3, InTransaction DEF Exec, Threads
    <3>2. Follow(Head(todo[t])) \subseteq TxStatements
      BY <3>1, FollowFacts
    <3>3. "end" \notin TxStatements
      BY DEF TxStatements, Edits, Deletes, Ddl
    <3> QED BY <2>1, <3>2, <3>3, Advances
  <2>4. \A u \in Threads : todo'[u] # <<>> => todo[u] # <<>>
    BY <2>1, Advances
  <2>5. \A u \in Threads : u # t => todo'[u] = todo[u] /\ (conn' = u <=> conn = u)
    BY <2>1, Advances
  <2>6. WellFormed(todo'[t]) /\ \A i \in 1..Len(todo'[t]) : \E k \in 1..Len(todo[t]) : todo'[t][i] = todo[t][k]
    BY <2>1, Advances
  <2>7. /\ t \in Sessions => \A i \in 1..Len(todo'[t]) : todo'[t][i] \notin Ddl \cup {"readApplied"}
        /\ t = Main => \A i \in 1..Len(todo'[t]) : todo'[t][i] \in Ddl \cup {"readApplied", "begin", "commit"}
    BY <2>6 DEF Discipline
  <2>8. /\ \A u \in Sessions : /\ todo'[u] # <<>> => arg'[u].job \in Jobs
                               /\ phase' # "serve" => todo'[u] = <<>>
        /\ phase' # "migrate" => todo'[Main] = <<>>
    BY <1>0, <2>1, <2>4 DEF Discipline
  <2> HIDE DEF Idle
  <2> QED BY <1>0, <2>1, <2>2, <2>5, <2>6, <2>7, <2>8, OneThreadMoves
<1>4. ASSUME NEW t \in Threads, Commit(t) PROVE Discipline'
  <2>1. /\ ~Idle(t) /\ Head(todo[t]) = "commit" /\ conn = t /\ conn' = None /\ Advance(t) /\ phase' = phase
        /\ loaded' = loaded /\ arg' = arg
    BY <1>4 DEF Commit, InTx, At
  <2>2. todo'[t] = <<>>
    BY <2>1, Advances, FollowFacts
  <2>3. WellFormed(<<>>)
    BY DEF WellFormed
  <2>5. \A u \in Threads : u # t => todo'[u] = todo[u] /\ (conn' = u <=> conn = u)
    BY <1>0, <2>1, Advances
  <2>8. /\ \A u \in Sessions : /\ todo'[u] # <<>> => arg'[u].job \in Jobs
                               /\ phase' # "serve" => todo'[u] = <<>>
        /\ phase' # "migrate" => todo'[Main] = <<>>
    BY <1>0, <2>1, <2>2, <2>5 DEF Discipline
  <2> HIDE DEF Idle
  <2> QED BY <1>0, <2>1, <2>2, <2>3, <2>5, <2>8, OneThreadMoves
<1>5. ASSUME NEW t \in Threads, Rollback(t) PROVE Discipline'
  <2>1. /\ ~Idle(t) /\ conn = t /\ conn' = None /\ Abandon(t) /\ ErrorOf(t) /\ loaded' = loaded /\ arg' = arg
    BY <1>5 DEF Rollback, InTx
  <2>2. todo'[t] = <<>> /\ \A u \in Threads : u # t => todo'[u] = todo[u]
    BY <2>1 DEF Abandon, TypeOK
  <2>3. WellFormed(<<>>)
    BY DEF WellFormed
  <2>5. \A u \in Threads : u # t => todo'[u] = todo[u] /\ (conn' = u <=> conn = u)
    BY <1>0, <2>1, <2>2
  <2>8. /\ \A u \in Sessions : /\ todo'[u] # <<>> => arg'[u].job \in Jobs
                               /\ phase' # "serve" => todo'[u] = <<>>
        /\ phase' # "migrate" => todo'[Main] = <<>>
    BY <1>0, <2>1, <2>2, PhaseOfThread DEF ErrorOf
  <2> HIDE DEF Idle
  <2> QED BY <1>0, <2>1, <2>2, <2>3, <2>5, <2>8, OneThreadMoves
<1>6. ASSUME NEW t \in Threads, Query(t) \/ AutoCommit(t) PROVE Discipline'
  <2>1. ~Idle(t) /\ conn = None /\ conn' = None /\ (Advance(t) \/ Abandon(t)) /\ phase' = phase /\ arg' = arg
    BY <1>6 DEF Query, AutoCommit, Single, At
  <2>2. t \in Sessions /\ Head(todo[t]) \in Tables \cup RunStatements
    <3>1. CASE Query(t)
      <4>1. Head(todo[t]) \in Tables
        BY <3>1 DEF Query, At
      <4>2. t # Main
        BY <2>1, <4>1, TablesAre, AtStatement DEF Ddl
      <4> QED BY <4>1, <4>2 DEF Threads
    <3>2. CASE AutoCommit(t)
      BY <3>2, OutsideTransaction DEF AutoCommit
    <3> QED BY <1>6, <3>1, <3>2
  <2>3. loaded'[Main] = <<>>
    BY <1>0, <1>6, <2>2 DEF Query, AutoCommit, TypeOK
  <2>4. CASE Abandon(t)
    <3>1. todo'[t] = <<>> /\ \A u \in Threads : u # t => todo'[u] = todo[u]
      BY <2>4 DEF Abandon, TypeOK
    <3>2. WellFormed(<<>>)
      BY DEF WellFormed
    <3>3. /\ \A u \in Sessions : /\ todo'[u] # <<>> => arg'[u].job \in Jobs
                                 /\ phase' # "serve" => todo'[u] = <<>>
          /\ phase' # "migrate" => todo'[Main] = <<>>
      BY <1>0, <2>1, <3>1 DEF Discipline
    <3> HIDE DEF Idle
    <3> QED BY <1>0, <2>1, <2>3, <3>1, <3>2, <3>3, OneThreadMoves
  <2>5. CASE Advance(t)
    <3>1. todo'[t] # <<>> => Head(todo'[t]) \notin TxStatements
      BY <2>1, <2>2, <2>5, Advances, FollowFacts
    <3>2. \A u \in Threads : /\ u # t => todo'[u] = todo[u]
                             /\ todo'[u] # <<>> => todo[u] # <<>>
      BY <2>1, <2>5, Advances
    <3>3. WellFormed(todo'[t]) /\ \A i \in 1..Len(todo'[t]) : \E k \in 1..Len(todo[t]) : todo'[t][i] = todo[t][k]
      BY <2>1, <2>5, Advances
    <3>4. \A i \in 1..Len(todo'[t]) : todo'[t][i] \notin Ddl \cup {"readApplied"}
      BY <2>2, <3>3 DEF Discipline
    <3>5. /\ \A u \in Sessions : /\ todo'[u] # <<>> => arg'[u].job \in Jobs
                                 /\ phase' # "serve" => todo'[u] = <<>>
          /\ phase' # "migrate" => todo'[Main] = <<>>
      BY <1>0, <2>1, <3>2 DEF Discipline
    <3> HIDE DEF Idle
    <3> QED BY <1>0, <2>1, <2>2, <2>3, <3>1, <3>2, <3>3, <3>4, <3>5, OneThreadMoves
  <2> QED BY <2>1, <2>4, <2>5
<1>7. ASSUME NEW t \in Threads, StatementFails(t) PROVE Discipline'
  <2>1. ~Idle(t) /\ conn = None /\ conn' = None /\ loaded' = loaded /\ arg' = arg /\ ErrorOf(t)
    BY <1>7 DEF StatementFails
  <2>2. /\ todo'[t] \in {<<>>, <<"createSkipped">>, <<"release">>} /\ \A u \in Threads : u # t => todo'[u] = todo[u]
        /\ t = Main => todo'[t] = <<>>
    <3>1. t = Main => ~At(t, "acquire") /\ ~At(t, "createRun")
      BY <2>1, AtStatement DEF At, Ddl
    <3>2. PICK q \in {AfterRefusal(t), AfterFault(t)} : todo' = [todo EXCEPT ![t] = q]
      BY <1>7 DEF StatementFails
    <3>3. q \in {<<>>, <<"createSkipped">>, <<"release">>} /\ (t = Main => q = <<>>)
      BY <3>1 DEF AfterRefusal, AfterFault
    <3> QED BY <3>2, <3>3 DEF TypeOK
  <2>3. WellFormed(<<>>) /\ WellFormed(<<"createSkipped">>) /\ WellFormed(<<"release">>)
    BY DEF WellFormed, Follow
  <2>4. /\ todo'[t] # <<>> => Head(todo'[t]) \notin TxStatements
        /\ \A i \in 1..Len(todo'[t]) : todo'[t][i] \notin Ddl \cup {"readApplied"}
    BY <2>2 DEF TxStatements, Edits, Deletes, Ddl
  <2>5. /\ \A u \in Sessions : /\ todo'[u] # <<>> => arg'[u].job \in Jobs
                               /\ phase' # "serve" => todo'[u] = <<>>
        /\ phase' # "migrate" => todo'[Main] = <<>>
    <3>1. CASE t = Main
      BY <1>0, <2>1, <2>2, <3>1, PhaseOfThread DEF ErrorOf
    <3>2. CASE t \in Sessions
      BY <1>0, <2>1, <2>2, <3>2, PhaseOfThread DEF ErrorOf
    <3> QED BY <3>1, <3>2 DEF Threads
  <2> HIDE DEF Idle
  <2> QED BY <1>0, <2>1, <2>2, <2>3, <2>4, <2>5, OneThreadMoves
<1>8. ASSUME Start \/ MigrateNext PROVE Discipline'
  <2>1. /\ conn' = conn /\ loaded' = loaded /\ phase' = "migrate" /\ phase # "serve" /\ Idle(Main)
    BY <1>8 DEF Start, MigrateNext, Discipline
  <2>2. conn # Main
    BY <1>0, <2>1 DEF Discipline
  <2>3. todo'[Main] \in {<<"readApplied">>, applyMigration} /\ \A u \in Threads : u # Main => todo'[u] = todo[u]
    BY <1>0, <1>8 DEF Start, MigrateNext, TypeOK
  <2>4. /\ WellFormed(todo'[Main]) /\ todo'[Main] # <<>> /\ Head(todo'[Main]) \notin TxStatements
        /\ \A i \in 1..Len(todo'[Main]) : todo'[Main][i] \in Ddl \cup {"readApplied", "begin", "commit"}
    <3>1. WellFormed(<<"readApplied">>)
      BY DEF WellFormed, Follow
    <3>2. WellFormed(applyMigration)
      <4>1. /\ Follow("begin") = {"insertRow", "updateRow", "checkLock", "applySql"}
            /\ Follow("applySql") = {"record"} /\ Follow("record") = {"commit"} /\ Follow("commit") = {"end"}
        BY DEF Follow
      <4> QED BY <4>1 DEF WellFormed, applyMigration
    <3>3. CASE todo'[Main] = <<"readApplied">>
      BY <3>1, <3>3 DEF TxStatements, Edits, Deletes, Ddl
    <3>4. CASE todo'[Main] = applyMigration
      <4>1. todo'[Main] # <<>> /\ Head(todo'[Main]) \notin TxStatements
        BY <3>4 DEF applyMigration, TxStatements, Edits, Deletes, Ddl
      <4>2. \A i \in 1..Len(applyMigration) : applyMigration[i] \in Ddl \cup {"readApplied", "begin", "commit"}
        BY DEF applyMigration, Ddl
      <4> QED BY <3>2, <3>4, <4>1, <4>2
    <3> QED BY <2>3, <3>3, <3>4
  <2>5. \A u \in Sessions : todo'[u] = <<>>
    BY <1>0, <2>1, <2>3 DEF Discipline
  <2> HIDE DEF Idle
  <2> QED BY <1>0, <2>1, <2>2, <2>3, <2>4, <2>5, OneThreadMoves
<1>9. ASSUME appliedMigrationVersions PROVE Discipline'
  <2>1. ~Idle(Main) /\ Head(todo[Main]) = "readApplied" /\ conn = None /\ conn' = None /\ Advance(Main)
        /\ phase' = phase /\ loaded' = loaded /\ arg' = arg
    BY <1>9 DEF appliedMigrationVersions, At
  <2>2. todo'[Main] = <<>>
    <3>1. Follow("readApplied") = {"end"}
      BY DEF Follow
    <3> QED BY <1>0, <2>1, <3>1, Advances, FollowFacts
  <2>3. WellFormed(<<>>)
    BY DEF WellFormed
  <2>4. \A u \in Threads : u # Main => todo'[u] = todo[u]
    BY <1>0, <2>1, Advances
  <2>5. \A u \in Sessions : /\ todo'[u] # <<>> => arg'[u].job \in Jobs
                            /\ phase' # "serve" => todo'[u] = <<>>
    BY <1>0, <2>1, <2>4 DEF Discipline
  <2> HIDE DEF Idle
  <2> QED BY <1>0, <2>1, <2>2, <2>3, <2>4, <2>5, OneThreadMoves
<1>10. ASSUME Serve PROVE Discipline'
  BY <1>10 DEF Serve, Discipline
<1>11. ASSUME Crash PROVE Discipline'
  <2>1. /\ conn' = None /\ phase' = "down" /\ \A t \in Threads : todo'[t] = <<>> /\ loaded'[t] = <<>>
    BY <1>11 DEF Crash
  <2>2. WellFormed(<<>>)
    BY DEF WellFormed
  <2> QED BY <1>0, <2>1, <2>2 DEF Discipline
<1> QED BY <1>1, <1>2, <1>3, <1>4, <1>5, <1>6, <1>7, <1>8, <1>9, <1>10, <1>11 DEF Next, Step, Startup

-----------------------------------------------------------------------------
(* The steps, by what they do to the database *)

\* A request touches neither the database nor whoever has the connection.
LEMMA RequestFacts ==
    ASSUME TypeOK, Discipline, NEW t \in Threads, NEW q, NEW j \in Jobs, Request(t, q, j)
    PROVE  /\ t \in Sessions /\ Idle(t) /\ conn # t /\ phase = "serve"
           /\ db' = db /\ tx' = tx /\ conn' = conn /\ phase' = phase
           /\ missing' = missing /\ gone' = gone /\ serial' = serial
           /\ todo'[t] = q /\ arg'[t].job = j /\ loaded'[t] = <<>>
           /\ \A u \in Threads : u # t => todo'[u] = todo[u] /\ arg'[u] = arg[u] /\ loaded'[u] = loaded[u]
  <1>1. conn # t
    BY DEF Request, Discipline
  <1> QED BY <1>1 DEF Request, TypeOK

\* A statement of a transaction works on what the transaction sees.
LEMMA ExecFacts ==
    ASSUME TypeOK, Discipline, Migrating, NEW t \in Threads, Exec(t)
    PROVE  /\ ~Idle(t) /\ conn = t /\ conn' = t /\ db' = db /\ arg' = arg /\ phase' = phase
           /\ loaded' = loaded /\ missing' = missing /\ gone' = gone /\ serial' = serial
           /\ Accepted(Head(todo[t]), tx, arg[t]) /\ tx' = Effect(Head(todo[t]), tx, arg[t])
           /\ tx \in Database
           /\ t \in Sessions => Head(todo[t]) \in Edits \cup Deletes /\ arg[t] \in [job: Jobs, edit: Nat]
           /\ t = Main => /\ Head(todo[t]) \in Ddl /\ arg[t] \in [job: Jobs \cup {None}, edit: Nat]
                          /\ arg[t].edit \in Versions
           /\ todo'[t] # <<>> /\ Head(todo'[t]) \in Follow(Head(todo[t]))
           /\ \A u \in Threads : u # t => todo'[u] = todo[u] /\ u # conn
           /\ Advance(t)
  <1>1. /\ InTx(t) /\ ~At(t, "commit") /\ conn = t /\ ~Idle(t) /\ conn' = t /\ db' = db /\ arg' = arg /\ phase' = phase
        /\ loaded' = loaded /\ missing' = missing /\ gone' = gone /\ serial' = serial /\ Advance(t)
        /\ Accepted(Head(todo[t]), tx, arg[t]) /\ tx' = Effect(Head(todo[t]), tx, arg[t])
    BY DEF Exec, InTx
  <1>2. /\ t \in Sessions => Head(todo[t]) \in Edits \cup Deletes /\ arg[t] \in [job: Jobs, edit: Nat]
        /\ t = Main => /\ Head(todo[t]) \in Ddl /\ arg[t] \in [job: Jobs \cup {None}, edit: Nat]
                       /\ arg[t].edit \in Versions
    BY <1>1, InTransaction
  <1>3. Follow(Head(todo[t])) \subseteq TxStatements /\ "end" \notin TxStatements
    BY <1>2, FollowFacts DEF Threads, TxStatements, Edits, Deletes, Ddl
  <1>4. todo'[t] # <<>> /\ Head(todo'[t]) \in Follow(Head(todo[t])) /\ \A u \in Threads : u # t => todo'[u] = todo[u]
    BY <1>1, <1>3, Advances
  <1> QED BY <1>1, <1>2, <1>4 DEF TypeOK

\* A commit makes the transaction's view the database and ends the program.
LEMMA CommitFacts ==
    ASSUME TypeOK, Discipline, NEW t \in Threads, Commit(t)
    PROVE  /\ ~Idle(t) /\ At(t, "commit") /\ Head(todo[t]) = "commit" /\ conn = t /\ conn' = None
           /\ db' = tx /\ arg' = arg /\ phase' = phase /\ loaded' = loaded /\ serial' = serial
           /\ missing' = IF t = Main THEN missing \ {arg[t].edit} ELSE missing
           /\ gone' = gone \cup {j \in Jobs : Exists(db, j) /\ ~Exists(tx, j)}
           /\ todo'[t] = <<>> /\ \A u \in Threads : u # t => todo'[u] = todo[u] /\ u # conn
           /\ conn' \notin Threads
  <1>1. /\ ~Idle(t) /\ Head(todo[t]) = "commit" /\ Advance(t)
    BY DEF Commit, InTx, At
  <1>2. todo'[t] = <<>> /\ \A u \in Threads : u # t => todo'[u] = todo[u]
    BY <1>1, Advances, FollowFacts
  <1> QED BY <1>1, <1>2, StoreAssumption DEF Commit, InTx

\* A single statement of a session.
LEMMA AutoCommitFacts ==
    ASSUME TypeOK, Discipline, NEW t \in Threads, AutoCommit(t)
    PROVE  /\ ~Idle(t) /\ t \in Sessions /\ Head(todo[t]) \in RunStatements /\ arg[t] \in [job: Jobs, edit: Nat]
           /\ Accepted(Head(todo[t]), db, arg[t]) /\ db' = Effect(Head(todo[t]), db, arg[t])
           /\ conn = None /\ conn' = None /\ arg' = arg /\ phase' = phase
           /\ loaded' = loaded /\ missing' = missing /\ gone' = gone /\ serial' = serial
           /\ \A u \in Threads : u # t => todo'[u] = todo[u]
           /\ Advance(t) /\ db \in Database /\ conn' \notin Threads
  <1>1. conn = None /\ Single(t) /\ Advance(t) /\ ~Idle(t)
    BY DEF AutoCommit, Single
  <1>2. \A u \in Threads : u # t => todo'[u] = todo[u]
    BY <1>1, Advances
  <1>3. t \in Sessions /\ Head(todo[t]) \in RunStatements /\ arg[t] \in [job: Jobs, edit: Nat]
    BY <1>1, OutsideTransaction
  <1> QED BY <1>1, <1>2, <1>3, StoreAssumption DEF AutoCommit, TypeOK

\* A query of loadJobs, made by a session.
LEMMA QueryFacts ==
    ASSUME TypeOK, Discipline, NEW t \in Threads, Query(t)
    PROVE  /\ ~Idle(t) /\ t \in Sessions /\ Head(todo[t]) \in Tables /\ arg[t].job \in Jobs
           /\ loaded' = [loaded EXCEPT ![t] = Append(@, db.tab[Head(todo[t])][arg[t].job])]
           /\ Advance(t) \/ Abandon(t)
           /\ conn = None /\ UNCHANGED <<phase, db, conn, tx, arg, missing, gone, serial>>
  <1>1. ~Idle(t) /\ Head(todo[t]) \in Tables
    BY DEF Query, At, Idle
  <1>2. t # Main
    BY <1>1, TablesAre, AtStatement DEF Ddl
  <1>3. t \in Sessions /\ arg[t].job \in Jobs
    BY <1>1, <1>2, AtStatement DEF Threads
  <1> QED BY <1>1, <1>3 DEF Query

\* What the failure of a statement outside transactions leaves of a program.
LEMMA FailsTo ==
    ASSUME TypeOK, Discipline, NEW t \in Threads, StatementFails(t)
    PROVE  /\ todo'[t] \in {<<>>, <<"createSkipped">>, <<"release">>} /\ \A u \in Threads : u # t => todo'[u] = todo[u]
           /\ t = Main => todo'[t] = <<>>
  <1>1. t = Main => ~At(t, "acquire") /\ ~At(t, "createRun")
    BY AtStatement DEF At, Ddl, StatementFails, Idle
  <1>2. PICK q \in {AfterRefusal(t), AfterFault(t)} : todo' = [todo EXCEPT ![t] = q]
    BY DEF StatementFails
  <1>3. q \in {<<>>, <<"createSkipped">>, <<"release">>} /\ (t = Main => q = <<>>)
    BY <1>1 DEF AfterRefusal, AfterFault
  <1> QED BY <1>2, <1>3 DEF TypeOK

\* Nobody has the connection while nobody works.
LEMMA FreeConnection ==
    ASSUME TypeOK, Discipline, phase # "serve", Idle(Main)
    PROVE  conn = None /\ \A t \in Threads : Idle(t)
  BY DEF TypeOK, Discipline, Threads

\* The steps that leave the database alone and the connection free.
Quiet == db' = db /\ conn' = None /\ gone' = gone /\ serial' = serial

\* Which steps are quiet.
LEMMA QuietSteps ==
    ASSUME TypeOK, Discipline,
           (\E t \in Threads : Rollback(t) \/ Query(t) \/ StatementFails(t))
           \/ Start \/ appliedMigrationVersions \/ MigrateNext \/ Crash
    PROVE  Quiet
  <1>1. ASSUME NEW t \in Threads, Rollback(t) \/ Query(t) \/ StatementFails(t) PROVE Quiet
    BY <1>1 DEF Rollback, Query, StatementFails, Quiet
  <1>2. ASSUME Start \/ MigrateNext PROVE Quiet
    BY <1>2, FreeConnection DEF Start, MigrateNext, Quiet, Discipline
  <1>3. ASSUME appliedMigrationVersions \/ Crash PROVE Quiet
    BY <1>3 DEF appliedMigrationVersions, Crash, Quiet
  <1> QED BY <1>1, <1>2, <1>3

\* Every step is one of these.
LEMMA StepKinds ==
    ASSUME TypeOK, Discipline, Next
    PROVE  \/ \E t \in Threads : Requests(t) \/ Begin(t) \/ Exec(t) \/ Commit(t) \/ AutoCommit(t)
           \/ Serve
           \/ Quiet
  BY QuietSteps DEF Next, Step, Startup

-----------------------------------------------------------------------------
(* Aggregates *)

\* What holds of a transaction whose next statement is s.
Progress(d, a, s) ==
    /\ \A j \in Jobs : j # a.job \/ Written(s) = {} => Whole(d, j)
    /\ Written(s) # {} =>
         /\ \A p \in Written(s) : d.tab[p][a.job] = {a.edit}
         /\ \A p \in Emptied(s) : d.tab[p][a.job] = {}

\* An edit makes progress: in the end all five tables have it.
LEMMA EditProgress ==
    ASSUME NEW d \in Database, NEW a \in [job: Jobs, edit: Nat], NEW s \in Edits, NEW n \in Follow(s),
           Accepted(s, d, a), Progress(d, a, s), NEW r, r = Effect(s, d, a)
    PROVE  Progress(r, a, n)
  <1>1. \A j \in Jobs : j # a.job => Whole(r, j)
    <2>1. \A j \in Jobs : j # a.job => \A p \in Tables : r.tab[p][j] = d.tab[p][j]
      BY EditEffect
    <2>2. \A j \in Jobs : j # a.job => Whole(d, j)
      BY DEF Progress
    <2>3. "row" \in Tables
      BY TablesAre
    <2> QED BY <2>1, <2>2, <2>3 DEF Whole
  <1>2. \A p \in Tables : p # Target(s) => r.tab[p][a.job] = d.tab[p][a.job]
    BY EditEffect
  <1>20. /\ s \in {"clearSources", "clearScripts"} => r.tab[Target(s)][a.job] = {}
         /\ s \in {"insertSources", "insertScripts"} => r.tab[Target(s)][a.job] = d.tab[Target(s)][a.job] \cup {a.edit}
         /\ s \in {"insertRow", "updateRow", "upsertSchedule", "upsertRetention"} => r.tab[Target(s)][a.job] = {a.edit}
    BY EditEffect
  <1> DEFINE R(p) == r.tab[p][a.job]
             D(p) == d.tab[p][a.job]
             W == {a.edit}
  <1>3. SUFFICES /\ Written(n) = {} => Whole(r, a.job)
                 /\ \A p \in Written(n) : R(p) = W
                 /\ \A p \in Emptied(n) : R(p) = {}
    BY <1>1, <1>3 DEF Progress
  <1>4. CASE s = "insertRow"
    <2>1. Whole(d, a.job) /\ D("row") = {}
      BY <1>4 DEF Progress, Accepted, Exists, Written
    <2>2. n = "insertSources" /\ Target(s) = "row"
      BY <1>4 DEF Follow, Target
    <2>3. R("row") = W
      BY <1>4, <2>2, <1>20
    <2>4. R("sources") = {} /\ R("scripts") = {}
      BY <1>2, <2>1, <2>2, TablesAre DEF Whole
    <2> QED BY <2>2, <2>3, <2>4 DEF Written, Emptied
  <1>5. CASE s = "updateRow"
    <2>2. n = "clearSources" /\ Target(s) = "row"
      BY <1>5 DEF Follow, Target
    <2>3. R("row") = W
      BY <1>5, <2>2, <1>20
    <2> QED BY <2>2, <2>3 DEF Written, Emptied
  <1>6. CASE s = "clearSources"
    <2>1. D("row") = W
      BY <1>6 DEF Progress, Written
    <2>2. n = "clearScripts" /\ Target(s) = "sources"
      BY <1>6 DEF Follow, Target
    <2>3. R("sources") = {} /\ R("row") = W
      BY <1>2, <1>6, <2>1, <2>2, <1>20, TablesAre
    <2> QED BY <2>2, <2>3 DEF Written, Emptied
  <1>7. CASE s = "clearScripts"
    <2>1. D("row") = W /\ D("sources") = {}
      BY <1>7 DEF Progress, Written, Emptied
    <2>2. n = "insertSources" /\ Target(s) = "scripts"
      BY <1>7 DEF Follow, Target
    <2>3. R("scripts") = {} /\ R("row") = W /\ R("sources") = {}
      BY <1>2, <1>7, <2>1, <2>2, <1>20, TablesAre
    <2> QED BY <2>2, <2>3 DEF Written, Emptied
  <1>8. CASE s = "insertSources"
    <2>1. D("row") = W /\ D("sources") = {} /\ D("scripts") = {}
      BY <1>8 DEF Progress, Written, Emptied
    <2>2. n = "insertScripts" /\ Target(s) = "sources"
      BY <1>8 DEF Follow, Target
    <2>3. R("sources") = D("sources") \cup W
      BY <1>8, <2>2, <1>20
    <2>4. R("row") = W /\ R("scripts") = {} /\ R("sources") = W
      BY <1>2, <2>1, <2>2, <2>3, TablesAre
    <2> QED BY <2>2, <2>4 DEF Written, Emptied
  <1>9. CASE s = "insertScripts"
    <2>1. D("row") = W /\ D("sources") = W /\ D("scripts") = {}
      BY <1>9 DEF Progress, Written, Emptied
    <2>2. n = "upsertSchedule" /\ Target(s) = "scripts"
      BY <1>9 DEF Follow, Target
    <2>3. R("scripts") = D("scripts") \cup W
      BY <1>9, <2>2, <1>20
    <2>4. R("row") = W /\ R("scripts") = W /\ R("sources") = W
      BY <1>2, <2>1, <2>2, <2>3, TablesAre
    <2> QED BY <2>2, <2>4 DEF Written, Emptied
  <1>10. CASE s = "upsertSchedule"
    <2>1. D("row") = W /\ D("sources") = W /\ D("scripts") = W
      BY <1>10 DEF Progress, Written, Emptied
    <2>2. n = "upsertRetention" /\ Target(s) = "schedule"
      BY <1>10 DEF Follow, Target
    <2>3. R("schedule") = W
      BY <1>10, <2>2, <1>20
    <2>4. R("row") = W /\ R("scripts") = W /\ R("sources") = W
      BY <1>2, <2>1, <2>2, TablesAre
    <2> QED BY <2>2, <2>3, <2>4 DEF Written, Emptied
  <1>11. CASE s = "upsertRetention"
    <2>1. D("row") = W /\ D("sources") = W /\ D("scripts") = W /\ D("schedule") = W
      BY <1>11 DEF Progress, Written, Emptied
    <2>2. n \in {"upsertSchedule", "commit"} /\ Target(s) = "retention"
      BY <1>11 DEF Follow, Target
    <2>3. R("retention") = W
      BY <1>11, <2>2, <1>20
    <2>4. R("row") = W /\ R("scripts") = W /\ R("sources") = W /\ R("schedule") = W
      BY <1>2, <2>1, <2>2, TablesAre
    <2>5. Whole(r, a.job)
      BY <2>3, <2>4, TablesAre DEF Whole
    <2> QED BY <2>2, <2>4, <2>5 DEF Written, Emptied
  <1> QED BY <1>4, <1>5, <1>6, <1>7, <1>8, <1>9, <1>10, <1>11 DEF Edits

\* A deletion takes all five tables of its job.
LEMMA DeleteProgress ==
    ASSUME NEW d \in Database, NEW a \in [job: Jobs, edit: Nat], NEW s \in Deletes, NEW n \in Follow(s),
           Progress(d, a, s), NEW r, r = Effect(s, d, a)
    PROVE  Progress(r, a, n)
  <1>1. Written(s) = {} /\ Written(n) = {}
    BY DEF Written, Deletes, Follow
  <1>2. \A j \in Jobs : Whole(d, j)
    BY <1>1 DEF Progress
  <1>3. \A j \in Jobs : \/ \A p \in Tables : r.tab[p][j] = d.tab[p][j]
                        \/ \A p \in Tables : r.tab[p][j] = {}
    <2>1. CASE s = "deleteRow"
      BY <2>1, DeleteEffect
    <2>2. CASE s # "deleteRow"
      BY <2>2, DeleteEffect DEF Deletes
    <2> QED BY <2>1, <2>2
  <1>4. ASSUME NEW j \in Jobs PROVE Whole(r, j)
    <2>1. "row" \in Tables
      BY TablesAre
    <2>2. CASE \A p \in Tables : r.tab[p][j] = d.tab[p][j]
      BY <1>2, <2>1, <2>2 DEF Whole
    <2>3. CASE \A p \in Tables : r.tab[p][j] = {}
      BY <2>1, <2>3 DEF Whole
    <2> QED BY <1>3, <2>2, <2>3
  <1> QED BY <1>1, <1>4 DEF Progress

\* Every step keeps what is committed whole.
LEMMA StepAggregates ==
    ASSUME TypeOK, Discipline, Aggregates, Migrating, Next
    PROVE  Aggregates'
<1> DEFINE P(t) == conn = t => Progress(tx, arg[t], Head(todo[t]))
<1>0. /\ Aggregates <=> (\A j \in Jobs : Whole(db, j)) /\ \A t \in Threads : P(t)
      /\ Aggregates' <=> (\A j \in Jobs : Whole(db', j))
                         /\ \A t \in Threads : conn' = t => Progress(tx', arg'[t], Head(todo'[t]))
  BY DEF Aggregates, Progress
<1>1. (\A j \in Jobs : Whole(db, j)) /\ \A t \in Threads : conn = t => Progress(tx, arg[t], Head(todo[t]))
  BY <1>0
<1>2. ASSUME NEW t \in Threads, Requests(t) PROVE Aggregates'
  <2>0. PICK q : \E j \in Jobs : Request(t, q, j)
    BY <1>2, RequestedProgram
  <2>1. PICK j \in Jobs : Request(t, q, j)
    BY <2>0
  <2> QED BY <1>0, <1>1, <2>1, RequestFacts
<1>3. ASSUME NEW t \in Threads, Begin(t) PROVE Aggregates'
  <2>1. db' = db /\ tx' = db /\ conn' = t
    BY <1>3, BeginFacts
  <2>2. Written(Head(todo'[t])) = {}
    BY <1>3, BeginFacts DEF Written, Threads
  <2>3. Progress(tx', arg'[t], Head(todo'[t]))
    BY <1>1, <2>1, <2>2 DEF Progress
  <2> QED BY <1>0, <1>1, <2>1, <2>3
<1>4. ASSUME NEW t \in Threads, Exec(t) PROVE Aggregates'
  <2> DEFINE s == Head(todo[t])
             n == Head(todo'[t])
  <2>1. /\ conn = t /\ conn' = t /\ db' = db /\ arg' = arg /\ tx \in Database /\ n \in Follow(s)
        /\ Accepted(s, tx, arg[t]) /\ tx' = Effect(s, tx, arg[t])
        /\ t \in Sessions => s \in Edits \cup Deletes /\ arg[t] \in [job: Jobs, edit: Nat]
        /\ t = Main => /\ s \in Ddl /\ arg[t] \in [job: Jobs \cup {None}, edit: Nat] /\ arg[t].edit \in Versions
    BY <1>4, ExecFacts
  <2>2. Progress(tx, arg[t], s)
    BY <1>1, <2>1
  <2> HIDE DEF s, n
  <2>3. CASE t \in Sessions /\ s \in Edits
    <3>1. Progress(tx', arg[t], n)
      BY <2>1, <2>2, <2>3, EditProgress
    <3> QED BY <1>0, <1>1, <2>1, <3>1 DEF n
  <2>4. CASE t \in Sessions /\ s \in Deletes
    <3>1. Progress(tx', arg[t], n)
      BY <2>1, <2>2, <2>4, DeleteProgress
    <3> QED BY <1>0, <1>1, <2>1, <3>1 DEF n
  <2>5. CASE t = Main
    <3>0. s \in Ddl /\ arg[t] \in [job: Jobs \cup {None}, edit: Nat] /\ arg[t].edit \in Versions
      BY <2>1, <2>5
    <3>1. tx'.tab = tx.tab
      BY <2>1, <3>0, DdlEffect
    <3>2. Written(s) = {} /\ Written(n) = {}
      BY <2>1, <2>5 DEF Written, Ddl, Follow
    <3>3. \A j \in Jobs : Whole(tx', j)
      BY <2>2, <3>1, <3>2 DEF Progress, Whole
    <3>4. Progress(tx', arg[t], n)
      BY <3>2, <3>3 DEF Progress
    <3> QED BY <1>0, <1>1, <2>1, <3>4 DEF n
  <2> QED BY <2>1, <2>3, <2>4, <2>5 DEF Threads
<1>5. ASSUME NEW t \in Threads, Commit(t) PROVE Aggregates'
  <2>1. conn = t /\ db' = tx /\ conn' \notin Threads /\ Head(todo[t]) = "commit"
    BY <1>5, CommitFacts
  <2>2. Written("commit") = {}
    BY DEF Written
  <2>3. \A j \in Jobs : Whole(tx, j)
    BY <1>1, <2>1, <2>2 DEF Progress
  <2> QED BY <1>0, <2>1, <2>3
<1>6. ASSUME NEW t \in Threads, AutoCommit(t) PROVE Aggregates'
  <2>0. /\ conn' \notin Threads /\ db \in Database /\ Head(todo[t]) \in RunStatements
        /\ arg[t] \in [job: Jobs, edit: Nat] /\ db' = Effect(Head(todo[t]), db, arg[t])
    BY <1>6, AutoCommitFacts
  <2>1. conn' \notin Threads /\ db'.tab = db.tab
    BY <2>0, SingleEffect
  <2>2. \A j \in Jobs : Whole(db', j)
    BY <1>1, <2>1 DEF Whole
  <2> QED BY <1>0, <2>1, <2>2
<1>7. ASSUME Serve PROVE Aggregates'
  <2>1. conn' \notin Threads /\ db'.tab = db.tab
    BY <1>7, StoreAssumption DEF Serve, TypeOK, Database
  <2>2. \A j \in Jobs : Whole(db', j)
    BY <1>1, <2>1 DEF Whole
  <2> QED BY <1>0, <2>1, <2>2
<1>8. ASSUME Quiet PROVE Aggregates'
  BY <1>0, <1>1, <1>8, StoreAssumption DEF Quiet
<1> QED BY <1>2, <1>3, <1>4, <1>5, <1>6, <1>7, <1>8, StepKinds

-----------------------------------------------------------------------------
(* Numbers of edits *)

\* A row that is written inside a transaction has the number of its edit.
LEMMA ExecRows ==
    ASSUME TypeOK, Discipline, Migrating, NEW t \in Threads, Exec(t)
    PROVE  \A p \in Tables, j \in Jobs :
              \/ tx'.tab[p][j] \subseteq tx.tab[p][j]
              \/ Head(todo[t]) \in Edits /\ t \in Sessions /\ tx'.tab[p][j] \subseteq tx.tab[p][j] \cup {arg[t].edit}
  <1> DEFINE s == Head(todo[t])
  <1>1. /\ tx \in Database /\ tx' = Effect(s, tx, arg[t])
        /\ t \in Sessions => s \in Edits \cup Deletes /\ arg[t] \in [job: Jobs, edit: Nat]
        /\ t = Main => /\ s \in Ddl /\ arg[t] \in [job: Jobs \cup {None}, edit: Nat] /\ arg[t].edit \in Versions
    BY ExecFacts
  <1> HIDE DEF s
  <1>2. CASE t \in Sessions /\ s \in Edits
    <2>1. arg[t] \in [job: Jobs, edit: Nat] /\ s \in Edits
      BY <1>1, <1>2
    <2>2. \A p \in Tables, j \in Jobs : ~(p = Target(s) /\ j = arg[t].job) => tx'.tab[p][j] = tx.tab[p][j]
      BY <1>1, <2>1, EditEffect
    <2>3. tx'.tab[Target(s)][arg[t].job] \subseteq tx.tab[Target(s)][arg[t].job] \cup {arg[t].edit}
      <3>1. CASE s \in {"clearSources", "clearScripts"}
        BY <1>1, <2>1, <3>1, EditEffect
      <3>2. CASE s \in {"insertSources", "insertScripts"}
        BY <1>1, <2>1, <3>2, EditEffect
      <3>3. CASE s \in {"insertRow", "updateRow", "upsertSchedule", "upsertRetention"}
        BY <1>1, <2>1, <3>3, EditEffect
      <3> QED BY <2>1, <3>1, <3>2, <3>3 DEF Edits
    <2> QED BY <1>2, <2>2, <2>3 DEF s
  <1>3. CASE t \in Sessions /\ s \in Deletes
    <2>1. arg[t] \in [job: Jobs, edit: Nat] /\ s \in Deletes
      BY <1>1, <1>3
    <2>2. \A p \in Tables, j \in Jobs : tx'.tab[p][j] = tx.tab[p][j] \/ tx'.tab[p][j] = {}
      BY <1>1, <2>1, DeleteEffect DEF Deletes
    <2> QED BY <2>2
  <1>4. CASE t = Main
    <2>1. arg[t] \in [job: Jobs \cup {None}, edit: Nat] /\ s \in Ddl /\ arg[t].edit \in Versions
      BY <1>1, <1>4
    <2>2. tx'.tab = tx.tab
      BY <1>1, <2>1, DdlEffect
    <2> QED BY <2>2
  <1> QED BY <1>1, <1>2, <1>3, <1>4 DEF Threads

\* What steps do to the loads: a load starts anew, goes on as it is, or takes
\* what is committed.
Extends(t) ==
    \/ loaded'[t] = <<>>
    \/ loaded'[t] = loaded[t] /\ arg'[t].job = arg[t].job
    \/ /\ arg'[t] = arg[t] /\ arg[t].job \in Jobs /\ db' = db /\ serial' = serial
       /\ \E p \in Tables : loaded'[t] = Append(loaded[t], db.tab[p][arg[t].job])

\* Every step does one of these to every load.
LEMMA LoadSteps ==
    ASSUME TypeOK, Discipline, Migrating, Next, NEW u \in Sessions
    PROVE  Extends(u)
  <1>0. u \in Threads /\ u # Main
    BY StoreAssumption DEF Threads
  <1>1. ASSUME NEW t \in Threads, Requests(t) PROVE Extends(u)
    <2>0. PICK q : \E j \in Jobs : Request(t, q, j)
      BY <1>1, RequestedProgram
    <2>1. PICK j \in Jobs : Request(t, q, j)
      BY <2>0
    <2> QED BY <1>0, <2>1, RequestFacts DEF Extends
  <1>2. ASSUME NEW t \in Threads, Begin(t) PROVE Extends(u)
    BY <1>0, <1>2, BeginFacts DEF Extends
  <1>3. ASSUME NEW t \in Threads, Exec(t) \/ Commit(t) \/ Rollback(t) \/ AutoCommit(t) \/ StatementFails(t) PROVE Extends(u)
    BY <1>3 DEF Exec, Commit, Rollback, AutoCommit, StatementFails, Extends
  <1>4. ASSUME NEW t \in Threads, Query(t) PROVE Extends(u)
    <2>1. /\ Head(todo[t]) \in Tables /\ arg' = arg /\ db' = db /\ serial' = serial /\ arg[t].job \in Jobs
          /\ loaded' = [loaded EXCEPT ![t] = Append(@, db.tab[Head(todo[t])][arg[t].job])]
      BY <1>4, QueryFacts
    <2>2. CASE u = t
      BY <1>0, <2>1, <2>2 DEF Extends, TypeOK
    <2>3. CASE u # t
      BY <1>0, <2>1, <2>3 DEF Extends, TypeOK
    <2> QED BY <2>2, <2>3
  <1>5. ASSUME Start \/ appliedMigrationVersions \/ Serve PROVE Extends(u)
    BY <1>5 DEF Start, appliedMigrationVersions, Serve, Extends
  <1>6. ASSUME MigrateNext PROVE Extends(u)
    BY <1>0, <1>6 DEF MigrateNext, Extends, TypeOK
  <1>7. ASSUME Crash PROVE Extends(u)
    BY <1>0, <1>7 DEF Crash, Extends
  <1> QED BY <1>1, <1>2, <1>3, <1>4, <1>5, <1>6, <1>7 DEF Next, Step, Startup

\* Rows and serial numbers, without the loads.
RowsNumbered ==
    /\ \A j \in Jobs, p \in Tables :
         /\ \A e \in db.tab[p][j] : e <= serial
         /\ conn # None => tx.tab[p][j] \subseteq db.tab[p][j] \cup {serial}
    /\ \A t \in Sessions : conn = t /\ Head(todo[t]) \in Edits => arg[t].edit = serial

\* A step keeps the numbers of the rows in order, the serial number does not
\* decrease, and a row that appears has the number of the last edit.
LEMMA StepRows ==
    ASSUME TypeOK, Discipline, Numbered, Migrating, Next
    PROVE  /\ RowsNumbered' /\ serial <= serial'
           /\ \A j \in Jobs, p \in Tables : db'.tab[p][j] \subseteq db.tab[p][j] \cup {serial}
<1> DEFINE Rows(d) == \A j \in Jobs, p \in Tables : \A e \in d.tab[p][j] : e <= serial
           Goal == /\ RowsNumbered' /\ serial <= serial'
                   /\ \A j \in Jobs, p \in Tables : db'.tab[p][j] \subseteq db.tab[p][j] \cup {serial}
<1>1. /\ Rows(db) /\ None \notin Threads /\ serial \in Nat
      /\ conn # None => \A j \in Jobs, p \in Tables : tx.tab[p][j] \subseteq db.tab[p][j] \cup {serial}
      /\ \A t \in Sessions : conn = t /\ Head(todo[t]) \in Edits => arg[t].edit = serial
      /\ \A t \in Sessions : t \in Threads
      /\ \A j \in Jobs, p \in Tables : db.tab[p][j] \in SUBSET Nat
  BY StoreAssumption DEF Numbered, TypeOK, Threads, Database
<1>2. ASSUME NEW t \in Threads, Requests(t) PROVE Goal
  <2>0. PICK q : \E j \in Jobs : Request(t, q, j)
    BY <1>2, RequestedProgram
  <2>1. PICK j \in Jobs : Request(t, q, j)
    BY <2>0
  <2>2. /\ conn # t /\ db' = db /\ tx' = tx /\ conn' = conn /\ serial' = serial
        /\ \A u \in Threads : u # t => todo'[u] = todo[u] /\ arg'[u] = arg[u]
    BY <2>1, RequestFacts
  <2>3. \A u \in Sessions : conn' = u /\ Head(todo'[u]) \in Edits => arg'[u].edit = serial'
    BY <1>1, <2>2
  <2> QED BY <1>1, <2>2, <2>3 DEF RowsNumbered
<1>3. ASSUME NEW t \in Threads, Begin(t) PROVE Goal
  <2>1. db' = db /\ tx' = db /\ conn' = t /\ serial <= serial'
    BY <1>1, <1>3, BeginFacts
  <2>2. \A u \in Sessions : conn' = u /\ Head(todo'[u]) \in Edits => arg'[u].edit = serial'
    BY <1>1, <1>3, BeginFacts DEF Edits
  <2>3. \A j \in Jobs, p \in Tables : \A e \in db.tab[p][j] : e <= serial'
    <3>1. serial' \in Nat
      BY <1>1, <1>3, BeginFacts
    <3> QED BY <1>1, <2>1, <3>1
  <2> QED BY <1>1, <2>1, <2>2, <2>3 DEF RowsNumbered
<1>4. ASSUME NEW t \in Threads, Exec(t) PROVE Goal
  <2>1. conn = t /\ conn' = t /\ db' = db /\ serial' = serial /\ arg' = arg /\ Head(todo'[t]) \in Follow(Head(todo[t]))
    BY <1>4, ExecFacts
  <2>2. \A j \in Jobs, p \in Tables : tx.tab[p][j] \subseteq db.tab[p][j] \cup {serial}
    BY <1>1, <2>1
  <2>3. \A p \in Tables, j \in Jobs :
              \/ tx'.tab[p][j] \subseteq tx.tab[p][j]
              \/ Head(todo[t]) \in Edits /\ t \in Sessions /\ tx'.tab[p][j] \subseteq tx.tab[p][j] \cup {arg[t].edit}
    BY <1>4, ExecRows
  <2>4. ASSUME NEW j \in Jobs, NEW p \in Tables PROVE tx'.tab[p][j] \subseteq db.tab[p][j] \cup {serial}
    BY <1>1, <2>1, <2>2, <2>3
  <2>5. \A u \in Sessions : conn' = u /\ Head(todo'[u]) \in Edits => arg'[u].edit = serial'
    <3>1. t \in Sessions => Head(todo[t]) \in Edits \cup Deletes
      BY <1>4, ExecFacts
    <3>2. \A s \in Deletes : Follow(s) \cap Edits = {}
      BY DEF Follow, Deletes, Edits
    <3> QED BY <1>1, <2>1, <3>1, <3>2
  <2> QED BY <1>1, <2>1, <2>4, <2>5 DEF RowsNumbered
<1>5. ASSUME NEW t \in Threads, Commit(t) PROVE Goal
  <2>1. db' = tx /\ conn = t /\ conn' = None /\ serial' = serial
    BY <1>5, CommitFacts DEF Commit
  <2>2. \A j \in Jobs, p \in Tables : tx.tab[p][j] \subseteq db.tab[p][j] \cup {serial}
    BY <1>1, <2>1
  <2>3. \A j \in Jobs, p \in Tables : \A e \in tx.tab[p][j] : e <= serial
    BY <1>1, <2>2
  <2> QED BY <1>1, <2>1, <2>2, <2>3 DEF RowsNumbered
<1>6. ASSUME db'.tab = db.tab, conn' = None, serial' = serial PROVE Goal
  BY <1>1, <1>6 DEF RowsNumbered
<1>7. ASSUME NEW t \in Threads, AutoCommit(t) PROVE Goal
  <2>0. /\ conn' = None /\ db \in Database /\ Head(todo[t]) \in RunStatements /\ serial' = serial
        /\ arg[t] \in [job: Jobs, edit: Nat] /\ db' = Effect(Head(todo[t]), db, arg[t])
    BY <1>7, AutoCommitFacts
  <2>1. db'.tab = db.tab
    BY <2>0, SingleEffect
  <2> QED BY <1>6, <2>0, <2>1
<1>8. ASSUME Serve PROVE Goal
  <2>1. db'.tab = db.tab /\ conn' = None /\ serial' = serial
    BY <1>8 DEF Serve, TypeOK, Database
  <2> QED BY <1>6, <2>1
<1>9. ASSUME Quiet PROVE Goal
  BY <1>6, <1>9 DEF Quiet
<1> QED BY <1>2, <1>3, <1>4, <1>5, <1>7, <1>8, <1>9, StepKinds

\* A load in the order of its queries.
Ordered(l) == \A i, k \in DOMAIN l : i < k => \A e \in l[i], f \in l[k] : e <= f

\* A load stays in order when what is appended is not older than what is there.
LEMMA AppendOrdered ==
    ASSUME NEW l \in Seq(SUBSET Nat), NEW x \in SUBSET Nat, Ordered(l),
           \A i \in DOMAIN l : \A e \in l[i], f \in x : e <= f
    PROVE  /\ Ordered(Append(l, x))
           /\ \A i \in DOMAIN Append(l, x) : (i \in DOMAIN l /\ Append(l, x)[i] = l[i]) \/ Append(l, x)[i] = x
  <1> DEFINE a == Append(l, x)
             n == Len(l)
  <1>1. n \in Nat /\ DOMAIN l = 1..n /\ DOMAIN a = 1..(n + 1)
        /\ a[n + 1] = x /\ \A i \in 1..n : a[i] = l[i]
    BY AppendProperties, LenProperties
  <1> HIDE DEF a, n
  <1>2. \A i \in DOMAIN a : (i \in DOMAIN l /\ a[i] = l[i]) \/ (i = n + 1 /\ a[i] = x)
    BY <1>1
  <1>3. ASSUME NEW i \in DOMAIN a, NEW k \in DOMAIN a, i < k, NEW e \in a[i], NEW f \in a[k] PROVE e <= f
    <2>1. i \in DOMAIN l /\ a[i] = l[i]
      BY <1>1, <1>2, <1>3
    <2>2. CASE k = n + 1
      BY <1>1, <2>1, <2>2
    <2>3. CASE k \in DOMAIN l /\ a[k] = l[k]
      BY <1>3, <2>1, <2>3 DEF Ordered
    <2> QED BY <1>2, <2>2, <2>3
  <1>4. Ordered(a)
    BY <1>3 DEF Ordered
  <1> QED BY <1>2, <1>4 DEF a

\* The part of Numbered about the loads, with the order of each load.
LoadsNumbered ==
    \A t \in Sessions :
      /\ \A i \in DOMAIN loaded[t] : \A e \in loaded[t][i] :
           /\ e <= serial
           /\ arg[t].job \in Jobs => \A p \in Tables : \A f \in db.tab[p][arg[t].job] : e <= f
      /\ Ordered(loaded[t])

\* Every step keeps the loads in order.
LEMMA StepLoads ==
    ASSUME TypeOK, Discipline, Aggregates, Numbered, Migrating, LoadsForward, Next
    PROVE  LoadsNumbered'
<1> SUFFICES ASSUME NEW t \in Sessions
             PROVE  /\ \A i \in DOMAIN loaded'[t] : \A e \in loaded'[t][i] :
                         /\ e <= serial'
                         /\ arg'[t].job \in Jobs => \A p \in Tables : \A f \in db'.tab[p][arg'[t].job] : e <= f
                    /\ Ordered(loaded'[t])
  BY DEF LoadsNumbered, Ordered
<1>1. /\ t \in Threads /\ serial \in Nat /\ serial' \in Nat /\ loaded[t] \in Seq(SUBSET Nat)
      /\ \A i \in DOMAIN loaded[t] : \A e \in loaded[t][i] :
           /\ e <= serial
           /\ arg[t].job \in Jobs => \A p \in Tables : \A f \in db.tab[p][arg[t].job] : e <= f
      /\ Ordered(loaded[t])
  <2>1. TypeOK'
    BY StepTyped
  <2> QED BY <2>1 DEF TypeOK, Numbered, LoadsForward, Ordered, Threads
<1>2. serial <= serial' /\ \A j \in Jobs, p \in Tables : db'.tab[p][j] \subseteq db.tab[p][j] \cup {serial}
  BY StepRows
<1>3. \A i \in DOMAIN loaded[t] : loaded[t][i] \subseteq Nat
  BY <1>1
<1>4. CASE loaded'[t] = <<>>
  BY <1>4 DEF Ordered
<1>5. CASE loaded'[t] = loaded[t] /\ arg'[t].job = arg[t].job
  <2>1. ASSUME NEW i \in DOMAIN loaded[t], NEW e \in loaded[t][i]
        PROVE  e <= serial' /\ (arg[t].job \in Jobs => \A p \in Tables : \A f \in db'.tab[p][arg[t].job] : e <= f)
    <3>1. e <= serial' /\ e <= serial
      BY <1>1, <1>2, <1>3
    <3>2. CASE arg[t].job \in Jobs
      BY <1>1, <1>2, <3>1, <3>2
    <3> QED BY <3>1, <3>2
  <2> QED BY <1>1, <1>5, <2>1
<1>6. CASE /\ arg'[t] = arg[t] /\ arg[t].job \in Jobs /\ db' = db /\ serial' = serial
           /\ \E p \in Tables : loaded'[t] = Append(loaded[t], db.tab[p][arg[t].job])
  <2>1. PICK p \in Tables : loaded'[t] = Append(loaded[t], db.tab[p][arg[t].job])
    BY <1>6
  <2> DEFINE x == db.tab[p][arg[t].job]
  <2>2. x \in SUBSET Nat
    BY <1>6 DEF TypeOK, Database
  <2>3. \A i \in DOMAIN loaded[t] : \A e \in loaded[t][i], f \in x : e <= f
    BY <1>1, <1>6
  <2>4. \A e \in x : e <= serial /\ \A q \in Tables : \A f \in db.tab[q][arg[t].job] : e = f
    <3>1. \A e \in x : e <= serial
      BY <1>6 DEF Numbered
    <3>2. Whole(db, arg[t].job)
      BY <1>6 DEF Aggregates
    <3> QED BY <3>1, <3>2 DEF Whole
  <2>5. \A e \in x : e <= e
    BY <2>2
  <2> HIDE DEF x
  <2>6. /\ Ordered(Append(loaded[t], x))
        /\ \A i \in DOMAIN Append(loaded[t], x) :
             (i \in DOMAIN loaded[t] /\ Append(loaded[t], x)[i] = loaded[t][i]) \/ Append(loaded[t], x)[i] = x
    BY <1>1, <2>2, <2>3, AppendOrdered
  <2>7. loaded'[t] = Append(loaded[t], x)
    BY <2>1 DEF x
  <2>8. ASSUME NEW i \in DOMAIN loaded'[t], NEW e \in loaded'[t][i]
        PROVE  e <= serial /\ \A q \in Tables : \A f \in db.tab[q][arg[t].job] : e <= f
    <3>1. CASE i \in DOMAIN loaded[t] /\ loaded'[t][i] = loaded[t][i]
      BY <1>1, <1>6, <2>8, <3>1
    <3>2. CASE loaded'[t][i] = x
      BY <2>4, <2>5, <2>8, <3>2
    <3> QED BY <2>6, <2>7, <3>1, <3>2
  <2> QED BY <1>6, <2>6, <2>7, <2>8
<1> QED BY <1>4, <1>5, <1>6, LoadSteps DEF Extends

\* Both together.
LEMMA StepNumbered ==
    ASSUME TypeOK, Discipline, Aggregates, Numbered, Migrating, LoadsForward, Next
    PROVE  Numbered' /\ LoadsForward'
  <1>1. RowsNumbered' /\ LoadsNumbered'
    BY StepRows, StepLoads
  <1>2. loaded'[Main] = <<>>
    BY StepDiscipline DEF Discipline
  <1>3. \A t \in Threads : Ordered(loaded'[t])
    <2>1. Ordered(<<>>)
      BY DEF Ordered
    <2> QED BY <1>1, <1>2, <2>1 DEF LoadsNumbered, Ordered, Threads
  <1>4. LoadsForward'
    BY <1>3 DEF LoadsForward, Ordered
  <1>5. Numbered'
    BY <1>1 DEF RowsNumbered, LoadsNumbered, Numbered
  <1> QED BY <1>4, <1>5

-----------------------------------------------------------------------------
(* Migrations *)

\* Every step keeps the schema and its record together.
LEMMA StepMigrating ==
    ASSUME TypeOK, Discipline, Migrating, Next
    PROVE  Migrating'
<1>0. /\ None \notin Threads /\ Main \in Threads /\ Main \notin Sessions /\ \A u \in Sessions : u \in Threads
      /\ db.schema \subseteq Versions
  BY StoreAssumption DEF Threads, TypeOK, Database
\* Steps of sessions while the service serves: nothing of Main moves.
<1>1. ASSUME phase = "serve", phase' = "serve", todo'[Main] = todo[Main], arg'[Main] = arg[Main],
             db'.schema = db.schema, db'.recorded = db.recorded, conn' # Main,
             \A u \in Sessions : conn' = u => tx'.schema = db'.schema /\ tx'.recorded = db'.recorded
      PROVE  Migrating'
  <2>1. todo'[Main] = <<>>
    BY <1>1 DEF Discipline, Idle
  <2> QED BY <1>1, <2>1 DEF Migrating, Idle, At
<1>2. ASSUME NEW t \in Threads, Requests(t) PROVE Migrating'
  <2>0. PICK q : \E j \in Jobs : Request(t, q, j)
    BY <1>2, RequestedProgram
  <2>1. PICK j \in Jobs : Request(t, q, j)
    BY <2>0
  <2>2. /\ t \in Sessions /\ phase = "serve" /\ phase' = phase /\ db' = db /\ tx' = tx /\ conn' = conn
        /\ todo'[Main] = todo[Main] /\ arg'[Main] = arg[Main]
    BY <1>0, <2>1, RequestFacts
  <2>3. conn # Main
    BY <1>0, <2>2 DEF Discipline
  <2>4. \A u \in Sessions : conn = u => tx.schema = db.schema /\ tx.recorded = db.recorded
    BY DEF Migrating
  <2> QED BY <1>1, <2>2, <2>3, <2>4
<1>3. ASSUME NEW t \in Threads, Begin(t) PROVE Migrating'
  <2>1. /\ ~Idle(t) /\ Head(todo[t]) = "begin" /\ conn' = t /\ db' = db /\ tx' = db /\ phase' = phase /\ missing' = missing
        /\ todo'[t] # <<>>
        /\ t = Main => Head(todo'[t]) = "applySql" /\ arg' = arg
        /\ \A u \in Threads : u # t => arg'[u] = arg[u] /\ todo'[u] = todo[u]
    BY <1>3, BeginFacts
  <2>2. CASE t \in Sessions
    <3>1. phase = "serve" /\ t # Main
      BY <1>0, <2>1, <2>2, PhaseOfThread
    <3>2. todo'[Main] = todo[Main] /\ arg'[Main] = arg[Main]
      BY <1>0, <2>1, <3>1
    <3> QED BY <1>1, <2>1, <3>1, <3>2
  <2>3. CASE t = Main
    <3>1. phase = "migrate" /\ ~At(Main, "readApplied") /\ ~Idle(Main)
      BY <2>1, <2>3, PhaseOfThread DEF At
    <3>2. At(Main, "applySql")' /\ ~At(Main, "commit")' /\ ~At(Main, "readApplied")'
      BY <2>1, <2>3 DEF At
    <3>3. /\ db.recorded = db.schema /\ \A v \in db.schema, w \in Versions : w < v => w \in db.schema
          /\ missing = Versions \ db.schema /\ arg[Main].edit \in missing /\ \A w \in missing : arg[Main].edit <= w
      BY <3>1 DEF Migrating
    <3> QED BY <1>0, <2>1, <2>3, <3>1, <3>2, <3>3 DEF Migrating
  <2> QED BY <2>2, <2>3 DEF Threads
<1>4. ASSUME NEW t \in Threads, Exec(t) PROVE Migrating'
  <2> DEFINE s == Head(todo[t])
             n == Head(todo'[t])
  <2>1. /\ ~Idle(t) /\ conn = t /\ conn' = t /\ db' = db /\ arg' = arg /\ phase' = phase /\ missing' = missing
        /\ tx \in Database /\ tx' = Effect(s, tx, arg[t])
        /\ t \in Sessions => s \in Edits \cup Deletes /\ arg[t] \in [job: Jobs, edit: Nat]
        /\ t = Main => s \in Ddl /\ arg[t] \in [job: Jobs \cup {None}, edit: Nat] /\ arg[t].edit \in Versions
        /\ todo'[t] # <<>> /\ n \in Follow(s)
        /\ \A u \in Threads : u # t => todo'[u] = todo[u]
    BY <1>4, ExecFacts
  <2>2. CASE t \in Sessions
    <3>1. phase = "serve" /\ t # Main
      BY <1>0, <2>1, <2>2, PhaseOfThread
    <3>2. tx.schema = db.schema /\ tx.recorded = db.recorded
      BY <2>1, <2>2 DEF Migrating
    <3>3. s \in Edits \cup Deletes /\ arg[t] \in [job: Jobs, edit: Nat]
      BY <2>1, <2>2
    <3> HIDE DEF s
    <3>4. tx'.schema = tx.schema /\ tx'.recorded = tx.recorded
      <4>1. CASE s \in Edits
        BY <2>1, <3>3, <4>1, EditEffect
      <4>2. CASE s \in Deletes
        BY <2>1, <3>3, <4>2, DeleteEffect
      <4> QED BY <3>3, <4>1, <4>2
    <3>5. todo'[Main] = todo[Main] /\ arg'[Main] = arg[Main]
      BY <1>0, <2>1, <3>1
    <3> QED BY <1>0, <1>1, <2>1, <3>1, <3>2, <3>4, <3>5
  <2>3. CASE t = Main
    <3>1. s \in Ddl /\ arg[t] \in [job: Jobs \cup {None}, edit: Nat] /\ arg[t].edit \in Versions
      BY <2>1, <2>3
    <3>2. phase = "migrate" /\ ~At(Main, "readApplied") /\ ~Idle(Main) /\ ~At(Main, "commit")
          /\ (At(Main, "applySql") <=> s = "applySql")
      BY <2>1, <2>3, <3>1, PhaseOfThread DEF At, Ddl, Idle
    <3>3. (s = "applySql" /\ n = "record") \/ (s = "record" /\ n = "commit")
      <4> HIDE DEF s, n
      <4>1. Follow("applySql") = {"record"} /\ Follow("record") = {"commit"}
        BY DEF Follow
      <4>0. n \in Follow(s)
        BY <2>1
      <4>2. CASE s = "applySql"
        <5>1. Follow(s) = {"record"}
          BY <4>1, <4>2
        <5>2. n = "record"
          BY <4>0, <5>1
        <5> QED BY <4>2, <5>2
      <4>3. CASE s = "record"
        BY <4>0, <4>1, <4>3
      <4> QED BY <3>1, <4>2, <4>3 DEF Ddl
    <3>4. /\ ~At(Main, "applySql")' /\ ~At(Main, "readApplied")'
          /\ At(Main, "commit")' <=> n = "commit"
      BY <2>1, <2>3, <3>3 DEF At
    <3> HIDE DEF s, n
    <3>5. /\ tx'.schema = IF s = "applySql" THEN tx.schema \cup {arg[t].edit} ELSE tx.schema
          /\ tx'.recorded = IF s = "record" THEN tx.recorded \cup {arg[t].edit} ELSE tx.recorded
      BY <2>1, <3>1, DdlEffect
    <3>6. /\ tx.schema = IF At(Main, "applySql") THEN db.schema ELSE db.schema \cup {arg[Main].edit}
          /\ tx.recorded = db.schema
      BY <2>1, <2>3, <3>2 DEF Migrating
    <3>7. /\ tx'.schema = db.schema \cup {arg[Main].edit}
          /\ tx'.recorded = IF n = "commit" THEN db.schema \cup {arg[Main].edit} ELSE db.schema
      BY <2>3, <3>2, <3>3, <3>5, <3>6
    <3>8. /\ db.recorded = db.schema /\ \A v \in db.schema, w \in Versions : w < v => w \in db.schema
          /\ missing = Versions \ db.schema /\ arg[Main].edit \in missing /\ \A w \in missing : arg[Main].edit <= w
      BY <3>2 DEF Migrating
    <3> QED BY <1>0, <2>1, <2>3, <3>2, <3>4, <3>7, <3>8 DEF Migrating
  <2> QED BY <2>2, <2>3 DEF Threads
<1>5. ASSUME NEW t \in Threads, Commit(t) PROVE Migrating'
  <2>1. /\ ~Idle(t) /\ At(t, "commit") /\ conn = t /\ conn' = None /\ db' = tx /\ arg' = arg /\ phase' = phase
        /\ missing' = IF t = Main THEN missing \ {arg[t].edit} ELSE missing
        /\ todo'[t] = <<>> /\ \A u \in Threads : u # t => todo'[u] = todo[u]
    BY <1>5, CommitFacts
  <2>2. CASE t \in Sessions
    <3>1. phase = "serve" /\ t # Main
      BY <1>0, <2>1, <2>2, PhaseOfThread
    <3>2. tx.schema = db.schema /\ tx.recorded = db.recorded
      BY <2>1, <2>2 DEF Migrating
    <3>3. todo'[Main] = todo[Main] /\ arg'[Main] = arg[Main] /\ conn' # Main
      BY <1>0, <2>1, <3>1
    <3> QED BY <1>0, <1>1, <2>1, <3>1, <3>2, <3>3
  <2>3. CASE t = Main
    <3> DEFINE e == arg[Main].edit
    <3>1. phase = "migrate" /\ ~At(Main, "readApplied") /\ ~Idle(Main) /\ ~At(Main, "applySql")
      BY <2>1, <2>3, PhaseOfThread DEF At
    <3>2. /\ db.recorded = db.schema /\ \A v \in db.schema, w \in Versions : w < v => w \in db.schema
          /\ missing = Versions \ db.schema /\ e \in missing /\ \A w \in missing : e <= w
          /\ tx.schema = db.schema \cup {e} /\ tx.recorded = db.schema \cup {e}
      BY <2>1, <2>3, <3>1 DEF Migrating
    <3>3. \A v \in tx.schema, w \in Versions : w < v => w \in tx.schema
      BY <3>2 DEF Versions
    <3>4. missing' = Versions \ tx.schema
      BY <2>1, <2>3, <3>2
    <3> QED BY <1>0, <2>1, <2>3, <3>1, <3>2, <3>3, <3>4 DEF Migrating, Idle, At
  <2> QED BY <2>2, <2>3 DEF Threads
<1>6. ASSUME NEW t \in Threads, AutoCommit(t) PROVE Migrating'
  <2>0. /\ ~Idle(t) /\ t \in Sessions /\ conn' = None /\ db \in Database /\ Head(todo[t]) \in RunStatements
        /\ phase' = phase /\ arg' = arg /\ \A u \in Threads : u # t => todo'[u] = todo[u]
        /\ arg[t] \in [job: Jobs, edit: Nat] /\ db' = Effect(Head(todo[t]), db, arg[t])
    BY <1>6, AutoCommitFacts
  <2>1. db'.schema = db.schema /\ db'.recorded = db.recorded
    BY <2>0, SingleEffect
  <2>2. phase = "serve" /\ todo'[Main] = todo[Main]
    BY <1>0, <2>0, PhaseOfThread
  <2> QED BY <1>0, <1>1, <2>0, <2>1, <2>2
\* Steps that end a program and leave the database alone.
<1>7. ASSUME NEW t \in Threads, Rollback(t) \/ Query(t) \/ StatementFails(t) PROVE Migrating'
  <2>1. ~Idle(t) /\ db' = db /\ conn' = None /\ arg' = arg /\ missing' = missing
    BY <1>7 DEF Rollback, Query, StatementFails, InTx, At, Idle
  <2>2. CASE t \in Sessions
    <3>1. phase = "serve" /\ t # Main
      BY <1>0, <2>1, <2>2, PhaseOfThread
    <3>2. phase' = phase
      BY <1>7, <3>1 DEF Rollback, Query, StatementFails, ErrorOf
    <3>3. todo'[Main] = todo[Main]
      BY <1>0, <1>7, <3>1, FailsTo DEF Rollback, Query, Abandon, Advance, TypeOK
    <3> QED BY <1>0, <1>1, <2>1, <3>1, <3>2, <3>3
  <2>3. CASE t = Main
    <3>1. ~Query(t)
      BY <1>0, <2>3, QueryFacts
    <3>2. phase' = "down" /\ todo'[Main] = <<>>
      BY <1>0, <1>7, <2>3, <3>1, FailsTo DEF Rollback, Abandon, StatementFails, ErrorOf, TypeOK
    <3> QED BY <1>0, <2>1, <3>2 DEF Migrating, Idle, At
  <2> QED BY <2>2, <2>3 DEF Threads
<1>8. ASSUME Start PROVE Migrating'
  <2>1. phase # "serve" /\ Idle(Main) /\ phase' = "migrate" /\ db' = db /\ conn' = conn
    BY <1>8 DEF Start, Discipline
  <2>2. conn = None
    BY <2>1, FreeConnection
  <2>3. At(Main, "readApplied")'
    BY <1>0, <1>8 DEF Start, At, TypeOK
  <2> QED BY <1>0, <2>1, <2>2, <2>3 DEF Migrating
<1>9. ASSUME appliedMigrationVersions PROVE Migrating'
  <2>1. /\ ~Idle(Main) /\ Head(todo[Main]) = "readApplied" /\ conn' = None /\ Advance(Main)
        /\ phase' = phase /\ db' = db /\ missing' = Versions \ db.recorded
    BY <1>9 DEF appliedMigrationVersions, At, Idle
  <2>2. todo'[Main] = <<>>
    <3>1. Follow("readApplied") = {"end"}
      BY DEF Follow
    <3> QED BY <1>0, <2>1, <3>1, Advances, FollowFacts
  <2> QED BY <1>0, <2>1, <2>2 DEF Migrating, Idle
<1>10. ASSUME MigrateNext PROVE Migrating'
  <2>1. phase = "migrate" /\ Idle(Main) /\ phase' = phase /\ db' = db /\ conn' = conn /\ missing' = missing
    BY <1>10 DEF MigrateNext
  <2>2. conn = None /\ ~At(Main, "readApplied")
    BY <2>1, FreeConnection DEF At, Idle
  <2>3. PICK v \in missing : (\A w \in missing : v <= w) /\ arg' = [arg EXCEPT ![Main].edit = v]
    BY <1>10 DEF MigrateNext
  <2>4. arg'[Main].edit = v
    BY <1>0, <2>3 DEF TypeOK
  <2>5. missing = Versions \ db.schema
    BY <2>1, <2>2 DEF Migrating
  <2> QED BY <1>0, <2>1, <2>2, <2>3, <2>4, <2>5 DEF Migrating
<1>11. ASSUME Serve PROVE Migrating'
  <2>1. /\ phase = "migrate" /\ Idle(Main) /\ missing = {} /\ conn = None /\ conn' = None /\ phase' = "serve"
        /\ todo' = todo /\ db'.schema = db.schema /\ db'.recorded = db.recorded
    BY <1>11 DEF Serve, TypeOK, Database
  <2>2. Versions \ db.schema = {}
    BY <2>1 DEF Migrating, Idle, At
  <2>3. db.schema = Versions
    BY <1>0, <2>2
  <2> QED BY <1>0, <2>1, <2>3 DEF Migrating, Idle
<1>12. ASSUME Crash PROVE Migrating'
  <2>1. phase' = "down" /\ conn' = None /\ db' = db /\ todo'[Main] = <<>>
    BY <1>0, <1>12 DEF Crash
  <2> QED BY <1>0, <2>1 DEF Migrating, Idle
<1> QED BY <1>2, <1>3, <1>4, <1>5, <1>6, <1>7, <1>8, <1>9, <1>10, <1>11, <1>12 DEF Next, Step, Startup

-----------------------------------------------------------------------------
(* Deletions *)

\* A program that advances creates something only if it was about to before.
LEMMA CreatingAdvances ==
    ASSUME TypeOK, Discipline, NEW t \in Threads, ~Idle(t), Advance(t), Creating(t)'
    PROVE  Creating(t) /\ Head(todo[t]) = "begin"
  <1>1. /\ WellFormed(todo[t]) /\ WellFormed(todo'[t]) /\ todo[t] # <<>>
        /\ todo'[t] # <<>> => Head(todo'[t]) = todo[t][2] /\ todo[t][2] \in Follow(Head(todo[t]))
        /\ \A i \in 1..Len(todo'[t]) : todo'[t][i] = todo[t][i + 1] /\ i + 1 \in 1..Len(todo[t])
        /\ todo'[t] \in Seq(Statements) /\ Head(todo[t]) \in Statements
    BY Advances DEF Discipline, Idle
  <1>2. CASE At(t, "insertRow")'
    <2>1. todo[t][2] = "insertRow" /\ "insertRow" \in Follow(Head(todo[t]))
      BY <1>1, <1>2 DEF At
    <2>2. Head(todo[t]) = "begin"
      BY <1>1, <2>1 DEF Follow
    <2> QED BY <1>1, <2>1, <2>2 DEF Creating, At
  <1>3. CASE At(t, "begin")' /\ todo'[t][2] = "insertRow"
    <2> DEFINE n == Len(todo'[t])
    <2>1. todo'[t] # <<>> /\ Head(todo'[t]) = "begin" /\ n \in Nat \ {0} /\ todo'[t][1] = "begin"
      BY <1>1, <1>3, EmptySeq, HeadTailProperties DEF At
    <2>2. n # 1
      <3>1. "end" \notin Follow("begin")
        BY DEF Follow
      <3>2. n = 1 => "end" \in Follow(todo'[t][1])
        BY <1>1 DEF WellFormed
      <3> QED BY <2>1, <3>1, <3>2
    <2> HIDE DEF n
    <2>3. 2 \in 1..n
      BY <2>1, <2>2
    <2> USE DEF n
    <2>4. todo[t][3] = "insertRow" /\ 3 \in 1..Len(todo[t])
      BY <1>1, <1>3, <2>3
    <2> QED BY <1>1, <2>4 DEF WellFormed
  <1> QED BY <1>2, <1>3 DEF Creating

\* A session is about to create a job after a step only if it was before, or
\* if it has just got a request with an id that is not in use.
LEMMA CreatingStep ==
    ASSUME TypeOK, Discipline, Migrating, Next, NEW u \in Sessions, Creating(u)'
    PROVE  \/ Creating(u) /\ arg'[u].job = arg[u].job
           \/ \E q : \E j \in Jobs : Request(u, q, j) /\ FreshId(j)
<1> DEFINE Same == Creating(u) /\ arg'[u].job = arg[u].job
<1>0. u \in Threads /\ u # Main
  BY StoreAssumption DEF Threads
<1>1. ASSUME todo'[u] = todo[u], arg'[u].job = arg[u].job PROVE Same
  BY <1>1 DEF Creating, At
<1>2. todo'[u] \notin {<<>>, <<"createSkipped">>, <<"release">>}
  BY DEF Creating, At
<1>3. ASSUME NEW t \in Threads, Requests(t)
      PROVE  Same \/ \E q : \E j \in Jobs : Request(u, q, j) /\ FreshId(j)
  <2>0. PICK q : \E j \in Jobs :
               /\ Request(t, q, j) /\ Program(q)
               /\ FreshId(j) \/ (q[1] # "insertRow" /\ ~(q[1] = "begin" /\ q[2] = "insertRow"))
    BY <1>3, RequestedProgram
  <2>1. PICK j \in Jobs :
               /\ Request(t, q, j) /\ Program(q)
               /\ FreshId(j) \/ (q[1] # "insertRow" /\ ~(q[1] = "begin" /\ q[2] = "insertRow"))
    BY <2>0
  <2>2. CASE u = t
    <3>1. todo'[u] = q /\ q \in Seq(Statements)
      BY <2>1, <2>2, RequestFacts DEF Program
    <3>2. q # <<>> => Head(q) = q[1]
      BY <3>1
    <3>3. FreshId(j)
      BY <2>1, <3>1, <3>2 DEF Creating, At
    <3> QED BY <2>1, <2>2, <3>3
  <2>3. CASE u # t
    BY <1>0, <1>1, <2>1, <2>3, RequestFacts
  <2> QED BY <2>2, <2>3
<1>4. ASSUME NEW t \in Threads, Begin(t) PROVE Same
  <2>1. CASE u = t
    BY <1>4, <2>1, BeginFacts, CreatingAdvances
  <2>2. CASE u # t
    BY <1>0, <1>1, <1>4, <2>2, BeginFacts
  <2> QED BY <2>1, <2>2
<1>5. ASSUME NEW t \in Threads, Exec(t) \/ Commit(t) \/ AutoCommit(t) \/ Query(t) \/ Rollback(t) PROVE Same
  <2>1. ~Idle(t) /\ (Advance(t) \/ Abandon(t)) /\ arg' = arg
    BY <1>5 DEF Exec, Commit, AutoCommit, Query, Rollback, InTx, Single, At, Idle
  <2>2. CASE u = t /\ Advance(t)
    BY <2>1, <2>2, CreatingAdvances
  <2>3. CASE u = t /\ Abandon(t)
    BY <1>0, <1>2, <2>3 DEF Abandon, TypeOK
  <2>4. CASE u # t
    BY <1>0, <1>1, <2>1, <2>4 DEF Abandon, Advance, TypeOK
  <2> QED BY <2>1, <2>2, <2>3, <2>4
<1>6. ASSUME NEW t \in Threads, StatementFails(t) PROVE Same
  <2>1. arg' = arg
    BY <1>6 DEF StatementFails
  <2> QED BY <1>0, <1>1, <1>2, <1>6, <2>1, FailsTo
<1>7. ASSUME Start \/ appliedMigrationVersions \/ Serve PROVE Same
  <2>1. arg' = arg /\ todo'[u] = todo[u]
    BY <1>0, <1>7 DEF Start, appliedMigrationVersions, Serve, Advance, TypeOK
  <2> QED BY <1>1, <2>1
<1>8. ASSUME MigrateNext PROVE Same
  <2>1. arg'[u] = arg[u] /\ todo'[u] = todo[u]
    BY <1>0, <1>8 DEF MigrateNext, TypeOK
  <2> QED BY <1>1, <2>1
<1>9. ASSUME Crash PROVE Same
  BY <1>0, <1>2, <1>9 DEF Crash
<1> QED BY <1>3, <1>4, <1>5, <1>6, <1>7, <1>8, <1>9 DEF Next, Step, Startup

\* The claims about programs that are about to create a job.
Creations ==
    \A t \in Sessions : Creating(t) =>
        /\ arg[t].job \notin gone /\ ~Exists(db, arg[t].job)
        /\ conn # None => ~Exists(tx, arg[t].job)
        /\ \A u \in Sessions \ {t} : Creating(u) => arg[u].job # arg[t].job

\* The rest of Deletions, and what it says while a transaction is open.
OpenDeletions ==
    /\ tx.lock = db.lock
    /\ \A j \in Jobs : j # arg[conn].job => tx.tab["row"][j] = db.tab["row"][j]
    /\ \A j \in tx.lock : Exists(tx, j)
    /\ \A j \in gone : ~Exists(tx, j)
    /\ \A j \in db.runs \ tx.runs :
         \/ Exists(db, j) /\ ~Exists(tx, j)
         \/ j = arg[conn].job /\ At(conn, "deleteRow") /\ tx.tab = db.tab
    /\ conn \in Sessions =>
         /\ Head(todo[conn]) \in {"deleteRuns", "deleteRow"} => arg[conn].job \notin tx.lock
         /\ Head(todo[conn]) \in Deletes => tx.tab = db.tab

\* Deletions is the conjunction of its parts.
LEMMA DeletionsParts ==
    /\ Deletions <=> /\ \A j \in db.lock : Exists(db, j)
                     /\ \A j \in gone : ~Exists(db, j)
                     /\ conn # None => OpenDeletions
                     /\ Creations
    /\ Deletions' <=> /\ \A j \in db'.lock : Exists(db', j)
                      /\ \A j \in gone' : ~Exists(db', j)
                      /\ conn' # None => OpenDeletions'
                      /\ Creations'
  <1>1. None \notin Sessions
    BY StoreAssumption DEF Threads
  <1>2. Deletions <=> /\ \A j \in db.lock : Exists(db, j)
                      /\ \A j \in gone : ~Exists(db, j)
                      /\ conn # None => OpenDeletions
                      /\ Creations
    BY <1>1 DEF Deletions, OpenDeletions, Creations
  <1>3. Deletions' <=> /\ \A j \in db'.lock : Exists(db', j)
                       /\ \A j \in gone' : ~Exists(db', j)
                       /\ conn' # None => OpenDeletions'
                       /\ Creations'
    BY <1>1 DEF Deletions, OpenDeletions, Creations
  <1> QED BY <1>2, <1>3

\* What a statement of a transaction does to the rows, locks and run history.
LEMMA ExecRow ==
    ASSUME TypeOK, Discipline, Migrating, NEW t \in Threads, Exec(t)
    PROVE  LET s == Head(todo[t])
               a == arg[t]
           IN /\ \A j \in Jobs : j # a.job => tx'.tab["row"][j] = tx.tab["row"][j]
              /\ s # "deleteRow" => tx'.lock = tx.lock
              /\ s # "deleteRuns" => tx'.runs = tx.runs
              /\ s = "insertRow" => ~Exists(tx, a.job)
              /\ s \notin {"insertRow", "deleteRow"} => \A j \in Jobs : Exists(tx', j) <=> Exists(tx, j)
              /\ s = "deleteRow" => /\ tx'.lock = tx.lock \ {a.job} /\ Exists(tx, a.job) /\ ~Exists(tx', a.job)
              /\ s \in {"checkLock", "deleteRuns"} => tx'.tab = tx.tab
              /\ s = "checkLock" => a.job \notin tx.lock
              /\ s = "deleteRuns" => tx'.runs = tx.runs \ {a.job}
              /\ t = Main => tx'.tab = tx.tab
  <1> DEFINE s == Head(todo[t])
             a == arg[t]
  <1>1. /\ tx \in Database /\ tx' = Effect(s, tx, a) /\ Accepted(s, tx, a)
        /\ t \in Sessions => s \in Edits \cup Deletes /\ a \in [job: Jobs, edit: Nat]
        /\ t = Main => s \in Ddl /\ a \in [job: Jobs \cup {None}, edit: Nat] /\ a.edit \in Versions
    BY ExecFacts
  <1>2. "row" \in Tables /\ (t \in Sessions => t # Main)
    BY TablesAre, StoreAssumption
  <1> HIDE DEF s, a
  <1>3. CASE t \in Sessions /\ s \in Edits
    <2>1. a \in [job: Jobs, edit: Nat] /\ s \in Edits /\ s \notin Deletes
      BY <1>1, <1>3 DEF Edits, Deletes
    <2>2. /\ tx'.lock = tx.lock /\ tx'.runs = tx.runs
          /\ \A p \in Tables, k \in Jobs : ~(p = Target(s) /\ k = a.job) => tx'.tab[p][k] = tx.tab[p][k]
      BY <1>1, <2>1, EditEffect
    <2>3. \A j \in Jobs : j # a.job => tx'.tab["row"][j] = tx.tab["row"][j]
      BY <1>2, <2>2
    <2>4. s = "insertRow" => ~Exists(tx, a.job)
      BY <1>1 DEF Accepted
    <2>5. s # "insertRow" => (Exists(tx', a.job) <=> Exists(tx, a.job))
      <3>1. CASE s = "updateRow"
        <4>1. Target(s) = "row"
          BY <3>1 DEF Target
        <4>2. tx'.tab[Target(s)][a.job] = {a.edit}
          BY <1>1, <2>1, <3>1, EditEffect
        <4>3. Exists(tx, a.job)
          BY <1>1, <3>1 DEF Accepted
        <4> QED BY <4>1, <4>2, <4>3 DEF Exists
      <3>2. CASE s \notin {"insertRow", "updateRow"}
        <4>1. Target(s) # "row"
          BY <2>1, <3>2 DEF Target, Edits
        <4>2. tx'.tab["row"][a.job] = tx.tab["row"][a.job]
          BY <1>2, <2>1, <2>2, <4>1
        <4> QED BY <4>2 DEF Exists
      <3> QED BY <3>1, <3>2
    <2>6. s \notin {"insertRow", "deleteRow"} => \A j \in Jobs : Exists(tx', j) <=> Exists(tx, j)
      BY <2>3, <2>5 DEF Exists
    <2> QED BY <1>2, <1>3, <2>1, <2>2, <2>3, <2>4, <2>6 DEF s, a, Deletes
  <1>4. CASE t \in Sessions /\ s \in Deletes
    <2>1. a \in [job: Jobs, edit: Nat] /\ s \in Deletes /\ s # "insertRow"
      BY <1>1, <1>4 DEF Deletes
    <2>2. CASE s = "checkLock"
      <3>1. tx' = tx
        BY <1>1, <2>1, <2>2, DeleteEffect
      <3>2. a.job \notin tx.lock
        BY <1>1, <2>2 DEF Accepted
      <3> QED BY <1>2, <1>4, <2>2, <3>1, <3>2 DEF s, a, Exists
    <2>3. CASE s = "deleteRuns"
      <3>1. tx'.tab = tx.tab /\ tx'.lock = tx.lock /\ tx'.runs = tx.runs \ {a.job}
        BY <1>1, <2>1, <2>3, DeleteEffect
      <3> QED BY <1>2, <1>4, <2>3, <3>1 DEF s, a, Exists
    <2>4. CASE s = "deleteRow"
      <3>1. /\ tx'.lock = tx.lock \ {a.job} /\ tx'.runs = tx.runs
            /\ \A p \in Tables, k \in Jobs : tx'.tab[p][k] = IF k = a.job THEN {} ELSE tx.tab[p][k]
        BY <1>1, <2>1, <2>4, DeleteEffect
      <3>2. Exists(tx, a.job)
        BY <1>1, <2>4 DEF Accepted
      <3>3. ~Exists(tx', a.job) /\ \A j \in Jobs : j # a.job => tx'.tab["row"][j] = tx.tab["row"][j]
        BY <1>2, <2>1, <3>1 DEF Exists
      <3> QED BY <1>2, <1>4, <2>4, <3>1, <3>2, <3>3 DEF s, a
    <2> QED BY <2>1, <2>2, <2>3, <2>4 DEF Deletes
  <1>5. CASE t = Main
    <2>1. a \in [job: Jobs \cup {None}, edit: Nat] /\ s \in Ddl /\ a.edit \in Versions
      BY <1>1, <1>5
    <2>2. tx'.tab = tx.tab /\ tx'.lock = tx.lock /\ tx'.runs = tx.runs
      BY <1>1, <2>1, DdlEffect
    <2> QED BY <2>1, <2>2 DEF s, a, Exists, Ddl
  <1> QED BY <1>1, <1>3, <1>4, <1>5 DEF Threads

\* What is about to be created does not exist, before and after every step.
LEMMA StepCreations ==
    ASSUME TypeOK, Discipline, Migrating, Deletions, Next
    PROVE  Creations'
<1>0. /\ Creations /\ (conn # None => OpenDeletions) /\ None \notin Threads /\ Main \notin Sessions
      /\ \A u \in Sessions : u \in Threads
  BY DeletionsParts, StoreAssumption DEF Threads
\* Two sessions never create the same job.
<1>1. ASSUME NEW u \in Sessions, NEW v \in Sessions, u # v, Creating(u)', Creating(v)'
      PROVE  arg'[u].job # arg'[v].job
  <2>1. ASSUME NEW x \in Sessions, NEW y \in Sessions, x # y, Creating(x)', Creating(y)',
               \E q : \E j \in Jobs : Request(x, q, j) /\ FreshId(j)
        PROVE  arg'[x].job # arg'[y].job
    <3>1. PICK q : \E j \in Jobs : Request(x, q, j) /\ FreshId(j)
      BY <2>1
    <3>2. PICK j \in Jobs : Request(x, q, j) /\ FreshId(j)
      BY <3>1
    <3> QED BY <1>0, <2>1, <3>2, RequestFacts DEF FreshId
  <2>2. CASE Creating(u) /\ arg'[u].job = arg[u].job /\ Creating(v) /\ arg'[v].job = arg[v].job
    BY <1>0, <1>1, <2>2 DEF Creations
  <2> QED BY <1>1, <2>1, <2>2, CreatingStep
\* A job that a request is about to create.
<1>2. ASSUME NEW u \in Sessions, NEW q, NEW j \in Jobs, Request(u, q, j), FreshId(j)
      PROVE  /\ arg'[u].job \notin gone' /\ ~Exists(db', arg'[u].job)
             /\ conn' # None => ~Exists(tx', arg'[u].job)
  <2>1. db' = db /\ tx' = tx /\ conn' = conn /\ gone' = gone /\ arg'[u].job = j /\ phase = "serve"
    BY <1>0, <1>2, RequestFacts
  <2>2. j \notin gone /\ ~Exists(db, j) /\ \A t \in Sessions : arg[t].job # j
    BY <1>2 DEF FreshId
  <2>3. conn # None => ~Exists(tx, j)
    <3>1. conn # None => conn \in Sessions
      BY <2>1 DEF TypeOK, Discipline, Threads
    <3> QED BY <1>0, <2>2, <3>1 DEF OpenDeletions, Exists
  <2> QED BY <2>1, <2>2, <2>3
\* A job that was about to be created before.
<1>3. ASSUME NEW u \in Sessions, Creating(u), Creating(u)', arg'[u].job = arg[u].job
      PROVE  /\ arg'[u].job \notin gone' /\ ~Exists(db', arg'[u].job)
             /\ conn' # None => ~Exists(tx', arg'[u].job)
  <2> DEFINE j == arg[u].job
             G == /\ arg'[u].job \notin gone' /\ ~Exists(db', arg'[u].job)
                  /\ conn' # None => ~Exists(tx', arg'[u].job)
  <2>0. j \notin gone /\ ~Exists(db, j) /\ (conn # None => ~Exists(tx, j)) /\ arg'[u].job = j
    BY <1>0, <1>3 DEF Creations
  <2>1. j \in Jobs
    BY <1>3 DEF Creating, At, Discipline, Idle
  <2>2. ASSUME NEW t \in Threads, Requests(t) PROVE G
    <3>0. PICK q : \E k \in Jobs : Request(t, q, k)
      BY <2>2, RequestedProgram
    <3>1. PICK k \in Jobs : Request(t, q, k)
      BY <3>0
    <3>2. db' = db /\ tx' = tx /\ conn' = conn /\ gone' = gone
      BY <3>1, RequestFacts
    <3> QED BY <2>0, <3>2
  <2>3. ASSUME NEW t \in Threads, Begin(t) PROVE G
    <3>1. db' = db /\ tx' = db /\ gone' = gone
      BY <2>3, BeginFacts
    <3> QED BY <2>0, <3>1
  <2>4. ASSUME NEW t \in Threads, Exec(t) PROVE G
    <3>1. db' = db /\ conn = t /\ conn # None /\ gone' = gone /\ ~Idle(t) /\ Advance(t) /\ Head(todo[t]) # "begin"
      BY <1>0, <2>4, ExecFacts DEF Edits, Deletes, Ddl, Threads
    <3>2. u # t
      BY <1>0, <1>3, <3>1, CreatingAdvances
    <3>3. CASE j # arg[t].job
      <4>1. tx'.tab["row"][j] = tx.tab["row"][j]
        BY <2>1, <2>4, <3>3, ExecRow
      <4> QED BY <2>0, <3>1, <4>1 DEF Exists
    <3>4. CASE j = arg[t].job
      <4>1. CASE Head(todo[t]) = "insertRow"
        <5>1. Creating(t) /\ t \in Sessions
          BY <2>4, <3>1, <4>1, ExecFacts DEF Creating, At, Idle, Threads, Ddl
        <5> QED BY <1>0, <1>3, <3>2, <3>4, <5>1 DEF Creations
      <4>2. CASE Head(todo[t]) = "deleteRow"
        <5>1. ~Exists(tx', arg[t].job)
          BY <2>4, <4>2, ExecRow
        <5> QED BY <2>0, <3>1, <3>4, <5>1
      <4>3. CASE Head(todo[t]) \notin {"insertRow", "deleteRow"}
        <5>1. Exists(tx', j) <=> Exists(tx, j)
          BY <2>1, <2>4, <4>3, ExecRow
        <5> QED BY <2>0, <3>1, <5>1
      <4> QED BY <4>1, <4>2, <4>3
    <3> QED BY <3>3, <3>4
  <2>5. ASSUME NEW t \in Threads, Commit(t) PROVE G
    <3>1. /\ db' = tx /\ conn = t /\ conn' = None /\ conn # None
          /\ gone' = gone \cup {k \in Jobs : Exists(db, k) /\ ~Exists(tx, k)}
      BY <1>0, <2>5, CommitFacts
    <3> QED BY <2>0, <3>1
  <2>6. ASSUME NEW t \in Threads, AutoCommit(t) PROVE G
    <3>0. /\ conn' = None /\ db \in Database /\ Head(todo[t]) \in RunStatements /\ gone' = gone
          /\ arg[t] \in [job: Jobs, edit: Nat] /\ db' = Effect(Head(todo[t]), db, arg[t])
      BY <2>6, AutoCommitFacts
    <3>1. db'.tab = db.tab
      BY <3>0, SingleEffect
    <3> QED BY <2>0, <3>0, <3>1 DEF Exists
  <2>7. ASSUME Serve PROVE G
    <3>1. db'.tab = db.tab /\ conn' = None /\ gone' = gone
      BY <2>7 DEF Serve, TypeOK, Database
    <3> QED BY <2>0, <3>1 DEF Exists
  <2>8. ASSUME Quiet PROVE G
    BY <2>0, <2>8 DEF Quiet
  <2> QED BY <2>2, <2>3, <2>4, <2>5, <2>6, <2>7, <2>8, StepKinds
<1>4. ASSUME NEW u \in Sessions, Creating(u)'
      PROVE  /\ arg'[u].job \notin gone' /\ ~Exists(db', arg'[u].job)
             /\ conn' # None => ~Exists(tx', arg'[u].job)
  BY <1>2, <1>3, <1>4, CreatingStep
<1> QED BY <1>1, <1>4 DEF Creations

\* Every step keeps locks and run history with their jobs, and deleted jobs
\* deleted.
LEMMA StepDeletions ==
    ASSUME TypeOK, Discipline, Migrating, Deletions, Next
    PROVE  Deletions'
<1>0. /\ \A j \in db.lock : Exists(db, j)
      /\ \A j \in gone : ~Exists(db, j)
      /\ conn # None => OpenDeletions
      /\ Creations /\ Creations'
      /\ None \notin Threads /\ Main \notin Sessions /\ \A u \in Sessions : u \in Threads
      /\ gone \subseteq Jobs /\ "row" \in Tables
  BY DeletionsParts, StepCreations, StoreAssumption, TablesAre DEF Threads, TypeOK
<1> SUFFICES /\ \A j \in db'.lock : Exists(db', j)
             /\ \A j \in gone' : ~Exists(db', j)
             /\ conn' # None => OpenDeletions'
  BY <1>0, DeletionsParts
<1> DEFINE Goal == /\ \A j \in db'.lock : Exists(db', j)
                   /\ \A j \in gone' : ~Exists(db', j)
                   /\ conn' # None => OpenDeletions'
<1>1. ASSUME NEW t \in Threads, Requests(t) PROVE Goal
  <2>0. PICK q : \E j \in Jobs : Request(t, q, j)
    BY <1>1, RequestedProgram
  <2>1. PICK j \in Jobs : Request(t, q, j)
    BY <2>0
  <2>2. /\ db' = db /\ tx' = tx /\ conn' = conn /\ gone' = gone /\ conn # t
        /\ \A u \in Threads : u # t => todo'[u] = todo[u] /\ arg'[u] = arg[u]
    BY <2>1, RequestFacts
  <2>3. conn # None => todo'[conn] = todo[conn] /\ arg'[conn] = arg[conn]
    BY <2>2 DEF TypeOK
  <2> QED BY <1>0, <2>2, <2>3 DEF OpenDeletions, At
<1>2. ASSUME NEW t \in Threads, Begin(t) PROVE Goal
  <2>1. /\ db' = db /\ tx' = db /\ gone' = gone /\ conn' = t
        /\ t \in Sessions => Head(todo'[t]) \in {"insertRow", "updateRow", "checkLock"}
    BY <1>2, BeginFacts
  <2>2. OpenDeletions'
    BY <1>0, <2>1 DEF OpenDeletions
  <2> QED BY <1>0, <2>1, <2>2
<1>3. ASSUME NEW t \in Threads, Exec(t) PROVE Goal
  <2> DEFINE s == Head(todo[t])
             n == Head(todo'[t])
             a == arg[t]
  <2>1. /\ db' = db /\ conn = t /\ conn' = t /\ arg' = arg /\ gone' = gone /\ conn # None
        /\ todo'[t] # <<>> /\ n \in Follow(s) /\ ~Idle(t)
        /\ t \in Sessions => s \in Edits \cup Deletes /\ a \in [job: Jobs, edit: Nat]
        /\ t = Main => s \in Ddl
    BY <1>0, <1>3, ExecFacts
  <2>2. /\ tx.lock = db.lock
        /\ \A j \in Jobs : j # a.job => tx.tab["row"][j] = db.tab["row"][j]
        /\ \A j \in tx.lock : Exists(tx, j)
        /\ \A j \in gone : ~Exists(tx, j)
        /\ \A j \in db.runs \ tx.runs :
             \/ Exists(db, j) /\ ~Exists(tx, j)
             \/ j = a.job /\ At(t, "deleteRow") /\ tx.tab = db.tab
        /\ t \in Sessions =>
             /\ s \in {"deleteRuns", "deleteRow"} => a.job \notin tx.lock
             /\ s \in Deletes => tx.tab = db.tab
    BY <1>0, <2>1 DEF OpenDeletions
  <2>3. /\ \A j \in Jobs : j # a.job => tx'.tab["row"][j] = tx.tab["row"][j]
        /\ s # "deleteRow" => tx'.lock = tx.lock
        /\ s # "deleteRuns" => tx'.runs = tx.runs
        /\ s \notin {"insertRow", "deleteRow"} => \A j \in Jobs : Exists(tx', j) <=> Exists(tx, j)
        /\ s = "deleteRow" => /\ tx'.lock = tx.lock \ {a.job} /\ Exists(tx, a.job) /\ ~Exists(tx', a.job)
        /\ s \in {"checkLock", "deleteRuns"} => tx'.tab = tx.tab
        /\ s = "checkLock" => a.job \notin tx.lock
        /\ s = "deleteRuns" => tx'.runs = tx.runs \ {a.job}
    BY <1>3, ExecRow
  <2>4. /\ tx.lock \subseteq Jobs /\ db.runs \subseteq Jobs
        /\ At(t, "deleteRow") <=> s = "deleteRow"
        /\ At(t, "deleteRow")' <=> n = "deleteRow"
        /\ t \in Sessions \/ t = Main
    BY <2>1 DEF TypeOK, Database, At, Idle, Threads
  <2> SUFFICES /\ tx'.lock = db.lock
               /\ \A j \in Jobs : j # a.job => tx'.tab["row"][j] = db.tab["row"][j]
               /\ \A j \in tx'.lock : Exists(tx', j)
               /\ \A j \in gone : ~Exists(tx', j)
               /\ \A j \in db.runs \ tx'.runs :
                    \/ Exists(db, j) /\ ~Exists(tx', j)
                    \/ j = a.job /\ n = "deleteRow" /\ tx'.tab = db.tab
               /\ t \in Sessions =>
                    /\ n \in {"deleteRuns", "deleteRow"} => a.job \notin tx'.lock
                    /\ n \in Deletes => tx'.tab = db.tab
    BY <1>0, <2>1, <2>4 DEF OpenDeletions
  <2> HIDE DEF s, n, a
  <2>5. CASE s = "insertRow"
    <3>1. t \in Sessions /\ Creating(t)
      BY <2>1, <2>4, <2>5 DEF s, Creating, At, Idle, Ddl
    <3>2. a.job \notin gone /\ ~Exists(db, a.job) /\ ~Exists(tx, a.job)
      BY <1>0, <2>1, <3>1 DEF Creations, a
    <3>3. n = "insertSources"
      BY <2>1, <2>5 DEF Follow
    <3>4. \A j \in Jobs : j # a.job => (Exists(tx', j) <=> Exists(tx, j))
      BY <2>3 DEF Exists
    <3> QED BY <1>0, <2>2, <2>3, <2>4, <2>5, <3>2, <3>3, <3>4 DEF Deletes
  <2>6. CASE s \in (Edits \ {"insertRow"}) \cup Ddl
    <3>1. n \notin Deletes /\ n \notin {"deleteRuns", "deleteRow"} /\ s \notin Deletes
          /\ s \notin {"insertRow", "deleteRow", "deleteRuns"}
      BY <2>1, <2>6 DEF Follow, Edits, Ddl, Deletes
    <3> QED BY <1>0, <2>2, <2>3, <2>4, <3>1
  <2>7. CASE s = "checkLock"
    <3>1. t \in Sessions /\ tx.tab = db.tab
      BY <2>1, <2>2, <2>4, <2>7 DEF Ddl, Deletes
    <3>2. tx'.tab = db.tab /\ tx'.lock = tx.lock /\ tx'.runs = tx.runs /\ a.job \notin tx.lock
      BY <2>3, <2>7, <3>1
    <3> QED BY <1>0, <2>2, <2>3, <2>4, <2>7, <3>1, <3>2 DEF Exists
  <2>8. CASE s = "deleteRuns"
    <3>1. t \in Sessions /\ tx.tab = db.tab /\ a.job \notin tx.lock
      BY <2>1, <2>2, <2>4, <2>8 DEF Ddl, Deletes
    <3>2. tx'.tab = db.tab /\ tx'.lock = tx.lock /\ tx'.runs = tx.runs \ {a.job} /\ n = "deleteRow"
      BY <2>1, <2>3, <2>8, <3>1 DEF Follow
    <3>3. \A j \in db.runs \ tx'.runs : j = a.job \/ j \in db.runs \ tx.runs
      BY <3>2
    <3> QED BY <1>0, <2>2, <2>3, <2>4, <2>8, <3>1, <3>2, <3>3 DEF Exists
  <2>9. CASE s = "deleteRow"
    <3>1. t \in Sessions /\ tx.tab = db.tab /\ a.job \notin tx.lock
      BY <2>1, <2>2, <2>4, <2>9 DEF Ddl, Deletes
    <3>2. tx'.lock = tx.lock /\ tx'.runs = tx.runs /\ n = "commit" /\ ~Exists(tx', a.job) /\ Exists(db, a.job)
      BY <2>1, <2>3, <2>9, <3>1 DEF Follow, Exists
    <3>3. \A j \in Jobs : j # a.job => (Exists(tx', j) <=> Exists(tx, j))
      BY <2>3 DEF Exists
    <3>4. \A j \in tx'.lock : Exists(tx', j)
      BY <2>2, <2>4, <3>1, <3>2, <3>3
    <3>5. \A j \in gone : ~Exists(tx', j)
      BY <1>0, <2>2, <3>2, <3>3
    <3>6. \A j \in db.runs \ tx'.runs : Exists(db, j) /\ ~Exists(tx', j)
      BY <2>2, <2>4, <3>2, <3>3
    <3> QED BY <2>2, <2>3, <3>1, <3>2, <3>4, <3>5, <3>6 DEF Deletes
  <2> QED BY <2>1, <2>4, <2>5, <2>6, <2>7, <2>8, <2>9 DEF Deletes
<1>4. ASSUME NEW t \in Threads, Commit(t) PROVE Goal
  <2>1. /\ db' = tx /\ conn = t /\ conn' = None /\ conn # None
        /\ gone' = gone \cup {k \in Jobs : Exists(db, k) /\ ~Exists(tx, k)}
    BY <1>0, <1>4, CommitFacts
  <2>2. OpenDeletions
    BY <1>0, <2>1
  <2> QED BY <2>1, <2>2 DEF OpenDeletions
<1>5. ASSUME NEW t \in Threads, AutoCommit(t) PROVE Goal
  <2>0. /\ conn' = None /\ db \in Database /\ Head(todo[t]) \in RunStatements /\ gone' = gone
        /\ Accepted(Head(todo[t]), db, arg[t])
        /\ arg[t] \in [job: Jobs, edit: Nat] /\ db' = Effect(Head(todo[t]), db, arg[t])
    BY <1>5, AutoCommitFacts
  <2>1. /\ db'.tab = db.tab
        /\ db'.lock = IF Head(todo[t]) = "acquire" THEN db.lock \cup {arg[t].job}
                      ELSE IF Head(todo[t]) = "release" THEN db.lock \ {arg[t].job} ELSE db.lock
    BY <2>0, SingleEffect
  <2>2. Head(todo[t]) = "acquire" => Exists(db, arg[t].job)
    BY <2>0 DEF Accepted
  <2> QED BY <1>0, <2>0, <2>1, <2>2 DEF Exists
<1>6. ASSUME Serve PROVE Goal
  <2>1. db'.tab = db.tab /\ db'.lock = {} /\ conn' = None /\ gone' = gone
    BY <1>6 DEF Serve, TypeOK, Database
  <2> QED BY <1>0, <2>1 DEF Exists
<1>7. ASSUME Quiet PROVE Goal
  BY <1>0, <1>7 DEF Quiet
<1> QED BY <1>1, <1>2, <1>3, <1>4, <1>5, <1>6, <1>7, StepKinds

-----------------------------------------------------------------------------
(* The theorems *)

\* The inductive invariant, with the order of the loads.
StoreIInv == StoreInv /\ LoadsForward

\* The invariant holds initially.
LEMMA InitStoreInv == Init => StoreIInv
  <1> SUFFICES ASSUME Init PROVE StoreIInv
    OBVIOUS
  <1>0. /\ None \notin Threads /\ Main \in Threads /\ Main \notin Sessions /\ \A t \in Sessions : t \in Threads
        /\ \A t \in Threads : todo[t] = <<>> /\ loaded[t] = <<>> /\ Idle(t)
    BY StoreAssumption DEF Threads, Init, Idle
  <1>1. db = EmptyDb /\ conn = None /\ phase = "down" /\ gone = {}
        /\ db.schema = {} /\ db.recorded = {} /\ db.lock = {} /\ db.tab = [p \in Tables |-> [j \in Jobs |-> {}]]
    BY DEF Init, EmptyDb
  <1>2. TypeOK
    <2>1. todo \in [Threads -> Seq(Statements)] /\ loaded \in [Threads -> Seq(SUBSET Nat)]
      BY EmptySeq DEF Init
    <2> QED BY <2>1, EmptyIsDatabase DEF Init, TypeOK, NoArg
  <1>3. Discipline
    BY <1>0, <1>1 DEF Discipline, WellFormed
  <1>4. "row" \in Tables /\ \A j \in Jobs, p \in Tables : db.tab[p][j] = {}
    BY <1>1, TablesAre
  <1>5. Aggregates
    BY <1>0, <1>1, <1>4 DEF Aggregates, Whole
  <1>6. Numbered /\ LoadsForward
    BY <1>0, <1>1, <1>4 DEF Numbered, LoadsForward
  <1>7. Migrating
    BY <1>0, <1>1 DEF Migrating
  <1>8. Deletions
    BY <1>0, <1>1, <1>4 DEF Deletions, Exists, Creating, At
  <1> QED BY <1>2, <1>3, <1>5, <1>6, <1>7, <1>8 DEF StoreIInv, StoreInv

\* Every step keeps the invariant.
LEMMA StepStoreInv == StoreIInv /\ [Next]_vars => StoreIInv'
  <1>1. ASSUME StoreIInv, Next PROVE StoreIInv'
    BY <1>1, StepTyped, StepDiscipline, StepAggregates, StepNumbered, StepMigrating, StepDeletions
       DEF StoreIInv, StoreInv
  <1>2. ASSUME StoreIInv, UNCHANGED vars PROVE StoreIInv'
    <2>1. TypeOK'
      BY <1>2 DEF vars, StoreIInv, StoreInv, TypeOK
    <2>2. Discipline'
      BY <1>2 DEF vars, StoreIInv, StoreInv, Discipline, Idle
    <2>3. Aggregates'
      BY <1>2 DEF vars, StoreIInv, StoreInv, Aggregates
    <2>4. Numbered' /\ LoadsForward'
      BY <1>2 DEF vars, StoreIInv, StoreInv, Numbered, LoadsForward
    <2>5. Migrating'
      BY <1>2 DEF vars, StoreIInv, StoreInv, Migrating, At, Idle
    <2>6. Deletions'
      BY <1>2 DEF vars, StoreIInv, StoreInv, Deletions, Creating, At
    <2> QED BY <2>1, <2>2, <2>3, <2>4, <2>5, <2>6 DEF StoreIInv, StoreInv
  <1> QED BY <1>1, <1>2

\* StoreInv holds in every reachable state.
THEOREM StoreInvariant == Spec => []StoreIInv
  <1> QED BY InitStoreInv, StepStoreInv, PTL DEF Spec

\* AggregateWhole for every set of jobs and sessions, whatever statements fail
\* and wherever the process dies.
THEOREM AggregatesAreWhole == Spec => []AggregateWhole
  <1>1. ASSUME StoreIInv PROVE AggregateWhole
    <2> SUFFICES ASSUME NEW j \in Jobs, NEW p \in Tables
                 PROVE  db.tab[p][j] = db.tab["row"][j] /\ Cardinality(db.tab[p][j]) <= 1
      BY DEF AggregateWhole
    <2>1. db.tab[p][j] = db.tab["row"][j] /\ \A e, f \in db.tab[p][j] : e = f
      BY <1>1 DEF StoreIInv, StoreInv, Aggregates, Whole
    <2>2. CASE db.tab[p][j] = {}
      BY <2>1, <2>2, FS_EmptySet
    <2>3. CASE db.tab[p][j] # {}
      <3>1. PICK e : e \in db.tab[p][j]
        BY <2>3
      <3>2. db.tab[p][j] = {e}
        BY <2>1, <3>1
      <3>3. Cardinality({e}) = 1
        BY FS_Singleton
      <3> QED BY <2>1, <3>2, <3>3
    <2> QED BY <2>2, <2>3
  <1> QED BY <1>1, StoreInvariant, PTL

\* LoadsForward: no load of a job goes back in time.
THEOREM LoadsAreForward == Spec => []LoadsForward
  <1>1. StoreIInv => LoadsForward
    BY DEF StoreIInv
  <1> QED BY <1>1, StoreInvariant, PTL

\* MigrationsRestartable for every number of migrations, crashes and failures.
THEOREM MigrationsAreRestartable == Spec => []MigrationsRestartable
  <1>1. ASSUME StoreIInv PROVE MigrationsRestartable
    <2>1. Migrating /\ Discipline /\ TypeOK
      BY <1>1 DEF StoreIInv, StoreInv
    <2>2. ASSUME At(Main, "applySql") PROVE arg[Main].edit \notin db.schema
      <3>1. ~Idle(Main) /\ ~At(Main, "readApplied")
        BY <2>2 DEF At, Idle
      <3>2. phase = "migrate"
        BY <2>1, <3>1 DEF Discipline
      <3> QED BY <2>1, <3>1, <3>2 DEF Migrating
    <2> QED BY <2>1, <2>2 DEF Migrating, MigrationsRestartable
  <1> QED BY <1>1, StoreInvariant, PTL

\* DeletionSafe: a deletion never takes a lock or run history of a living job
\* away, and a deleted job stays deleted.
THEOREM DeletionsAreSafe == Spec => DeletionSafe
  <1> DEFINE Safe(j) ==
          /\ j \in db.lock /\ j \notin db'.lock /\ phase = "serve" =>
                \E t \in Sessions : At(t, "release") /\ arg[t].job = j
          /\ j \in db.runs /\ j \notin db'.runs => Exists(db, j) /\ ~Exists(db', j)
          /\ j \in gone => ~Exists(db', j) /\ j \notin db'.lock
  <1>1. ASSUME StoreIInv, StoreIInv', Next, NEW j \in Jobs PROVE Safe(j)
    <2>0. /\ TypeOK /\ Discipline /\ Migrating /\ Deletions /\ Deletions' /\ None \notin Threads
          /\ conn # None => OpenDeletions
      BY <1>1, DeletionsParts, StoreAssumption DEF StoreIInv, StoreInv
    <2>1. j \in gone => ~Exists(db', j) /\ j \notin db'.lock
      <3>1. gone \subseteq gone'
        <4>1. ASSUME NEW t \in Threads, Requests(t) PROVE gone' = gone
          BY <2>0, <4>1, RequestedProgram, RequestFacts
        <4>2. ASSUME NEW t \in Threads, Begin(t) \/ Exec(t) \/ AutoCommit(t) PROVE gone' = gone
          BY <4>2 DEF Begin, Exec, AutoCommit
        <4>3. ASSUME NEW t \in Threads, Commit(t) PROVE gone \subseteq gone'
          BY <4>3 DEF Commit
        <4>4. ASSUME Serve \/ Quiet PROVE gone' = gone
          BY <4>4 DEF Serve, Quiet
        <4> QED BY <1>1, <2>0, <4>1, <4>2, <4>3, <4>4, StepKinds
      <3> QED BY <2>0, <3>1, DeletionsParts
    <2>2. SUFFICES ASSUME ~(db' = db)
                   PROVE /\ j \in db.lock /\ j \notin db'.lock /\ phase = "serve" =>
                              \E t \in Sessions : At(t, "release") /\ arg[t].job = j
                         /\ j \in db.runs /\ j \notin db'.runs => Exists(db, j) /\ ~Exists(db', j)
      BY <2>1
    <2>3. ASSUME NEW t \in Threads, Requests(t) PROVE FALSE
      BY <2>0, <2>2, <2>3, RequestedProgram, RequestFacts
    <2>4. ASSUME NEW t \in Threads, Begin(t) \/ Exec(t) PROVE FALSE
      BY <2>2, <2>4 DEF Begin, Exec
    <2>5. ASSUME Quiet PROVE FALSE
      BY <2>2, <2>5 DEF Quiet
    <2>6. ASSUME NEW t \in Threads, Commit(t)
          PROVE  /\ db'.lock = db.lock
                 /\ j \in db.runs /\ j \notin db'.runs => Exists(db, j) /\ ~Exists(db', j)
      <3>1. conn = t /\ db' = tx /\ ~At(t, "deleteRow") /\ conn # None
        BY <2>0, <2>6, CommitFacts DEF At
      <3> QED BY <2>0, <3>1 DEF OpenDeletions
    <2>7. ASSUME NEW t \in Threads, AutoCommit(t)
          PROVE  /\ j \in db.lock /\ j \notin db'.lock => \E u \in Sessions : At(u, "release") /\ arg[u].job = j
                 /\ db.runs \subseteq db'.runs
      <3>0. /\ db \in Database /\ Head(todo[t]) \in RunStatements /\ ~Idle(t) /\ t \in Sessions
            /\ arg[t] \in [job: Jobs, edit: Nat] /\ db' = Effect(Head(todo[t]), db, arg[t])
        BY <2>0, <2>7, AutoCommitFacts
      <3>1. /\ db.runs \subseteq db'.runs
            /\ db'.lock = IF Head(todo[t]) = "acquire" THEN db.lock \cup {arg[t].job}
                          ELSE IF Head(todo[t]) = "release" THEN db.lock \ {arg[t].job} ELSE db.lock
        BY <3>0, SingleEffect
      <3> QED BY <3>0, <3>1 DEF At, Idle
    <2>8. ASSUME Serve PROVE phase # "serve" /\ db'.runs = db.runs
      BY <2>0, <2>8 DEF Serve, TypeOK, Database
    <2> QED BY <1>1, <2>0, <2>3, <2>4, <2>5, <2>6, <2>7, <2>8, StepKinds
  <1>2. StoreIInv /\ StoreIInv' /\ [Next]_vars => [\A j \in Jobs : Safe(j)]_vars
    BY <1>1
  <1> QED BY <1>2, StoreInvariant, PTL DEF Spec, DeletionSafe
=============================================================================
