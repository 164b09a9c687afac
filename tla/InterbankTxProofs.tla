-------------------------- MODULE InterbankTxProofs --------------------------
(***************************************************************************)
(* Proofs about InterbankTx, for every cap on attempts and every number of *)
(* crashes.                                                                *)
(***************************************************************************)
EXTENDS InterbankTx, SequenceTheorems, TLAPS

-----------------------------------------------------------------------------
(* The programs the drivers can be in the middle of *)

AskProgs    == {<<"reserve", "newtx">>, <<"newtx">>, <<"vote">>, <<"abandon">>, <<"check">>}
PivotProgs  == {<<"pivot", "commit", "settle", "close">>,
                <<"pivot", "settle", "commit", "close">>}
AckProgs    == {<<"ack", "settle", "close">>, <<"ack", "close">>}
PaidProgs   == {<<"settle", "close">>, <<"close">>}
CommitProgs == {<<"commit", "settle", "close">>, <<"settle", "commit", "close">>,
                <<"commit", "close">>} \cup AckProgs \cup PaidProgs
UndoProgs   == {<<"release", "abort", "rollback">>, <<"abort", "rollback">>,
                <<"release", "rollback">>, <<"rollback">>}
AbortProgs  == {<<"abort", "release", "rollback">>} \cup UndoProgs
GiveUpProgs == {<<"release", "rollback", "fail">>, <<"rollback", "fail">>, <<"fail">>}

Programs == {<<>>} \cup AskProgs \cup PivotProgs \cup CommitProgs \cup AbortProgs
                   \cup GiveUpProgs

ReconcilerProgs == {<<>>, <<"check">>, <<"abort", "release", "rollback">>,
                    <<"release", "rollback">>, <<"rollback">>} \cup PaidProgs

(* Which driver runs which. *)
ProgramsOfDrivers ==
    /\ todo \in [Drivers -> Programs]
    /\ todo["reconciler"] \in ReconcilerProgs
    /\ \A d \in Drivers : todo[d] \in GiveUpProgs => d = "cron"

(* The rest of a program. *)
LEMMA Tails ==
    /\ Tail(<<"reserve", "newtx">>) = <<"newtx">>
    /\ Tail(<<"pivot", "commit", "settle", "close">>) = <<"commit", "settle", "close">>
    /\ Tail(<<"pivot", "settle", "commit", "close">>) = <<"settle", "commit", "close">>
    /\ Tail(<<"ack", "settle", "close">>) = <<"settle", "close">>
    /\ Tail(<<"ack", "close">>) = <<"close">>
    /\ Tail(<<"settle", "close">>) = <<"close">>
    /\ Tail(<<"commit", "settle", "close">>) = <<"settle", "close">>
    /\ Tail(<<"settle", "commit", "close">>) = <<"commit", "close">>
    /\ Tail(<<"commit", "close">>) = <<"close">>
    /\ Tail(<<"release", "abort", "rollback">>) = <<"abort", "rollback">>
    /\ Tail(<<"abort", "rollback">>) = <<"rollback">>
    /\ Tail(<<"release", "rollback">>) = <<"rollback">>
    /\ Tail(<<"abort", "release", "rollback">>) = <<"release", "rollback">>
    /\ Tail(<<"release", "rollback", "fail">>) = <<"rollback", "fail">>
    /\ Tail(<<"rollback", "fail">>) = <<"fail">>
    /\ Tail(<<"close">>) = <<>>
    /\ Tail(<<"rollback">>) = <<>>
    /\ Tail(<<"fail">>) = <<>>
    /\ Tail(<<"abandon">>) = <<>>
    /\ Tail(<<"newtx">>) = <<>>
    /\ Tail(<<"vote">>) = <<>>
    /\ Tail(<<"check">>) = <<>>
OBVIOUS

(* A step before a program of one step, ... *)
LEMMA Join2 ==
    ASSUME NEW a, NEW b
    PROVE  <<a>> \o <<b>> = <<a, b>>
<1> DEFINE S == {a, b}
<1>1. <<a>> \in Seq(S) /\ <<b>> \in Seq(S) /\ <<a, b>> \in Seq(S)
  OBVIOUS
<1>2. <<a>> \o <<b>> \in Seq(S) /\ Len(<<a>> \o <<b>>) = 2
  BY <1>1, ConcatProperties
<1>3. \A i \in 1..2 : (<<a>> \o <<b>>)[i] = <<a, b>>[i]
  BY <1>1, ConcatProperties
<1> QED BY <1>1, <1>2, <1>3, SeqEqual

(* ... of two ... *)
LEMMA Join3 ==
    ASSUME NEW a, NEW b, NEW c
    PROVE  <<a>> \o <<b, c>> = <<a, b, c>>
<1> DEFINE S == {a, b, c}
<1>1. <<a>> \in Seq(S) /\ <<b, c>> \in Seq(S) /\ <<a, b, c>> \in Seq(S)
  OBVIOUS
<1>2. <<a>> \o <<b, c>> \in Seq(S) /\ Len(<<a>> \o <<b, c>>) = 3
  BY <1>1, ConcatProperties
<1>3. \A i \in 1..3 : (<<a>> \o <<b, c>>)[i] = <<a, b, c>>[i]
  BY <1>1, ConcatProperties
<1> QED BY <1>1, <1>2, <1>3, SeqEqual

(* ... and of three. *)
LEMMA Join4 ==
    ASSUME NEW a, NEW b, NEW c, NEW e
    PROVE  <<a>> \o <<b, c, e>> = <<a, b, c, e>>
<1> DEFINE S == {a, b, c, e}
<1>1. <<a>> \in Seq(S) /\ <<b, c, e>> \in Seq(S) /\ <<a, b, c, e>> \in Seq(S)
  OBVIOUS
<1>2. <<a>> \o <<b, c, e>> \in Seq(S) /\ Len(<<a>> \o <<b, c, e>>) = 4
  BY <1>1, ConcatProperties
<1>3. \A i \in 1..4 : (<<a>> \o <<b, c, e>>)[i] = <<a, b, c, e>>[i]
  BY <1>1, ConcatProperties
<1> QED BY <1>1, <1>2, <1>3, SeqEqual

(* What comes first. *)
LEMMA Heads ==
    /\ \A a : Head(<<a>>) = a
    /\ \A a, b : Head(<<a, b>>) = a
    /\ \A a, b, c : Head(<<a, b, c>>) = a
    /\ \A a, b, c, e : Head(<<a, b, c, e>>) = a
OBVIOUS

(* The next step tells what program a driver is in. *)
LEMMA ProgramAt ==
    ASSUME NEW p \in Programs, p # <<>>
    PROVE  /\ Head(p) = "reserve" => p = <<"reserve", "newtx">>
           /\ Head(p) = "newtx" => p = <<"newtx">>
           /\ Head(p) = "vote" => p = <<"vote">>
           /\ Head(p) = "abandon" => p = <<"abandon">>
           /\ Head(p) = "check" => p = <<"check">>
           /\ Head(p) = "pivot" => p \in PivotProgs
           /\ Head(p) = "ack" => p \in AckProgs
           /\ Head(p) = "commit" => p \in {<<"commit", "settle", "close">>, <<"commit", "close">>}
           /\ Head(p) = "settle" => p \in {<<"settle", "commit", "close">>, <<"settle", "close">>}
           /\ Head(p) = "close" => p = <<"close">>
           /\ Head(p) = "release" => p \in {<<"release", "abort", "rollback">>,
                                     <<"release", "rollback">>, <<"release", "rollback", "fail">>}
           /\ Head(p) = "abort" => p \in {<<"abort", "rollback">>, <<"abort", "release", "rollback">>}
           /\ Head(p) = "rollback" => p \in {<<"rollback">>, <<"rollback", "fail">>}
           /\ Head(p) = "fail" => p = <<"fail">>
BY Heads DEF Programs, AskProgs, PivotProgs, CommitProgs, AckProgs, PaidProgs,
      UndoProgs,
       AbortProgs, GiveUpProgs

(* A request that is waited for is the only one of its driver, which does  *)
(* nothing else.                                                           *)
Waiting ==
    /\ \A q \in reqs : q.to # Nobody =>
          \/ q.kind = "NEW_TX" /\ todo[q.to] = <<"vote">>
          \/ q.kind = "COMMIT_TX" /\ todo[q.to] \in AckProgs
    /\ \A p, q \in reqs : p.to = q.to /\ p.to # Nobody => p = q

(* Where a step of a program leads. *)
LEMMA NextProgram ==
    ASSUME NEW p \in Programs, p # <<>>
    PROVE  /\ Head(p) = "reserve" => Tail(p) = <<"newtx">>
           /\ Head(p) = "pivot" => Tail(p) \in {<<"commit", "settle", "close">>,
                                               <<"settle", "commit", "close">>}
           /\ Head(p) = "settle" => Tail(p) = IF p = <<"settle", "close">> THEN <<"close">>
                                             ELSE <<"commit", "close">>
           /\ Head(p) = "commit" => <<"ack">> \o Tail(p) \in AckProgs
           /\ Head(p) \in {"close", "fail"} => Tail(p) = <<>>
           /\ Head(p) = "release" =>
                 Tail(p) = CASE p = <<"release", "abort", "rollback">> -> <<"abort", "rollback">>
                             [] p = <<"release", "rollback">> -> <<"rollback">>
                             [] p = <<"release", "rollback", "fail">> -> <<"rollback", "fail">>
           /\ Head(p) = "abort" => Tail(p) = IF p = <<"abort", "rollback">> THEN <<"rollback">>
                                            ELSE <<"release", "rollback">>
           /\ Head(p) = "rollback" => Tail(p) = IF p = <<"rollback">> THEN <<>> ELSE <<"fail">>
<1>1. CASE Head(p) = "reserve"
  BY <1>1, ProgramAt, Tails
<1>2. CASE Head(p) = "pivot"
  BY <1>2, ProgramAt, Tails DEF PivotProgs
<1>3. CASE Head(p) = "settle"
  BY <1>3, ProgramAt, Tails
<1>4. CASE Head(p) = "commit"
  <2>1. CASE p = <<"commit", "close">>
    <3>1. <<"ack">> \o <<"close">> = <<"ack", "close">>
      BY Join2
    <3> QED BY <1>4, <2>1, <3>1, Tails DEF AckProgs
  <2>2. CASE p = <<"commit", "settle", "close">>
    <3>1. <<"ack">> \o <<"settle", "close">> = <<"ack", "settle", "close">>
      BY Join3
    <3> QED BY <1>4, <2>2, <3>1, Tails DEF AckProgs
  <2> QED BY <1>4, <2>1, <2>2, ProgramAt
<1>5. CASE Head(p) \in {"close", "fail"}
  BY <1>5, ProgramAt, Tails
<1>6. CASE Head(p) = "release"
  BY <1>6, ProgramAt, Tails
<1>7. CASE Head(p) = "abort"
  BY <1>7, ProgramAt, Tails
<1>8. CASE Head(p) = "rollback"
  BY <1>8, ProgramAt, Tails
<1> QED BY <1>1, <1>2, <1>3, <1>4, <1>5, <1>6, <1>7, <1>8

(* No program is of two classes. *)
LEMMA Classes ==
    ASSUME NEW p
    PROVE  /\ p \in PivotProgs => /\ p \in Programs
                                 /\ p \notin CommitProgs /\ p \notin AbortProgs
                                 /\ p \notin GiveUpProgs /\ p \notin AskProgs /\ p # <<>>
           /\ p \in CommitProgs => /\ p \in Programs
                                  /\ p \notin AbortProgs /\ p \notin GiveUpProgs
                                  /\ p \notin AskProgs /\ p # <<>>
           /\ p \in AbortProgs => /\ p \in Programs
                                 /\ p \notin GiveUpProgs /\ p \notin AskProgs /\ p # <<>>
           /\ p \in GiveUpProgs => p \in Programs /\ p \notin AskProgs /\ p # <<>>
           /\ p \in AskProgs => p \in Programs /\ p # <<>>
           /\ p \in AckProgs => p \in CommitProgs /\ p \notin PaidProgs
           /\ p \in PaidProgs => p \in CommitProgs
           /\ p \in UndoProgs => p \in AbortProgs
           /\ p = <<>> => p \in Programs
           /\ p = <<"vote">> => p \in AskProgs
BY DEF Programs, AskProgs, PivotProgs, CommitProgs, AckProgs, PaidProgs, UndoProgs,
       AbortProgs, GiveUpProgs

Shape == TypeOK /\ ProgramsOfDrivers /\ Waiting

Request == [kind : Kinds, stage : Stages, to : Drivers \cup {Nobody}]

(* Programs consist of steps. *)
LEMMA ProgramSteps == \A p \in Programs : \A i \in 1..Len(p) : p[i] \in Steps
BY DEF Programs, AskProgs, PivotProgs, CommitProgs, AckProgs, PaidProgs, UndoProgs,
       AbortProgs, GiveUpProgs, Steps

(* The paths the drivers are sent on are such programs. *)
LEMMA Paths ==
    /\ \A d \in Drivers : CommitPath(d) \in CommitProgs
    /\ \A d \in {"inline", "cron"} : VotePath(d) \in PivotProgs
    /\ \A d \in Drivers : AbortPath(d) \in AbortProgs
    /\ AbortPath("reconciler") = <<"abort", "release", "rollback">>
    /\ CommitPath("reconciler") \in PaidProgs
    /\ GiveUpPath \in GiveUpProgs
<1>1. /\ CommitPath("inline") = <<"commit", "settle", "close">>
      /\ CommitPath("cron") = <<"settle", "commit", "close">>
      /\ CommitPath("reconciler") = <<"settle", "close">>
  BY DEF CommitPath
<1>2. /\ VotePath("inline") = <<"pivot", "commit", "settle", "close">>
      /\ VotePath("cron") = <<"pivot", "settle", "commit", "close">>
  <2>1. <<"pivot">> \o <<"commit", "settle", "close">> = <<"pivot", "commit", "settle", "close">>
    BY Join4
  <2>2. <<"pivot">> \o <<"settle", "commit", "close">> = <<"pivot", "settle", "commit", "close">>
    BY Join4
  <2> QED BY <1>1, <2>1, <2>2 DEF VotePath
<1>3. /\ AbortPath("inline") = <<"release", "abort", "rollback">>
      /\ \A d \in {"cron", "reconciler"} : AbortPath(d) = <<"abort", "release", "rollback">>
  BY DEF AbortPath
<1> QED BY <1>1, <1>2, <1>3 DEF GiveUpPath, Drivers, CommitProgs, AckProgs, PaidProgs,
              PivotProgs, AbortProgs, UndoProgs, GiveUpProgs

(* Counting an attempt leaves the status alone. *)
LEMMA AttemptedRow ==
    ASSUME TypeOK, NEW d
    PROVE  /\ Attempted(d) \in [status : {"none", "pending", "committing"} \cup Ended,
                                attempts : 0..MaxAttempts]
           /\ Attempted(d).status = row.status
           /\ row.attempts = MaxAttempts => Attempted(d) = row
BY TxAssumption DEF TypeOK, Attempted

(* A driver that goes on with another program. *)
LEMMA GoesTo ==
    ASSUME ProgramsOfDrivers, NEW d \in Drivers, NEW p, Goes(d, p)
    PROVE  todo'[d] = p /\ \A e \in Drivers : e # d => todo'[e] = todo[e]
BY DEF ProgramsOfDrivers, Goes

(* The answer to a request moves the driver that waits for it, and no      *)
(* other.                                                                  *)
LEMMA AnswerEffect ==
    ASSUME Shape, NEW q \in reqs, NEW a \in {"yes", "no", "ok", "retry", "error"},
           Answer(q, a), a \in {"yes", "no"} => q.kind = "NEW_TX", a = "ok" => q.kind # "NEW_TX"
    PROVE  /\ reqs' = reqs \ {q}
           /\ row' \in [status : {"none", "pending", "committing"} \cup Ended,
                        attempts : 0..MaxAttempts]
           /\ row'.status = row.status
           /\ row.attempts = MaxAttempts => row' = row
           /\ \A d \in Drivers : d # q.to => todo'[d] = todo[d]
           /\ q.to = Nobody => todo' = todo
           /\ q.to # Nobody =>
                 /\ q.to \in {"inline", "cron"}
                 /\ a = "yes" => todo'[q.to] \in PivotProgs
                 /\ a = "no" => todo'[q.to] = AbortPath(q.to)
                 /\ a = "ok" => todo'[q.to] \in PaidProgs /\ todo'[q.to] = Tail(todo[q.to])
                 /\ a \in {"retry", "error"} => todo'[q.to] = <<>>
                 /\ todo' = [todo EXCEPT ![q.to] = todo'[q.to]]
<1>1. q \in Request /\ q.to \in Drivers \cup {Nobody}
  BY DEF Shape, TypeOK, Request
<1>2. CASE q.to = Nobody
  BY <1>2 DEF Answer, Shape, TypeOK, Nobody, Drivers
<1>3. CASE q.to # Nobody
  <2> DEFINE d == q.to
  <2>1. /\ d \in {"inline", "cron"} /\ d \in Drivers
        /\ \/ q.kind = "NEW_TX" /\ todo[d] = <<"vote">>
           \/ q.kind = "COMMIT_TX" /\ todo[d] \in AckProgs
    <3>1. d \in Drivers
      BY <1>1, <1>3
    <3>2. \/ q.kind = "NEW_TX" /\ todo[d] = <<"vote">>
          \/ q.kind = "COMMIT_TX" /\ todo[d] \in AckProgs
      BY <1>3 DEF Shape, Waiting
    <3>3. d # "reconciler"
      BY <3>2 DEF Shape, ProgramsOfDrivers, ReconcilerProgs, PaidProgs, AckProgs
    <3> QED BY <3>1, <3>2, <3>3 DEF Drivers
  <2>2. reqs' = reqs \ {q}
    BY DEF Answer
  <2>3. CASE a = "yes"
    <3>1. Goes(d, VotePath(d)) /\ row' = row
      BY <1>3, <2>3 DEF Answer
    <3>2. todo'[d] = VotePath(d) /\ \A e \in Drivers : e # d => todo'[e] = todo[e]
      BY <2>1, <3>1, GoesTo DEF Shape
    <3>3. todo'[d] \in PivotProgs
      BY <2>1, <3>2, Paths
    <3> QED BY <1>3, <2>1, <2>2, <2>3, <3>1, <3>2, <3>3 DEF Shape, TypeOK, Goes
  <2>4. CASE a = "no"
    <3>1. Goes(d, AbortPath(d)) /\ row' = row
      BY <1>3, <2>4 DEF Answer
    <3>2. todo'[d] = AbortPath(d) /\ \A e \in Drivers : e # d => todo'[e] = todo[e]
      BY <2>1, <3>1, GoesTo DEF Shape
    <3> QED BY <1>3, <2>1, <2>2, <2>4, <3>1, <3>2 DEF Shape, TypeOK, Goes
  <2>5. CASE a = "ok"
    <3>1. Advance(d) /\ row' = row
      BY <1>3, <2>5 DEF Answer
    <3>2. Tail(todo[d]) \in PaidProgs
      <4>1. todo[d] = <<"ack", "settle", "close">> \/ todo[d] = <<"ack", "close">>
        BY <2>1, <2>5 DEF AckProgs
      <4> QED BY <4>1, Tails DEF PaidProgs
    <3> QED BY <1>3, <2>1, <2>2, <2>5, <3>1, <3>2, GoesTo DEF Shape, TypeOK, Advance,
          Goes
  <2>6. CASE a \in {"retry", "error"}
    <3>1. Stop(d) /\ row' = Attempted(d)
      BY <1>3, <2>6 DEF Answer
    <3> QED BY <1>3, <2>1, <2>2, <2>6, <3>1, GoesTo, AttemptedRow DEF Shape, Stop, Goes
  <2> QED BY <2>3, <2>4, <2>5, <2>6
<1> QED BY <1>2, <1>3

(* A driver that waits for no answer is the addressee of no request. *)
LEMMA NotAwaited ==
    ASSUME Shape, NEW d \in Drivers, todo[d] # <<"vote">>, todo[d] \notin AckProgs
    PROVE  \A q \in reqs : q.to # d
<1>1. d # Nobody
  BY DEF Drivers, Nobody
<1> QED BY <1>1 DEF Shape, Waiting

(* Another program for a driver that waits for no answer. *)
LEMMA ShapeGoes ==
    ASSUME Shape, NEW d \in Drivers, NEW p \in Programs, Goes(d, p), reqs' = reqs,
           todo[d] # <<"vote">>, todo[d] \notin AckProgs,
           d = "reconciler" => p \in ReconcilerProgs, p \in GiveUpProgs => d = "cron"
    PROVE  ProgramsOfDrivers' /\ Waiting'
<1>1. todo'[d] = p /\ \A e \in Drivers : e # d => todo'[e] = todo[e]
  BY GoesTo DEF Shape
<1>2. ProgramsOfDrivers'
  <2>1. todo' \in [Drivers -> Programs]
    BY DEF Shape, ProgramsOfDrivers, Goes
  <2>2. "reconciler" \in Drivers
    BY DEF Drivers
  <2> QED BY <1>1, <2>1, <2>2 DEF Shape, ProgramsOfDrivers
<1>3. Waiting'
  <2>1. \A q \in reqs : q.to # d /\ (q.to # Nobody => q.to \in Drivers)
    BY NotAwaited DEF Shape, TypeOK
  <2> QED BY <1>1, <2>1 DEF Shape, Waiting
<1> QED BY <1>2, <1>3

(* The answer to a request leaves the others as they are. *)
LEMMA ShapeAnswer ==
    ASSUME Shape, NEW q \in reqs, NEW a \in {"yes", "no", "ok", "retry", "error"},
           Answer(q, a), a \in {"yes", "no"} => q.kind = "NEW_TX", a = "ok" => q.kind # "NEW_TX"
    PROVE  ProgramsOfDrivers' /\ Waiting'
<1>1. CASE q.to = Nobody
  <2>1. todo' = todo /\ reqs' = reqs \ {q}
    BY <1>1, AnswerEffect
  <2> QED BY <2>1 DEF Shape, ProgramsOfDrivers, Waiting
<1>2. CASE q.to # Nobody
  <2> DEFINE d == q.to
  <2>1. /\ reqs' = reqs \ {q} /\ d \in {"inline", "cron"}
        /\ \A e \in Drivers : e # d => todo'[e] = todo[e]
        /\ todo' = [todo EXCEPT ![d] = todo'[d]]
        /\ todo'[d] \in PivotProgs \cup AbortProgs \cup PaidProgs \cup {<<>>}
    BY <1>2, AnswerEffect, Paths DEF Drivers
  <2>2. todo'[d] \in Programs /\ todo'[d] \notin GiveUpProgs
    BY <2>1, Classes
  <2>3. ProgramsOfDrivers'
    BY <2>1, <2>2 DEF Shape, ProgramsOfDrivers, Drivers
  <2>4. \A p \in reqs' : p \in reqs /\ p.to # d /\ (p.to # Nobody => p.to \in Drivers)
    BY <1>2, <2>1 DEF Shape, Waiting, TypeOK
  <2>5. Waiting'
    BY <2>1, <2>4 DEF Shape, Waiting
  <2> QED BY <2>3, <2>5
<1> QED BY <1>1, <1>2

(* A request that has come further is waited for as before. *)
LEMMA ShapeMoves ==
    ASSUME Shape, NEW q \in reqs, NEW stage \in Stages, MovesTo(q, stage), todo' = todo
    PROVE  /\ reqs' \subseteq Request
           /\ ProgramsOfDrivers' /\ Waiting'
<1>1. PICK r : r = [q EXCEPT !.stage = stage]
  OBVIOUS
<1>2. /\ r \in Request /\ r.to = q.to /\ r.kind = q.kind /\ r.stage = stage
      /\ reqs' = (reqs \ {q}) \cup {r}
  BY <1>1 DEF Shape, TypeOK, Request, MovesTo
<1>3. Waiting'
  BY <1>2 DEF Shape, Waiting
<1> QED BY <1>2, <1>3 DEF Shape, TypeOK, Request, ProgramsOfDrivers

(* The rest of a program is a program of the same driver. *)
LEMMA TailProgram ==
    ASSUME NEW p \in Programs, p # <<>>,
           Head(p) \in {"reserve", "pivot", "settle", "close", "release", "abort",
                       "rollback", "fail"}
    PROVE  /\ Tail(p) \in Programs
           /\ Tail(p) \in GiveUpProgs => p \in GiveUpProgs
           /\ p \in ReconcilerProgs => Tail(p) \in ReconcilerProgs
           /\ p # <<"vote">> /\ p \notin AckProgs
<1> DEFINE Goal == /\ Tail(p) \in Programs
                   /\ Tail(p) \in GiveUpProgs => p \in GiveUpProgs
                   /\ p \in ReconcilerProgs => Tail(p) \in ReconcilerProgs
<1>1. ASSUME p = <<"reserve", "newtx">> PROVE Goal
  BY <1>1, Tails DEF Programs, AskProgs, CommitProgs, AckProgs, PaidProgs, AbortProgs,
        UndoProgs, GiveUpProgs, ReconcilerProgs
<1>2. ASSUME p = <<"pivot", "commit", "settle", "close">> PROVE Goal
  BY <1>2, Tails DEF Programs, AskProgs, CommitProgs, AckProgs, PaidProgs, AbortProgs,
        UndoProgs, GiveUpProgs, ReconcilerProgs
<1>3. ASSUME p = <<"pivot", "settle", "commit", "close">> PROVE Goal
  BY <1>3, Tails DEF Programs, AskProgs, CommitProgs, AckProgs, PaidProgs, AbortProgs,
        UndoProgs, GiveUpProgs, ReconcilerProgs
<1>4. ASSUME p = <<"settle", "commit", "close">> PROVE Goal
  BY <1>4, Tails DEF Programs, AskProgs, CommitProgs, AckProgs, PaidProgs, AbortProgs,
        UndoProgs, GiveUpProgs, ReconcilerProgs
<1>5. ASSUME p = <<"settle", "close">> PROVE Goal
  BY <1>5, Tails DEF Programs, AskProgs, CommitProgs, AckProgs, PaidProgs, AbortProgs,
        UndoProgs, GiveUpProgs, ReconcilerProgs
<1>6. ASSUME p = <<"close">> PROVE Goal
  BY <1>6, Tails DEF Programs, AskProgs, CommitProgs, AckProgs, PaidProgs, AbortProgs,
        UndoProgs, GiveUpProgs, ReconcilerProgs
<1>7. ASSUME p = <<"release", "abort", "rollback">> PROVE Goal
  BY <1>7, Tails DEF Programs, AskProgs, CommitProgs, AckProgs, PaidProgs, AbortProgs,
        UndoProgs, GiveUpProgs, ReconcilerProgs
<1>8. ASSUME p = <<"release", "rollback">> PROVE Goal
  BY <1>8, Tails DEF Programs, AskProgs, CommitProgs, AckProgs, PaidProgs, AbortProgs,
        UndoProgs, GiveUpProgs, ReconcilerProgs
<1>9. ASSUME p = <<"release", "rollback", "fail">> PROVE Goal
  BY <1>9, Tails DEF Programs, AskProgs, CommitProgs, AckProgs, PaidProgs, AbortProgs,
        UndoProgs, GiveUpProgs, ReconcilerProgs
<1>10. ASSUME p = <<"abort", "rollback">> PROVE Goal
  BY <1>10, Tails DEF Programs, AskProgs, CommitProgs, AckProgs, PaidProgs, AbortProgs,
        UndoProgs, GiveUpProgs, ReconcilerProgs
<1>11. ASSUME p = <<"abort", "release", "rollback">> PROVE Goal
  BY <1>11, Tails DEF Programs, AskProgs, CommitProgs, AckProgs, PaidProgs, AbortProgs,
        UndoProgs, GiveUpProgs, ReconcilerProgs
<1>12. ASSUME p = <<"rollback">> PROVE Goal
  BY <1>12, Tails DEF Programs, AskProgs, CommitProgs, AckProgs, PaidProgs, AbortProgs,
        UndoProgs, GiveUpProgs, ReconcilerProgs
<1>13. ASSUME p = <<"rollback", "fail">> PROVE Goal
  BY <1>13, Tails DEF Programs, AskProgs, CommitProgs, AckProgs, PaidProgs, AbortProgs,
        UndoProgs, GiveUpProgs, ReconcilerProgs
<1>14. ASSUME p = <<"fail">> PROVE Goal
  BY <1>14, Tails DEF Programs, AskProgs, CommitProgs, AckProgs, PaidProgs, AbortProgs,
        UndoProgs, GiveUpProgs, ReconcilerProgs
<1>15. p # <<"vote">> /\ p \notin AckProgs
  BY Heads DEF AckProgs
<1>16. Goal
  BY <1>1, <1>2, <1>3, <1>4, <1>5, <1>6, <1>7, <1>8, <1>9, <1>10, <1>11, <1>12, <1>13,
        <1>14, ProgramAt DEF PivotProgs
<1> QED BY <1>15, <1>16

(* The columns other than the programs. *)
Columns ==
    /\ row \in [status : {"none", "pending", "committing"} \cup Ended, attempts : 0..MaxAttempts]
    /\ hold \in {"none", "pending", "settled", "released"}
    /\ rec \in [vote : {"none", "pending", "yes", "no"},
                stamps : SUBSET {"committed", "rolled_back"}]
    /\ inc \in {"none", "pending", "committed", "released"}
    /\ worker \in {"idle", "running", "yes", "no"}
    /\ accepts \in BOOLEAN
    /\ reqs \subseteq Request
    /\ crashes \in 0..MaxCrashes

(* With the programs they make the type. *)
LEMMA ColumnsType ==
    /\ TypeOK => Columns
    /\ Columns' /\ ProgramsOfDrivers' => TypeOK'
    /\ Columns /\ ProgramsOfDrivers => TypeOK
<1>1. TypeOK => Columns
  BY DEF TypeOK, Columns, Request
<1>2. ProgramsOfDrivers => \A d \in Drivers : \A i \in 1..Len(todo[d]) : todo[d][i] \in Steps
  BY ProgramSteps DEF ProgramsOfDrivers
<1>3. ProgramsOfDrivers' => \A d \in Drivers : \A i \in 1..Len(todo'[d]) : todo'[d][i] \in Steps
  BY ProgramSteps DEF ProgramsOfDrivers
<1>4. Columns' /\ ProgramsOfDrivers' => TypeOK'
  BY <1>3 DEF TypeOK, Columns, Request
<1>5. Columns /\ ProgramsOfDrivers => TypeOK
  BY <1>2 DEF TypeOK, Columns, Request
<1> QED BY <1>1, <1>4, <1>5

(* The driver's step keeps the columns and the programs of their kinds and *)
(* the requests attributed.                                                *)
LEMMA ShapeDrive ==
    ASSUME Shape, NEW d \in Drivers, Drive(d)
    PROVE  Shape'
<1> DEFINE p == todo[d]
<1>1. p \in Programs /\ Columns /\ (d = "reconciler" => p \in ReconcilerProgs)
  BY ColumnsType DEF Shape, ProgramsOfDrivers
<1> SUFFICES Columns' /\ ProgramsOfDrivers' /\ Waiting'
  BY ColumnsType DEF Shape
<1>2. Shape => <<>> \in Programs /\ <<>> \in ReconcilerProgs /\ <<>> \notin GiveUpProgs
  BY Classes DEF ReconcilerProgs
<1>3. ASSUME MarkCommitting(d) \/ SettleOutgoing(d) \/ SettleFails(d) \/ MarkCommitted(d)
             \/ ReleaseOutgoing(d) \/ MarkRolledBack(d) \/ MarkFailed(d)
      PROVE  Columns' /\ ProgramsOfDrivers' /\ Waiting'
  <2>1. p # <<>> /\ Head(p) \in {"pivot", "settle", "close", "release", "abort", "fail"}
    BY <1>3 DEF MarkCommitting, SettleOutgoing, SettleFails, MarkCommitted,
          ReleaseOutgoing,
          MarkRolledBack, MarkFailed, At
  <2>2. /\ Tail(p) \in Programs /\ (Tail(p) \in GiveUpProgs => d = "cron")
        /\ (d = "reconciler" => Tail(p) \in ReconcilerProgs)
        /\ p # <<"vote">> /\ p \notin AckProgs
    BY <1>1, <2>1, TailProgram DEF Shape, ProgramsOfDrivers
  <2>3. reqs' = reqs /\ (Goes(d, Tail(p)) \/ Goes(d, <<>>))
    BY <1>3 DEF MarkCommitting, SettleOutgoing, SettleFails, MarkCommitted,
          ReleaseOutgoing,
          MarkRolledBack, MarkFailed, Advance, Stop
  <2>4. ProgramsOfDrivers' /\ Waiting'
    BY <1>2, <2>2, <2>3, ShapeGoes
  <2>5. Columns'
    BY <1>1, <1>3, AttemptedRow DEF MarkCommitting, SettleOutgoing, SettleFails,
          MarkCommitted,
          ReleaseOutgoing, MarkRolledBack, MarkFailed, Columns, Ended, sender, receiver, Shape
  <2> QED BY <2>4, <2>5
<1>4. ASSUME PostNewTx(d) \/ PostCommitTx(d)
      PROVE  Columns' /\ ProgramsOfDrivers' /\ Waiting'
  <2>1. PICK k \in {"NEW_TX", "COMMIT_TX"}, r \in Request :
             /\ r = [kind |-> k, stage |-> "sent", to |-> d] /\ reqs' = reqs \cup {r}
             /\ p # <<>>
             /\ \/ k = "NEW_TX" /\ Head(p) = "newtx" /\ Goes(d, <<"vote">>)
                \/ k = "COMMIT_TX" /\ Head(p) = "commit" /\ Goes(d, <<"ack">> \o Tail(p))
    BY <1>4 DEF PostNewTx, PostCommitTx, Send, At, Request, Kinds, Stages
  <2>2. /\ r.to = d /\ r.kind = k /\ d # Nobody
        /\ p # <<"vote">> /\ p \notin AckProgs /\ d # "reconciler"
        /\ \/ k = "NEW_TX" /\ Goes(d, <<"vote">>)
           \/ k = "COMMIT_TX" /\ <<"ack">> \o Tail(p) \in AckProgs /\ Goes(d, <<"ack">> \o Tail(p))
    <3>1. p # <<"vote">> /\ p \notin AckProgs
      BY <2>1, Heads DEF AckProgs
    <3>2. d # "reconciler"
      BY <1>1, <2>1, Heads DEF ReconcilerProgs, PaidProgs
    <3> QED BY <1>1, <2>1, <3>1, <3>2, NextProgram DEF Drivers, Nobody
  <2>3. /\ k = "NEW_TX" => todo'[d] = <<"vote">>
        /\ k = "COMMIT_TX" => todo'[d] \in AckProgs
        /\ \A e \in Drivers : e # d => todo'[e] = todo[e]
        /\ todo' \in [Drivers -> Programs] /\ todo'[d] \notin GiveUpProgs
    <3>1. PICK v : Goes(d, v) /\ v \in Programs /\ v \notin GiveUpProgs
                   /\ (k = "NEW_TX" => v = <<"vote">>) /\ (k = "COMMIT_TX" => v \in AckProgs)
      BY <2>2, Classes
    <3> QED BY <3>1, GoesTo DEF Goes, Shape, ProgramsOfDrivers
  <2>4. ProgramsOfDrivers'
    BY <2>2, <2>3 DEF Shape, ProgramsOfDrivers, Drivers
  <2>5. \A q \in reqs : q.to # d /\ (q.to # Nobody => q.to \in Drivers)
    BY <2>2, NotAwaited DEF Shape, TypeOK
  <2>6. Waiting'
    <3>1. \A q \in reqs' : \/ q = r
                          \/ /\ q \in reqs /\ q.to # d
                             /\ q.to # Nobody => todo'[q.to] = todo[q.to]
      BY <2>1, <2>3, <2>5
    <3>2. \A q \in reqs' : q.to # Nobody =>
             \/ q.kind = "NEW_TX" /\ todo'[q.to] = <<"vote">>
             \/ q.kind = "COMMIT_TX" /\ todo'[q.to] \in AckProgs
      BY <2>2, <2>3, <3>1 DEF Shape, Waiting
    <3>3. \A q, u \in reqs' : q.to = u.to /\ q.to # Nobody => q = u
      BY <2>2, <3>1 DEF Shape, Waiting
    <3> QED BY <3>2, <3>3 DEF Waiting
  <2>7. r \in Request
    BY <2>1 DEF Request, Kinds, Stages
  <2>8. Columns'
    BY <1>1, <1>4, <2>1, <2>7 DEF PostNewTx, PostCommitTx, sender, receiver, Columns
  <2> QED BY <2>4, <2>6, <2>8
<1>5. ASSUME PostRollbackTx(d) PROVE Columns' /\ ProgramsOfDrivers' /\ Waiting'
  <2>1. PICK r : /\ r = [kind |-> "ROLLBACK_TX", stage |-> "sent", to |-> Nobody]
                 /\ reqs' = reqs \cup {r}
    BY <1>5 DEF PostRollbackTx, Send
  <2>2. r.to = Nobody /\ r \in Request
    BY <2>1 DEF Request, Kinds, Stages
  <2>3. p # <<>> /\ Head(p) = "rollback" /\ Goes(d, Tail(p))
    BY <1>5 DEF PostRollbackTx, At, Advance
  <2>4. /\ Tail(p) \in Programs /\ (Tail(p) \in GiveUpProgs => d = "cron")
        /\ (d = "reconciler" => Tail(p) \in ReconcilerProgs)
        /\ p # <<"vote">> /\ p \notin AckProgs
    BY <1>1, <2>3, TailProgram DEF Shape, ProgramsOfDrivers
  <2>5. todo'[d] = Tail(p) /\ \A e \in Drivers : e # d => todo'[e] = todo[e]
    BY <2>3, GoesTo DEF Shape
  <2>6. ProgramsOfDrivers'
    BY <2>3, <2>4, <2>5 DEF Goes, Shape, ProgramsOfDrivers, Drivers
  <2>7. \A q \in reqs : q.to # d /\ (q.to # Nobody => q.to \in Drivers)
    BY <2>4, NotAwaited DEF Shape, TypeOK
  <2>8. Waiting'
    BY <2>1, <2>2, <2>5, <2>7 DEF Shape, Waiting
  <2>9. Columns'
    BY <1>1, <1>5, <2>1, <2>2 DEF PostRollbackTx, sender, receiver, Columns
  <2> QED BY <2>6, <2>8, <2>9
<1>6. ASSUME Timeout(d) PROVE Columns' /\ ProgramsOfDrivers' /\ Waiting'
  <2>1. /\ reqs' = {[q EXCEPT !.to = IF @ = d THEN Nobody ELSE @] : q \in reqs}
        /\ row' = Attempted(d) /\ Goes(d, <<>>)
    BY <1>6 DEF Timeout, Stop
  <2>2. \A r \in reqs' : /\ r \in Request
                           /\ \/ r.to = Nobody
                              \/ r \in reqs /\ r.to \in Drivers /\ r.to # d
    <3> SUFFICES ASSUME NEW q \in reqs,
                        NEW r, r = [q EXCEPT !.to = IF @ = d THEN Nobody ELSE @]
                 PROVE  /\ r \in Request
                        /\ \/ r.to = Nobody
                           \/ r \in reqs /\ r.to \in Drivers /\ r.to # d
      BY <2>1
    <3>1. q \in Request
      BY DEF Shape, TypeOK, Request
    <3>2. CASE q.to = d
      BY <3>1, <3>2 DEF Request
    <3>3. CASE q.to # d
      <4>1. r = q
        BY <3>1, <3>3 DEF Request
      <4> QED BY <3>1, <3>3, <4>1 DEF Request
    <3> QED BY <3>2, <3>3
  <2>3. todo'[d] = <<>> /\ \A e \in Drivers : e # d => todo'[e] = todo[e]
    BY <2>1, GoesTo DEF Shape
  <2>4. ProgramsOfDrivers'
    BY <1>2, <2>1, <2>3 DEF Goes, Shape, ProgramsOfDrivers, Drivers
  <2>5. Waiting'
    BY <2>2, <2>3 DEF Shape, Waiting
  <2>6. Columns'
    BY <1>1, <1>6, <2>1, <2>2, AttemptedRow DEF Timeout, receiver, Columns, Shape
  <2> QED BY <2>4, <2>5, <2>6
<1> QED BY <1>3, <1>4, <1>5, <1>6 DEF Drive

(* A NEW_TX is answered before anything is applied for it, and nothing     *)
(* runs inline before the row is there.                                    *)
Orderly ==
    /\ \A q \in reqs : q.kind = "NEW_TX" => q.stage \in {"sent", "missed", "waiting"}
    /\ row.status = "none" => todo["inline"] = <<>>

(* An answered request, with the columns of the receiver of their kinds. *)
LEMMA AnswerColumns ==
    ASSUME Shape, NEW q \in reqs, NEW a \in {"yes", "no", "ok", "retry", "error"},
           Answer(q, a), a \in {"yes", "no"} => q.kind = "NEW_TX", a = "ok" => q.kind # "NEW_TX",
           hold' = hold, rec' \in [vote : {"none", "pending", "yes", "no"},
                                  stamps : SUBSET {"committed", "rolled_back"}],
           inc' \in {"none", "pending", "committed", "released"},
           worker' \in {"idle", "running", "yes", "no"}, accepts' = accepts, crashes' = crashes
    PROVE  Shape'
<1>1. Columns
  BY ColumnsType DEF Shape
<1>2. Columns'
  BY <1>1, AnswerEffect DEF Columns
<1> QED BY <1>2, ShapeAnswer, ColumnsType DEF Shape

(* Likewise one that has come further. *)
LEMMA MovesColumns ==
    ASSUME Shape, NEW q \in reqs, NEW stage \in Stages, MovesTo(q, stage), todo' = todo,
           row' = row, hold' = hold, rec' = rec,
           inc' \in {"none", "pending", "committed", "released"},
           worker' \in {"idle", "running", "yes", "no"}, accepts' = accepts, crashes' = crashes
    PROVE  Shape'
<1>1. Columns
  BY ColumnsType DEF Shape
<1>2. Columns'
  BY <1>1, ShapeMoves DEF Columns
<1> QED BY <1>2, ShapeMoves, ColumnsType DEF Shape

(* The receiver's step. *)
LEMMA ShapeHandle ==
    ASSUME Shape, Orderly, NEW q \in reqs, Handle(q)
    PROVE  Shape'
<1>1. Columns /\ q \in Request
  BY ColumnsType DEF Shape, TypeOK, Request
<1> USE DEF receiver, sender, Stages, Columns, Voted
<1>2. CASE HandleNewTx(q)
  <2>1. CASE Voted /\ Answer(q, rec.vote) /\ worker' = worker
    BY <1>1, <1>2, <2>1, AnswerColumns DEF HandleNewTx
  <2>2. CASE Answer(q, "retry") /\ worker' = IF worker = "idle" THEN "running" ELSE worker
    BY <1>1, <1>2, <2>2, AnswerColumns DEF HandleNewTx
  <2>3. CASE MovesTo(q, "missed") /\ UNCHANGED <<row, todo, worker>>
    BY <1>1, <1>2, <2>3, MovesColumns DEF HandleNewTx
  <2> QED BY <1>2, <2>1, <2>2, <2>3 DEF HandleNewTx
<1>3. CASE StartWorker(q)
  BY <1>1, <1>3, MovesColumns DEF StartWorker
<1>4. CASE AnswerNewTx(q)
  <2>1. PICK a \in {"yes", "no", "retry"} : Answer(q, a)
    BY <1>4 DEF AnswerNewTx
  <2> QED BY <1>1, <1>4, <2>1, AnswerColumns DEF AnswerNewTx
<1>5. CASE SyncDeadline(q)
  BY <1>1, <1>5, AnswerColumns DEF SyncDeadline
<1>6. CASE HandleCommitTx(q)
  <2>1. CASE MovesTo(q, "read") /\ UNCHANGED <<row, todo>>
    BY <1>1, <1>6, <2>1, MovesColumns DEF HandleCommitTx
  <2>2. CASE \E a \in {"ok", "error"} : Answer(q, a)
    BY <1>1, <1>6, <2>2, AnswerColumns DEF HandleCommitTx
  <2> QED BY <1>6, <2>1, <2>2 DEF HandleCommitTx
<1>7. CASE CommitIncoming(q)
  <2>1. CASE inc' = inc /\ Answer(q, "error")
    BY <1>1, <1>7, <2>1, AnswerColumns DEF CommitIncoming
  <2>2. CASE inc' = (IF inc = "pending" THEN "committed" ELSE inc) /\ MovesTo(q, "applied")
             /\ UNCHANGED <<row, todo>>
    BY <1>1, <1>7, <2>2, MovesColumns DEF CommitIncoming
  <2> QED BY <1>7, <2>1, <2>2 DEF CommitIncoming
<1>8. CASE HandleRollbackTx(q)
  <2>1. CASE MovesTo(q, "read") /\ UNCHANGED <<row, todo>>
    BY <1>1, <1>8, <2>1, MovesColumns DEF HandleRollbackTx
  <2>2. CASE Answer(q, "ok")
    BY <1>1, <1>8, <2>2, AnswerColumns DEF HandleRollbackTx
  <2> QED BY <1>8, <2>1, <2>2 DEF HandleRollbackTx
<1>9. CASE ReleaseIncoming(q)
  BY <1>1, <1>9, MovesColumns DEF ReleaseIncoming
<1>10. CASE Stamp(q)
  <2>1. q.kind # "NEW_TX"
    BY <1>10 DEF Stamp, Orderly
  <2> QED BY <1>1, <1>10, <2>1, AnswerColumns DEF Stamp
<1>11. CASE RequestFails(q)
  BY <1>1, <1>11, AnswerColumns DEF RequestFails
<1> QED BY <1>2, <1>3, <1>4, <1>5, <1>6, <1>7, <1>8, <1>9, <1>10, <1>11 DEF Handle

(* What a step of the receiver does: to the sender, ... *)
Answers(q) ==
    /\ row'.status = row.status
    /\ row.attempts = MaxAttempts => row'.attempts = MaxAttempts
    /\ \A d \in Drivers : \/ todo'[d] = todo[d]
                          \/ /\ d = q.to /\ (todo[d] = <<"vote">> \/ todo[d] \in AckProgs)
                             /\ \/ todo'[d] = <<>>
                                \/ todo'[d] \in PivotProgs /\ rec.vote = "yes" /\ todo[d] = <<"vote">>
                                \/ todo'[d] = AbortPath(d) /\ rec.vote = "no"
                                      /\ todo[d] = <<"vote">>
                                \/ todo'[d] \in PaidProgs /\ q.kind = "COMMIT_TX"
                                      /\ todo[d] \in AckProgs /\ todo'[d] = Tail(todo[d])
                                      /\ (q.stage = "applied" \/ rec.stamps # {})

(* ... to the reservation, the record and the worker, ... *)
Records(q) ==
    /\ hold' = hold /\ accepts' = accepts
    /\ \/ inc' = inc
       \/ inc = "pending" /\ inc' = "committed" /\ q.kind = "COMMIT_TX"
       \/ inc = "pending" /\ inc' = "released" /\ q.kind = "ROLLBACK_TX"
    /\ rec'.vote = rec.vote \/ rec'.vote = "pending"
    /\ \/ rec'.stamps = rec.stamps
       \/ /\ rec'.stamps = rec.stamps \cup {"committed"}
          /\ q.kind = "COMMIT_TX" /\ q.stage = "applied" /\ inc' = inc
       \/ rec'.stamps = rec.stamps \cup {"rolled_back"} /\ q.kind = "ROLLBACK_TX"
    /\ worker' = worker \/ worker' = "running"

(* ... and to the requests. *)
Requests(q) ==
    \A r \in reqs' : \/ r \in reqs
                     \/ /\ r.kind = q.kind
                        /\ r.kind = "NEW_TX" => r.stage \in {"missed", "waiting"}
                        /\ r.kind = "COMMIT_TX" =>
                              \/ r.stage = "read" /\ rec.vote = "yes" /\ inc' = inc
                              \/ /\ q.stage = "read" /\ inc # "released"
                                 /\ inc' = IF inc = "pending" THEN "committed" ELSE inc

(* An answer does that to the sender. *)
LEMMA AnswerAnswers ==
    ASSUME Shape, NEW q \in reqs, NEW a \in {"yes", "no", "ok", "retry", "error"},
           Answer(q, a), a \in {"yes", "no"} => q.kind = "NEW_TX" /\ rec.vote = a,
           a = "ok" => \/ q.kind = "ROLLBACK_TX"
                       \/ q.kind = "COMMIT_TX" /\ (q.stage = "applied" \/ rec.stamps # {})
    PROVE  Answers(q) /\ reqs' \subseteq reqs
<1>1. /\ reqs' = reqs \ {q}
      /\ row'.status = row.status
      /\ row.attempts = MaxAttempts => row' = row
      /\ \A d \in Drivers : d # q.to => todo'[d] = todo[d]
      /\ q.to = Nobody => todo' = todo
      /\ q.to # Nobody =>
            /\ a = "yes" => todo'[q.to] \in PivotProgs
            /\ a = "no" => todo'[q.to] = AbortPath(q.to)
            /\ a = "ok" => todo'[q.to] \in PaidProgs /\ todo'[q.to] = Tail(todo[q.to])
            /\ a \in {"retry", "error"} => todo'[q.to] = <<>>
  BY AnswerEffect
<1>2. q.to # Nobody => \/ q.kind = "NEW_TX" /\ todo[q.to] = <<"vote">>
                       \/ q.kind = "COMMIT_TX" /\ todo[q.to] \in AckProgs
  BY DEF Shape, Waiting
<1>3. ASSUME NEW d \in Drivers, todo'[d] # todo[d]
      PROVE  /\ d = q.to /\ (todo[d] = <<"vote">> \/ todo[d] \in AckProgs)
             /\ \/ todo'[d] = <<>>
                \/ todo'[d] \in PivotProgs /\ rec.vote = "yes" /\ todo[d] = <<"vote">>
                \/ todo'[d] = AbortPath(d) /\ rec.vote = "no" /\ todo[d] = <<"vote">>
                \/ todo'[d] \in PaidProgs /\ q.kind = "COMMIT_TX"
                      /\ todo[d] \in AckProgs /\ todo'[d] = Tail(todo[d])
                      /\ (q.stage = "applied" \/ rec.stamps # {})
  <2>1. d = q.to /\ q.to # Nobody
    BY <1>1, <1>3
  <2> QED BY <1>1, <1>2, <2>1
<1> QED BY <1>1, <1>3 DEF Answers

(* Every step of the receiver is of that kind. *)
LEMMA HandleEffect ==
    ASSUME Shape, Orderly, NEW q \in reqs, Handle(q)
    PROVE  Answers(q) /\ Records(q) /\ Requests(q)
<1>1. Columns /\ q \in Request
  BY ColumnsType DEF Shape, TypeOK, Request
<1>2. ASSUME UNCHANGED <<row, todo>> PROVE Answers(q)
  BY <1>2 DEF Answers
<1>3. ASSUME NEW st, MovesTo(q, st)
      PROVE  \A r \in reqs' : r \in reqs \/ (r.kind = q.kind /\ r.stage = st)
  BY <1>1, <1>3 DEF MovesTo, Request
<1>4. ASSUME reqs' \subseteq reqs PROVE Requests(q)
  BY <1>4 DEF Requests
<1>5. CASE HandleNewTx(q)
  <2>1. Records(q) /\ q.kind = "NEW_TX"
    BY <1>5 DEF HandleNewTx, Records
  <2>2. CASE Voted /\ Answer(q, rec.vote)
    BY <1>4, <2>1, <2>2, AnswerAnswers DEF Voted
  <2>3. CASE Answer(q, "retry")
    BY <1>4, <2>1, <2>3, AnswerAnswers
  <2>4. CASE MovesTo(q, "missed") /\ UNCHANGED <<row, todo, worker>>
    BY <1>2, <1>3, <2>1, <2>4 DEF Requests
  <2> QED BY <1>5, <2>2, <2>3, <2>4 DEF HandleNewTx
<1>6. CASE StartWorker(q)
  <2>1. Records(q) /\ q.kind = "NEW_TX" /\ MovesTo(q, "waiting") /\ UNCHANGED <<row, todo>>
    BY <1>6 DEF StartWorker, Records, sender
  <2> QED BY <1>2, <1>3, <2>1 DEF Requests
<1>7. CASE AnswerNewTx(q)
  <2>1. Records(q) /\ q.kind = "NEW_TX"
    BY <1>7 DEF AnswerNewTx, Records, receiver
  <2>2. CASE Voted
    BY <1>4, <1>7, <2>1, <2>2, AnswerAnswers DEF AnswerNewTx, Voted
  <2>3. CASE ~Voted
    BY <1>4, <1>7, <2>1, <2>3, AnswerAnswers DEF AnswerNewTx
  <2> QED BY <2>2, <2>3
<1>8. CASE SyncDeadline(q)
  <2>1. Records(q) /\ Answer(q, "retry")
    BY <1>1, <1>8 DEF SyncDeadline, Records, Columns
  <2> QED BY <1>4, <2>1, AnswerAnswers
<1>9. CASE HandleCommitTx(q)
  <2>1. Records(q) /\ q.kind = "COMMIT_TX" /\ inc' = inc
    BY <1>9 DEF HandleCommitTx, Records, receiver
  <2>2. CASE rec.vote = "yes" /\ rec.stamps = {}
    <3>1. MovesTo(q, "read") /\ UNCHANGED <<row, todo>>
      BY <1>9, <2>2 DEF HandleCommitTx
    <3> QED BY <1>2, <1>3, <2>1, <2>2, <3>1 DEF Requests
  <2>3. CASE rec.vote = "yes" /\ rec.stamps # {}
    BY <1>4, <1>9, <2>1, <2>3, AnswerAnswers DEF HandleCommitTx
  <2>4. CASE rec.vote # "yes"
    BY <1>4, <1>9, <2>1, <2>4, AnswerAnswers DEF HandleCommitTx
  <2> QED BY <2>2, <2>3, <2>4
<1>10. CASE CommitIncoming(q)
  <2>1. Records(q) /\ q.kind = "COMMIT_TX" /\ q.stage = "read"
    BY <1>1, <1>10 DEF CommitIncoming, Records, Columns
  <2>2. CASE inc = "released"
    BY <1>4, <1>10, <2>1, <2>2, AnswerAnswers DEF CommitIncoming
  <2>3. CASE inc # "released"
    <3>1. /\ MovesTo(q, "applied") /\ UNCHANGED <<row, todo>>
          /\ inc' = IF inc = "pending" THEN "committed" ELSE inc
      BY <1>10, <2>3 DEF CommitIncoming
    <3> QED BY <1>2, <1>3, <2>1, <2>3, <3>1 DEF Requests
  <2> QED BY <2>2, <2>3
<1>11. CASE HandleRollbackTx(q)
  <2>1. Records(q) /\ q.kind = "ROLLBACK_TX"
    BY <1>11 DEF HandleRollbackTx, Records, receiver
  <2>2. CASE MovesTo(q, "read") /\ UNCHANGED <<row, todo>>
    BY <1>2, <1>3, <2>1, <2>2 DEF Requests
  <2>3. CASE Answer(q, "ok")
    BY <1>4, <2>1, <2>3, AnswerAnswers
  <2> QED BY <1>11, <2>2, <2>3 DEF HandleRollbackTx
<1>12. CASE ReleaseIncoming(q)
  <2>1. /\ Records(q) /\ q.kind = "ROLLBACK_TX" /\ MovesTo(q, "applied")
        /\ UNCHANGED <<row, todo>>
    BY <1>1, <1>12 DEF ReleaseIncoming, Records, sender, Columns
  <2> QED BY <1>2, <1>3, <2>1 DEF Requests
<1>13. CASE Stamp(q)
  <2>1. q.kind \in {"COMMIT_TX", "ROLLBACK_TX"} /\ q.stage = "applied" /\ Answer(q, "ok")
    BY <1>1, <1>13 DEF Stamp, Orderly, Request, Kinds
  <2>2. Records(q)
    BY <1>1, <1>13, <2>1 DEF Stamp, Records, Columns
  <2> QED BY <1>4, <2>1, <2>2, AnswerAnswers
<1>14. CASE RequestFails(q)
  <2>1. Records(q) /\ Answer(q, "error")
    BY <1>14 DEF RequestFails, Records, receiver
  <2> QED BY <1>4, <2>1, AnswerAnswers
<1> QED BY <1>5, <1>6, <1>7, <1>8, <1>9, <1>10, <1>11, <1>12, <1>13, <1>14 DEF Handle

(* A step of any kind. *)
LEMMA ShapeStep ==
    ASSUME Shape, Orderly, [Next]_vars
    PROVE  Shape'
<1>1. Columns /\ ProgramsOfDrivers /\ Waiting /\ Drivers = {"inline", "cron", "reconciler"}
      /\ \A d \in Drivers : todo[d] \in Programs
  BY ColumnsType DEF Shape, ProgramsOfDrivers, Drivers
<1>2. ASSUME Columns', ProgramsOfDrivers', Waiting' PROVE Shape'
  BY <1>2, ColumnsType DEF Shape
<1>3. /\ <<>> \in Programs /\ <<>> \in ReconcilerProgs /\ <<>> \notin GiveUpProgs
      /\ <<>> # <<"vote">> /\ <<>> \notin AckProgs
  BY Classes DEF ReconcilerProgs
<1>4. CASE Inline
  <2>1. Columns' /\ reqs' = reqs
    BY <1>1, <1>4, TxAssumption DEF Inline, InitiateOutboundTx, ReserveOutgoing,
          ReserveFails,
          Abandon, Columns, Ended, receiver
  <2>2. PICK p : Goes("inline", p) /\ p \in {<<"reserve", "newtx">>, <<"newtx">>, <<"abandon">>, <<>>}
    <3>1. ASSUME ReserveOutgoing PROVE Goes("inline", <<"newtx">>)
      BY <1>1, <3>1, NextProgram DEF ReserveOutgoing, Advance, At
    <3> QED BY <1>4, <3>1 DEF Inline, InitiateOutboundTx, ReserveFails, Abandon, Stop
  <2>3. todo["inline"] # <<"vote">> /\ todo["inline"] \notin AckProgs
    <3>1. CASE InitiateOutboundTx
      BY <1>3, <3>1 DEF InitiateOutboundTx, Orderly
    <3>2. CASE At("inline", "reserve") \/ At("inline", "abandon")
      BY <3>2, Heads DEF At, AckProgs
    <3> QED BY <1>4, <3>1, <3>2 DEF Inline, ReserveOutgoing, ReserveFails, Abandon
  <2>4. p \in Programs /\ p \notin GiveUpProgs
    BY <1>3, <2>2, Classes DEF AskProgs
  <2>5. ProgramsOfDrivers' /\ Waiting'
    BY <1>1, <2>1, <2>2, <2>3, <2>4, ShapeGoes
  <2> QED BY <1>2, <2>1, <2>5
<1>5. CASE CronTick
  <2>1. CronPlan \in Programs
    BY Paths, Classes DEF CronPlan, Drivers, AskProgs
  <2>2. Columns' /\ reqs' = reqs /\ Goes("cron", CronPlan) /\ todo["cron"] = <<>>
    BY <1>1, <1>5 DEF CronTick, Resumable, Columns, sender, receiver
  <2>3. ProgramsOfDrivers' /\ Waiting'
    BY <1>1, <1>3, <2>1, <2>2, ShapeGoes
  <2> QED BY <1>2, <2>2, <2>3
<1>6. CASE ReconcilerTick
  <2>1. <<"check">> \in Programs /\ <<"check">> \in ReconcilerProgs /\ <<"check">> \notin GiveUpProgs
    BY Classes DEF AskProgs, ReconcilerProgs
  <2>2. /\ Columns' /\ reqs' = reqs /\ Goes("reconciler", <<"check">>)
        /\ todo["reconciler"] = <<>>
    BY <1>1, <1>6 DEF ReconcilerTick, Resumable, Columns, sender, receiver
  <2>3. ProgramsOfDrivers' /\ Waiting'
    BY <1>1, <1>3, <2>1, <2>2, ShapeGoes
  <2> QED BY <1>2, <2>2, <2>3
<1>7. CASE CheckStatus
  <2>1. Columns' /\ reqs' = reqs
    BY <1>1, <1>7 DEF CheckStatus, Columns, sender, receiver
  <2>2. PICK p : /\ Goes("reconciler", p)
                 /\ p \in {CommitPath("reconciler"), AbortPath("reconciler"), <<>>}
    <3>1. ReceiverState \in {"unknown", "rolled_back", "committed", "prepared"}
      BY DEF ReceiverState
    <3> QED BY <1>7, <3>1 DEF CheckStatus, Stop
  <2>3. p \in Programs /\ p \in ReconcilerProgs /\ p \notin GiveUpProgs
    BY <1>3, <2>2, Paths, Classes DEF ReconcilerProgs, Drivers
  <2>4. todo["reconciler"] # <<"vote">> /\ todo["reconciler"] \notin AckProgs
    BY <1>7, Heads DEF CheckStatus, At, AckProgs
  <2>5. ProgramsOfDrivers' /\ Waiting'
    BY <1>1, <2>1, <2>2, <2>3, <2>4, ShapeGoes
  <2> QED BY <1>2, <2>1, <2>5
<1>8. CASE SweepHold \/ Worker \/ AccountChanges \/ UNCHANGED vars
  <2>1. Columns' /\ reqs' = reqs /\ todo' = todo
    <3>1. CASE SweepHold
      BY <1>1, <3>1 DEF SweepHold, Columns, receiver
    <3>2. CASE Worker
      BY <1>1, <3>2 DEF Worker, WorkerReserve, WorkerCache, WorkerAborts, Columns,
            sender
    <3>3. CASE AccountChanges
      BY <1>1, <3>3 DEF AccountChanges, Columns, sender, receiver
    <3>4. CASE UNCHANGED vars
      BY <1>1, <3>4 DEF vars, Columns
    <3> QED BY <1>8, <3>1, <3>2, <3>3, <3>4
  <2>2. ProgramsOfDrivers' /\ Waiting'
    BY <1>1, <2>1 DEF ProgramsOfDrivers, Waiting
  <2> QED BY <1>2, <2>1, <2>2
<1>9. CASE Crash
  <2>1. /\ todo' = [d \in Drivers |-> <<>>]
        /\ reqs' = {[q EXCEPT !.to = Nobody] : q \in reqs}
        /\ crashes' \in 0..MaxCrashes
        /\ UNCHANGED <<row, hold, rec, inc, worker, accepts>>
    BY <1>1, <1>9, TxAssumption DEF Crash, Columns, sender, receiver
  <2>2. \A r \in reqs' : r \in Request /\ r.to = Nobody
    BY <1>1, <2>1 DEF Columns, Request
  <2>3. Columns'
    BY <1>1, <2>1, <2>2 DEF Columns
  <2>4. ProgramsOfDrivers'
    BY <1>1, <1>3, <2>1 DEF ProgramsOfDrivers
  <2>5. Waiting'
    BY <2>2 DEF Waiting
  <2> QED BY <1>2, <2>3, <2>4, <2>5
<1> QED BY <1>4, <1>5, <1>6, <1>7, <1>8, <1>9, ShapeDrive, ShapeHandle DEF Next, Crons

(* The order of a NEW_TX and of the row is kept. *)
LEMMA OrderlyStep ==
    ASSUME Shape, Orderly, [Next]_vars
    PROVE  Orderly'
<1>1. /\ Columns /\ Drivers = {"inline", "cron", "reconciler"}
      /\ \A d \in Drivers : todo[d] \in Programs
  BY ColumnsType DEF Shape, ProgramsOfDrivers, Drivers
<1> DEFINE InOrder(q) == q.kind = "NEW_TX" => q.stage \in {"sent", "missed", "waiting"}
<1>2. \A q \in reqs : q \in Request /\ InOrder(q)
  BY <1>1 DEF Orderly, Columns
<1>3. ASSUME reqs' = reqs, row' = row, todo'["inline"] = todo["inline"] PROVE Orderly'
  BY <1>3 DEF Orderly
<1>4. CASE Inline
  <2>1. reqs' = reqs /\ row'.status # "none"
    BY <1>1, <1>4 DEF Inline, InitiateOutboundTx, ReserveOutgoing, ReserveFails,
          Abandon,
          At, Orderly, Columns
  <2> QED BY <1>2, <2>1 DEF Orderly
<1>5. CASE CronTick \/ ReconcilerTick \/ CheckStatus
  <2>1. /\ UNCHANGED <<reqs, row>>
        /\ \E e \in {"cron", "reconciler"} : \E v : Goes(e, v)
    BY <1>5 DEF CronTick, ReconcilerTick, CheckStatus, Stop, sender
  <2>2. todo'["inline"] = todo["inline"]
    BY <1>1, <2>1, GoesTo DEF Shape
  <2> QED BY <1>3, <2>1, <2>2
<1>6. CASE SweepHold \/ Worker \/ AccountChanges \/ UNCHANGED vars
  <2>1. UNCHANGED <<reqs, row, todo>>
    BY <1>6 DEF SweepHold, Worker, WorkerReserve, WorkerCache, WorkerAborts,
          AccountChanges,
          vars, sender
  <2> QED BY <1>3, <2>1
<1>7. CASE Crash
  <2>1. todo'["inline"] = <<>> /\ reqs' = {[q EXCEPT !.to = Nobody] : q \in reqs}
    BY <1>1, <1>7 DEF Crash
  <2>2. \A r \in reqs' : InOrder(r)
    BY <1>2, <2>1 DEF Request
  <2> QED BY <2>1, <2>2 DEF Orderly
<1>8. ASSUME NEW d \in Drivers, Drive(d) PROVE Orderly'
  <2>1. todo[d] # <<>> /\ \E v : Goes(d, v)
    BY <1>8 DEF Drive, PostNewTx, PostCommitTx, PostRollbackTx, Timeout, MarkCommitting,
          SettleOutgoing, SettleFails, MarkCommitted, ReleaseOutgoing, MarkRolledBack,
          MarkFailed, At, Advance, Stop
  <2>2. \A e \in Drivers : e # d => todo'[e] = todo[e]
    BY <2>1, GoesTo DEF Shape
  <2>3. row'.status = "none" => row.status = "none"
    BY <1>1, <1>8, AttemptedRow DEF Drive, PostNewTx, PostCommitTx, PostRollbackTx,
          Timeout,
          MarkCommitting, SettleOutgoing, SettleFails, MarkCommitted, ReleaseOutgoing,
          MarkRolledBack, MarkFailed, Columns, sender, Shape
  <2>4. row'.status = "none" => todo'["inline"] = <<>>
    BY <1>1, <2>1, <2>2, <2>3 DEF Orderly
  <2>5. \A r \in reqs' : InOrder(r)
    <3>1. CASE Timeout(d)
      BY <1>2, <3>1 DEF Timeout, Request
    <3>2. CASE PostNewTx(d) \/ PostCommitTx(d) \/ PostRollbackTx(d)
      <4>1. \A r \in reqs' : r \in reqs \/ r.stage = "sent"
        BY <3>2 DEF PostNewTx, PostCommitTx, PostRollbackTx, Send
      <4> QED BY <1>2, <4>1
    <3>3. CASE reqs' = reqs
      BY <1>2, <3>3
    <3> QED BY <1>8, <3>1, <3>2, <3>3 DEF Drive, MarkCommitting, SettleOutgoing,
          SettleFails,
              MarkCommitted, ReleaseOutgoing, MarkRolledBack, MarkFailed
  <2> QED BY <2>4, <2>5 DEF Orderly
<1>9. ASSUME NEW q \in reqs, Handle(q) PROVE Orderly'
  <2>1. Answers(q) /\ Requests(q)
    BY <1>9, HandleEffect
  <2>2. \A r \in reqs' : InOrder(r)
    BY <1>2, <2>1 DEF Requests
  <2>3. row'.status = "none" => todo'["inline"] = <<>>
    BY <1>1, <2>1, Classes DEF Answers, Orderly
  <2> QED BY <2>2, <2>3 DEF Orderly
<1> QED BY <1>4, <1>5, <1>6, <1>7, <1>8, <1>9 DEF Next, Crons

(* Initially nothing is under way. *)
LEMMA ShapeInit == Init => Shape /\ Orderly
<1> SUFFICES ASSUME Init PROVE Shape /\ Orderly
  OBVIOUS
<1>1. Columns
  BY TxAssumption DEF Init, Columns
<1>2. <<>> \in Programs /\ <<>> \in ReconcilerProgs /\ <<>> \notin GiveUpProgs
  BY Classes DEF ReconcilerProgs
<1>3. ProgramsOfDrivers
  BY <1>2 DEF Init, ProgramsOfDrivers, Drivers
<1>4. Waiting /\ Orderly
  BY DEF Init, Waiting, Orderly, Drivers
<1> QED BY <1>1, <1>3, <1>4, ColumnsType DEF Shape

(* Rows, records, requests and programs stay of their kinds in every       *)
(* reachable state: the inline call, the replay cron and the reconciler    *)
(* are always in the middle of one of their programs, and a driver waits   *)
(* for at most one request.                                                *)
THEOREM TypeCorrect == Spec => []TypeOK
<1>1. Init => Shape /\ Orderly
  BY ShapeInit
<1>2. Shape /\ Orderly /\ [Next]_vars => (Shape /\ Orderly)'
  BY ShapeStep, OrderlyStep
<1>3. Shape => TypeOK
  BY DEF Shape
<1> QED BY <1>1, <1>2, <1>3, PTL DEF Spec

-----------------------------------------------------------------------------
(* Votes that do not change *)

Stable == "flaky" \notin Faults

Decided == row.status \in {"committing", "committed"}

(* The row says so, or nobody is left who could pass the pivot: the inline *)
(* call has ended, the attempts are used up and the cron only gives up.    *)
Doomed ==
    \/ row.status \in {"rolled_back", "failed"}
    \/ /\ row.status = "pending" /\ row.attempts = MaxAttempts
       /\ todo["inline"] = <<>> /\ todo["cron"] \in GiveUpProgs \cup {<<>>}

Void == ~accepts \/ Doomed

(* What a driver's program says of the payment. *)
Follows(d) ==
    /\ todo[d] \in PivotProgs => accepts
    /\ todo[d] \in CommitProgs => Decided
    /\ todo[d] \in PaidProgs => inc = "committed"
    /\ todo[d] \in UndoProgs => Void
    /\ todo[d] \in AbortProgs /\ d # "reconciler" => ~accepts
    /\ todo[d] \in GiveUpProgs => Doomed

ProgramsFollow == \A d \in Drivers : Follows(d)

(* What a request on its way says of it. *)
RequestsFollow ==
    \A q \in reqs :
        /\ q.kind = "COMMIT_TX" =>
              /\ Decided
              /\ q.stage \in {"read", "applied"} => inc # "none"
              /\ q.stage = "applied" => inc = "committed"
        /\ q.kind = "ROLLBACK_TX" => Void

(* What the receiver's record, its worker and the reservation say. *)
RecordFollows ==
    /\ "yes" \in {rec.vote, worker} => accepts /\ inc # "none"
    /\ "no" \in {rec.vote, worker} => ~accepts
    /\ "committed" \in rec.stamps => inc = "committed"
    /\ "rolled_back" \in rec.stamps => Void
    /\ inc # "none" => accepts
    /\ inc = "released" => Doomed
    /\ inc = "committed" \/ hold = "settled" => Decided

RowFollows ==
    /\ Decided => accepts
    /\ row.status = "committed" => inc = "committed"

StableInv ==
    /\ Shape /\ Orderly
    /\ ProgramsFollow /\ RequestsFollow /\ RecordFollows /\ RowFollows

(* A step of the sender changes the status of the row as its programs say. *)
LEMMA StatusDrive ==
    ASSUME StableInv, NEW d \in Drivers, Drive(d)
    PROVE  /\ Decided => Decided'
           /\ Doomed => Doomed'
           /\ Decided' => Decided \/ (todo[d] \in PivotProgs /\ ~Doomed)
           /\ row'.status = "none" => row.status = "none"
           /\ \A e \in Drivers : e # d => todo'[e] = todo[e]
           /\ row'.status = "committed" => row.status = "committed" \/ todo[d] = <<"close">>
           /\ todo[d] # <<>>
<1> DEFINE p == todo[d]
<1>1. p \in Programs /\ Columns /\ Follows(d) /\ Shape
  BY ColumnsType DEF StableInv, Shape, ProgramsOfDrivers, ProgramsFollow
<1>2. p # <<>> /\ \A e \in Drivers : e # d => todo'[e] = todo[e]
  <2>1. p # <<>> /\ \E v : Goes(d, v)
    BY DEF Drive, PostNewTx, PostCommitTx, PostRollbackTx, Timeout, MarkCommitting,
          SettleOutgoing, SettleFails, MarkCommitted, ReleaseOutgoing, MarkRolledBack,
          MarkFailed, At, Advance, Stop
  <2> QED BY <1>1, <2>1, GoesTo DEF Shape
<1> SUFFICES /\ Decided => Decided'
             /\ Doomed => Doomed'
             /\ Decided' => Decided \/ (p \in PivotProgs /\ ~Doomed)
             /\ row'.status = "none" => row.status = "none"
             /\ row'.status = "committed" => row.status = "committed" \/ p = <<"close">>
  BY <1>2
<1>3. ASSUME Doomed, row.status = "pending"
      PROVE  /\ row.attempts = MaxAttempts /\ todo["inline"] = <<>>
             /\ todo["cron"] \in GiveUpProgs \cup {<<>>} /\ d # "inline"
             /\ d = "cron" => p \in GiveUpProgs
             /\ d # "cron" => todo'["cron"] = todo["cron"]
             /\ todo'["inline"] = <<>>
  BY <1>2, <1>3 DEF Doomed, Drivers
<1>4. CASE PostNewTx(d) \/ PostCommitTx(d) \/ Timeout(d) \/ SettleOutgoing(d) \/ SettleFails(d)
  <2>1. row'.status = row.status /\ (row.attempts = MaxAttempts => row' = row)
    BY <1>1, <1>4, AttemptedRow DEF Shape, PostNewTx, PostCommitTx, Timeout,
          SettleOutgoing,
          SettleFails, sender
  <2>2. p \notin GiveUpProgs
    BY <1>4, Heads DEF PostNewTx, PostCommitTx, Timeout, SettleOutgoing, SettleFails,
          At,
          GiveUpProgs
  <2>3. Doomed => Doomed'
    BY <1>3, <2>1, <2>2 DEF Doomed
  <2>4. Decided' <=> Decided
    BY <2>1 DEF Decided
  <2> QED BY <2>1, <2>3, <2>4
<1>5. CASE PostRollbackTx(d) \/ ReleaseOutgoing(d)
  <2>1. row'.status = row.status /\ (row.attempts = MaxAttempts => row' = row)
    BY <1>1, <1>5, AttemptedRow DEF Shape, PostRollbackTx, ReleaseOutgoing, sender
  <2>2. ASSUME d = "cron", p \in GiveUpProgs PROVE todo'["cron"] \in GiveUpProgs
    <3>1. Goes(d, Tail(p)) /\ Head(p) \in {"release", "rollback"}
      BY <1>5, <2>2 DEF PostRollbackTx, ReleaseOutgoing, Advance, At
    <3>2. p = <<"release", "rollback", "fail">> \/ p = <<"rollback", "fail">>
      BY <2>2, <3>1, Heads DEF GiveUpProgs
    <3> QED BY <1>1, <2>2, <3>1, <3>2, GoesTo, Tails DEF Shape, GiveUpProgs
  <2>3. Doomed => Doomed'
    BY <1>3, <2>1, <2>2 DEF Doomed
  <2>4. Decided' <=> Decided
    BY <2>1 DEF Decided
  <2> QED BY <2>1, <2>3, <2>4
<1>6. CASE MarkCommitting(d)
  <2>1. p \in PivotProgs /\ p \notin GiveUpProgs
    BY <1>1, <1>6, ProgramAt, Classes DEF MarkCommitting, At
  <2>2. d # "reconciler"
    BY <2>1 DEF StableInv, Shape, ProgramsOfDrivers, ReconcilerProgs, PaidProgs,
          PivotProgs
  <2>3. Doomed => row.status # "pending"
    BY <1>3, <2>1, <2>2 DEF Drivers
  <2>4. /\ row.status \in {"pending", "committing"} => row'.status = "committing"
        /\ row.status \notin {"pending", "committing"} => row' = row
    BY <1>1, <1>6 DEF MarkCommitting, Columns
  <2> QED BY <2>1, <2>3, <2>4 DEF Doomed, Decided
<1>7. CASE MarkCommitted(d)
  <2>1. p = <<"close">> /\ p \in CommitProgs
    BY <1>1, <1>7, ProgramAt DEF MarkCommitted, At, CommitProgs, PaidProgs
  <2>2. Decided
    BY <1>1, <2>1 DEF Follows
  <2>3. row'.status = "committed"
    BY <1>1, <1>7, <2>2 DEF MarkCommitted, Columns, Decided
  <2> QED BY <2>1, <2>2, <2>3 DEF Doomed, Decided
<1>8. CASE MarkRolledBack(d)
  <2>1. row' = row \/ (row.status = "pending" /\ row'.status = "rolled_back")
    <3>1. CASE row.status = "pending"
      BY <1>1, <1>8, <3>1 DEF MarkRolledBack, Columns
    <3>2. CASE row.status # "pending"
      BY <1>8, <3>2 DEF MarkRolledBack
    <3> QED BY <3>1, <3>2
  <2>2. p \notin GiveUpProgs
    BY <1>8, Heads DEF MarkRolledBack, At, GiveUpProgs
  <2> QED BY <1>3, <2>1, <2>2 DEF Doomed, Decided
<1>9. CASE MarkFailed(d)
  <2>1. p \in GiveUpProgs
    BY <1>1, <1>9, ProgramAt DEF MarkFailed, At, GiveUpProgs
  <2>2. Doomed /\ row'.status = "failed"
    BY <1>1, <1>9, <2>1 DEF Follows, MarkFailed, Columns
  <2> QED BY <2>2 DEF Doomed, Decided
<1> QED BY <1>4, <1>5, <1>6, <1>7, <1>8, <1>9 DEF Drive

(* A status that does not change, and drivers that at most come to rest or *)
(* give up, leave a decision and a doom in place.                          *)
LEMMA StatusKept ==
    ASSUME row'.status = row.status, row.attempts = MaxAttempts => row'.attempts = MaxAttempts,
           Doomed /\ row.status = "pending" =>
              todo'["inline"] = <<>> /\ todo'["cron"] \in GiveUpProgs \cup {<<>>}
    PROVE  (Decided' <=> Decided) /\ (Doomed => Doomed')
BY DEF Decided, Doomed

(* What no step takes back, and what the new facts of a step rest on. *)
Grows ==
    /\ accepts' = accepts
    /\ Decided => Decided'
    /\ Doomed => Doomed'
    /\ Decided' => accepts
    /\ inc # "none" => inc' # "none"
    /\ inc' # "none" => inc # "none" \/ accepts
    /\ inc = "committed" => inc' = "committed"
    /\ inc' = "committed" => inc = "committed" \/ Decided
    /\ inc' = "released" => inc = "released" \/ Doomed
    /\ hold' = "settled" => hold = "settled" \/ Decided
    /\ row'.status = "committed" => row.status = "committed" \/ inc = "committed"

(* Every step is of that kind. *)
LEMMA GrowsStep ==
    ASSUME Stable, StableInv, [Next]_vars
    PROVE  Grows
<1>1. /\ Columns /\ Shape /\ Orderly /\ RecordFollows /\ RowFollows /\ RequestsFollow
      /\ \A d \in Drivers : todo[d] \in Programs /\ Follows(d)
      /\ "inline" \in Drivers /\ "cron" \in Drivers /\ "reconciler" \in Drivers
  BY ColumnsType DEF StableInv, Shape, ProgramsOfDrivers, ProgramsFollow, Drivers
<1>2. CASE Inline
  <2>2. CASE InitiateOutboundTx
    BY <1>1, <2>2 DEF InitiateOutboundTx, receiver, Grows, Decided, Doomed,
          RowFollows, Columns
  <2>3. CASE Abandon
    <3>1. row' = row \/ (row.status = "pending" /\ row'.status = "rolled_back")
      BY <1>1, <2>3 DEF Abandon, Columns
    <3>2. todo["inline"] # <<>>
      BY <2>3 DEF Abandon, At
    <3> QED BY <1>1, <2>3, <3>1, <3>2 DEF Abandon, receiver, Grows, Decided, Doomed,
          RowFollows
  <2>4. CASE ReserveOutgoing \/ ReserveFails
    <3>1. row' = row /\ todo["inline"] # <<>> /\ hold' # "settled" /\ UNCHANGED <<inc, accepts>>
      BY <2>4 DEF ReserveOutgoing, ReserveFails, At, receiver
    <3> QED BY <1>1, <3>1 DEF Grows, Decided, Doomed, RowFollows
  <2> QED BY <1>2, <2>2, <2>3, <2>4 DEF Inline
<1>3. CASE CronTick
  <2>1. /\ UNCHANGED <<row, hold, inc, accepts>> /\ todo'["inline"] = todo["inline"]
        /\ todo'["cron"] = CronPlan
    BY <1>1, <1>3, GoesTo DEF CronTick, sender, receiver, Shape, Drivers
  <2>2. ASSUME row.status = "pending", row.attempts = MaxAttempts PROVE CronPlan \in GiveUpProgs
    BY <2>2, Paths, TxAssumption DEF CronPlan
  <2>3. (Decided' <=> Decided) /\ (Doomed => Doomed')
    BY <2>1, <2>2, StatusKept DEF Doomed
  <2> QED BY <1>1, <2>1, <2>3 DEF Grows, RowFollows
<1>4. CASE ReconcilerTick \/ CheckStatus
  <2>1. UNCHANGED <<row, hold, inc, accepts>> /\ \E v : Goes("reconciler", v)
    BY <1>4 DEF ReconcilerTick, CheckStatus, Stop, sender, receiver
  <2>2. todo'["inline"] = todo["inline"] /\ todo'["cron"] = todo["cron"]
    BY <1>1, <2>1, GoesTo DEF Shape
  <2> QED BY <1>1, <2>1, <2>2 DEF Grows, RowFollows, Decided, Doomed
<1>5. CASE SweepHold \/ Worker \/ UNCHANGED vars
  <2>1. /\ UNCHANGED <<row, accepts, todo>> /\ (hold' = hold \/ hold' = "released")
        /\ inc' = inc \/ (accepts /\ inc = "none" /\ inc' = "pending")
    BY <1>5 DEF SweepHold, Worker, WorkerReserve, WorkerCache, WorkerAborts, vars,
          sender, receiver
  <2> QED BY <1>1, <2>1 DEF Grows, RowFollows, Decided, Doomed
<1>6. CASE AccountChanges
  BY <1>6 DEF AccountChanges, Stable
<1>7. CASE Crash
  <2>1. UNCHANGED <<row, hold, inc, accepts>> /\ todo'["inline"] = <<>> /\ todo'["cron"] = <<>>
    BY <1>1, <1>7 DEF Crash, sender, receiver
  <2> QED BY <1>1, <2>1 DEF Grows, RowFollows, Decided, Doomed
<1>8. ASSUME NEW d \in Drivers, Drive(d) PROVE Grows
  <2>1. UNCHANGED <<inc, accepts>> /\ (hold' = "settled" => hold = "settled" \/ Decided)
    <3>1. ASSUME At(d, "settle") PROVE Decided
      <4>1. todo[d] \in CommitProgs
        BY <1>1, <3>1, ProgramAt DEF At, CommitProgs, PaidProgs
      <4> QED BY <1>1, <4>1 DEF Follows
    <3> QED BY <1>8, <3>1 DEF Drive, PostNewTx, PostCommitTx, PostRollbackTx, Timeout,
              MarkCommitting, SettleOutgoing, SettleFails, MarkCommitted, ReleaseOutgoing,
              MarkRolledBack, MarkFailed, sender, receiver
  <2>2. /\ Decided => Decided'
        /\ Doomed => Doomed'
        /\ Decided' => Decided \/ todo[d] \in PivotProgs
        /\ row'.status = "committed" => row.status = "committed" \/ todo[d] = <<"close">>
    BY <1>8, StatusDrive
  <2>3. todo[d] = <<"close">> => inc = "committed"
    BY <1>1 DEF Follows, PaidProgs
  <2>4. todo[d] \in PivotProgs => accepts
    BY <1>1 DEF Follows
  <2> QED BY <1>1, <2>1, <2>2, <2>3, <2>4 DEF Grows, RowFollows
<1>9. ASSUME NEW q \in reqs, Handle(q) PROVE Grows
  <2>1. Answers(q) /\ Records(q)
    BY <1>1, <1>9, HandleEffect
  <2>2. ASSUME NEW d \in {"inline", "cron"}, Doomed, row.status = "pending"
        PROVE  todo'[d] = todo[d]
    <3>1. todo[d] \in GiveUpProgs \cup {<<>>}
      BY <2>2 DEF Doomed
    <3>2. todo[d] # <<"vote">> /\ todo[d] \notin AckProgs
      BY <3>1, Classes
    <3> QED BY <1>1, <2>1, <3>2 DEF Answers
  <2>3. (Decided' <=> Decided) /\ (Doomed => Doomed')
    BY <2>1, <2>2, StatusKept DEF Answers, Doomed
  <2>4. q.kind = "COMMIT_TX" => Decided
    BY <1>1 DEF RequestsFollow
  <2>5. q.kind = "ROLLBACK_TX" /\ inc = "pending" => Doomed
    BY <1>1 DEF RequestsFollow, Void, RecordFollows
  <2> QED BY <1>1, <2>1, <2>3, <2>4, <2>5 DEF Answers, Records, Grows, RowFollows
<1> QED BY <1>2, <1>3, <1>4, <1>5, <1>6, <1>7, <1>8, <1>9 DEF Next, Crons

(* A program that has not moved says what it said. *)
LEMMA FollowsKept ==
    ASSUME Grows, NEW d \in Drivers, Follows(d), todo'[d] = todo[d]
    PROVE  Follows(d)'
BY DEF Grows, Follows, Void

(* Asking, and having ended, say nothing. *)
LEMMA FollowsAsking ==
    ASSUME NEW d \in Drivers, todo'[d] \in AskProgs \cup {<<>>}
    PROVE  Follows(d)'
BY Classes DEF Follows

(* What the drivers do follows from what they knew. *)
LEMMA FollowsDrive ==
    ASSUME StableInv, Grows, NEW d \in Drivers, Drive(d)
    PROVE  ProgramsFollow'
<1> DEFINE p == todo[d]
<1>1. p \in Programs /\ Columns /\ Shape /\ \A e \in Drivers : Follows(e)
  BY ColumnsType DEF StableInv, Shape, ProgramsOfDrivers, ProgramsFollow
<1>2. p # <<>> /\ \A e \in Drivers : e # d => todo'[e] = todo[e]
  BY StatusDrive
<1>3. \A e \in Drivers : e # d => Follows(e)'
  BY <1>1, <1>2, FollowsKept
<1>4. SUFFICES Follows(d)'
  BY <1>3 DEF ProgramsFollow
<1>5. \A v : Goes(d, v) => todo'[d] = v
  BY <1>1, GoesTo DEF Shape
<1>6. ASSUME Goes(d, <<>>) PROVE Follows(d)'
  BY <1>5, <1>6, FollowsAsking
<1>7. /\ Decided => Decided'
      /\ Void => Void'
      /\ Doomed => Doomed'
      /\ inc = "committed" => inc' = "committed"
      /\ accepts' = accepts
  BY DEF Grows, Void
<1>8. CASE PostNewTx(d)
  BY <1>5, <1>8, FollowsAsking DEF PostNewTx, AskProgs
<1>9. CASE PostCommitTx(d)
  <2>1. Goes(d, <<"ack">> \o Tail(p)) /\ Head(p) = "commit"
    BY <1>9 DEF PostCommitTx, At
  <2>2. todo'[d] \in AckProgs /\ p \in CommitProgs
    BY <1>1, <1>2, <1>5, <2>1, ProgramAt, NextProgram DEF CommitProgs
  <2> QED BY <1>1, <1>7, <2>2, Classes DEF Follows
<1>10. CASE PostRollbackTx(d)
  <2>1. Head(p) = "rollback" /\ todo'[d] = Tail(p)
    BY <1>5, <1>10 DEF PostRollbackTx, At, Advance
  <2>2. \/ p = <<"rollback">> /\ todo'[d] = <<>>
        \/ p \in GiveUpProgs /\ todo'[d] = <<"fail">>
    BY <1>1, <1>2, <2>1, ProgramAt, Tails DEF GiveUpProgs
  <2>3. CASE todo'[d] = <<>>
    BY <2>3, FollowsAsking
  <2>4. CASE p \in GiveUpProgs /\ todo'[d] = <<"fail">>
    <3>1. todo'[d] \in GiveUpProgs
      BY <2>4 DEF GiveUpProgs
    <3> QED BY <1>1, <1>7, <2>4, <3>1, Classes DEF Follows
  <2> QED BY <2>2, <2>3, <2>4
<1>11. CASE Timeout(d) \/ SettleFails(d)
  BY <1>6, <1>11 DEF Timeout, SettleFails, Stop
<1>12. CASE MarkCommitting(d)
  <2>1. Head(p) = "pivot"
    BY <1>12 DEF MarkCommitting, At
  <2>2. CASE row.status \in {"pending", "committing"}
    <3>1. Decided' /\ todo'[d] = Tail(p)
      BY <1>1, <1>5, <1>12, <2>2 DEF MarkCommitting, Advance, Decided, Columns
    <3>2. todo'[d] \in {<<"commit", "settle", "close">>, <<"settle", "commit", "close">>}
      BY <1>1, <1>2, <2>1, <3>1, NextProgram
    <3>3. todo'[d] \in CommitProgs /\ todo'[d] \notin PaidProgs
      BY <3>2 DEF CommitProgs, PaidProgs
    <3> QED BY <3>1, <3>3, Classes DEF Follows
  <2>3. CASE row.status \notin {"pending", "committing"}
    BY <1>6, <1>12, <2>3 DEF MarkCommitting, Stop
  <2> QED BY <2>2, <2>3
<1>13. CASE SettleOutgoing(d)
  <2>1. Head(p) = "settle" /\ todo'[d] = Tail(p)
    BY <1>5, <1>13 DEF SettleOutgoing, At, Advance
  <2>2. \/ p = <<"settle", "close">> /\ todo'[d] = <<"close">>
        \/ p = <<"settle", "commit", "close">> /\ todo'[d] = <<"commit", "close">>
    BY <1>1, <1>2, <2>1, ProgramAt, Tails
  <2>3. /\ p \in CommitProgs /\ todo'[d] \in CommitProgs
        /\ todo'[d] \in PaidProgs => p \in PaidProgs
    BY <2>2 DEF CommitProgs, PaidProgs
  <2> QED BY <1>1, <1>7, <2>3, Classes DEF Follows
<1>14. CASE MarkCommitted(d) \/ MarkFailed(d)
  <2>1. Head(p) \in {"close", "fail"} /\ todo'[d] = Tail(p)
    BY <1>5, <1>14 DEF MarkCommitted, MarkFailed, At, Advance
  <2>2. todo'[d] = <<>>
    BY <1>1, <1>2, <2>1, NextProgram
  <2> QED BY <2>2, FollowsAsking
<1>15. CASE ReleaseOutgoing(d)
  <2>1. Head(p) = "release" /\ (todo'[d] = Tail(p) \/ Goes(d, <<>>))
    BY <1>5, <1>15 DEF ReleaseOutgoing, At, Advance, Stop
  <2>2. CASE todo'[d] = Tail(p)
    <3>1. \/ p = <<"release", "abort", "rollback">> /\ todo'[d] = <<"abort", "rollback">>
          \/ p = <<"release", "rollback">> /\ todo'[d] = <<"rollback">>
          \/ p = <<"release", "rollback", "fail">> /\ todo'[d] = <<"rollback", "fail">>
      BY ZenonT(40), <1>1, <1>2, <2>1, <2>2, ProgramAt, Tails
    <3>2. \/ p \in UndoProgs /\ todo'[d] \in UndoProgs
          \/ p \in GiveUpProgs /\ todo'[d] \in GiveUpProgs
      BY <3>1 DEF UndoProgs, GiveUpProgs
    <3> QED BY <1>1, <1>7, <3>2, Classes DEF Follows
  <2> QED BY <1>6, <2>1, <2>2
<1>16. CASE MarkRolledBack(d)
  <2>1. Head(p) = "abort"
    BY <1>16 DEF MarkRolledBack, At
  <2>2. \/ p = <<"abort", "rollback">> /\ Tail(p) = <<"rollback">>
        \/ p = <<"abort", "release", "rollback">> /\ Tail(p) = <<"release", "rollback">>
    BY <1>1, <1>2, <2>1, ProgramAt, Tails
  <2>3. p \in AbortProgs /\ Tail(p) \in UndoProgs
    BY <2>2 DEF AbortProgs, UndoProgs
  <2>4. ASSUME todo'[d] = Tail(p), Void' PROVE Follows(d)'
    BY <1>1, <1>7, <2>3, <2>4, Classes DEF Follows
  <2>5. CASE row.status = "pending"
    <3>1. row'.status = "rolled_back" /\ todo'[d] = Tail(p)
      BY <1>1, <1>5, <1>16, <2>5 DEF MarkRolledBack, Advance, Columns
    <3> QED BY <2>4, <3>1 DEF Void, Doomed
  <2>6. CASE row.status # "pending" /\ d = "inline"
    <3>1. todo'[d] = Tail(p)
      BY <1>5, <1>16, <2>6 DEF MarkRolledBack, Advance
    <3>2. Void
      BY <1>1, <2>3, <2>6 DEF Follows, Void
    <3> QED BY <1>7, <2>4, <3>1, <3>2
  <2>7. CASE row.status # "pending" /\ d # "inline"
    BY <1>6, <1>16, <2>7 DEF MarkRolledBack, Stop
  <2> QED BY <2>5, <2>6, <2>7
<1> QED BY <1>8, <1>9, <1>10, <1>11, <1>12, <1>13, <1>14, <1>15, <1>16 DEF Drive

(* What the answers tell the drivers is so. *)
LEMMA FollowsHandle ==
    ASSUME StableInv, Grows, NEW q \in reqs, Answers(q)
    PROVE  ProgramsFollow'
<1>1. Columns /\ \A e \in Drivers : Follows(e)
  BY ColumnsType DEF StableInv, Shape, ProgramsFollow
<1>2. SUFFICES ASSUME NEW d \in Drivers PROVE Follows(d)'
  BY DEF ProgramsFollow
<1>3. CASE todo'[d] = todo[d]
  BY <1>1, <1>3, FollowsKept
<1>4. CASE todo'[d] = <<>>
  BY <1>4, FollowsAsking
<1>5. CASE todo'[d] \in PivotProgs /\ rec.vote = "yes"
  <2>1. accepts'
    BY <1>5 DEF StableInv, RecordFollows, Grows
  <2> QED BY <1>5, <2>1, Classes DEF Follows
<1>6. CASE todo'[d] = AbortPath(d) /\ rec.vote = "no"
  <2>1. ~accepts' /\ todo'[d] \in AbortProgs
    BY <1>6, Paths DEF StableInv, RecordFollows, Grows
  <2> QED BY <2>1, Classes DEF Follows, Void
<1>7. CASE todo'[d] \in PaidProgs /\ q.kind = "COMMIT_TX"
           /\ (q.stage = "applied" \/ rec.stamps # {})
  <2>1. Decided /\ accepts /\ ~Void
    BY <1>7 DEF StableInv, RequestsFollow, RowFollows, Void, Doomed, Decided
  <2>2. inc = "committed"
    <3>1. CASE q.stage = "applied"
      BY <1>7, <3>1 DEF StableInv, RequestsFollow
    <3>2. CASE rec.stamps # {}
      <4>1. "committed" \in rec.stamps
        BY <1>1, <2>1, <3>2 DEF StableInv, RecordFollows, Columns
      <4> QED BY <4>1 DEF StableInv, RecordFollows
    <3> QED BY <1>7, <3>1, <3>2
  <2>3. Decided' /\ inc' = "committed"
    BY <2>1, <2>2 DEF Grows
  <2> QED BY <1>7, <2>3, Classes DEF Follows
<1> QED BY <1>3, <1>4, <1>5, <1>6, <1>7 DEF Answers

(* Every step leaves the drivers with programs that follow. *)
LEMMA FollowsStep ==
    ASSUME StableInv, Grows, [Next]_vars
    PROVE  ProgramsFollow'
<1>1. /\ Columns /\ Shape /\ Orderly /\ Drivers = {"inline", "cron", "reconciler"}
      /\ \A e \in Drivers : Follows(e) /\ todo[e] \in Programs
  BY ColumnsType DEF StableInv, Shape, ProgramsOfDrivers, ProgramsFollow, Drivers
<1>2. ASSUME NEW d \in Drivers, NEW p, Goes(d, p), todo'[d] = p => Follows(d)'
      PROVE  ProgramsFollow'
  <2>1. todo'[d] = p /\ \A e \in Drivers : e # d => todo'[e] = todo[e]
    BY <1>1, <1>2, GoesTo DEF Shape
  <2> QED BY <1>1, <1>2, <2>1, FollowsKept DEF ProgramsFollow
<1>3. CASE Inline
  <2>1. ASSUME ReserveOutgoing PROVE Goes("inline", <<"newtx">>)
    BY <1>1, <2>1, NextProgram DEF ReserveOutgoing, Advance, At
  <2>2. PICK p : Goes("inline", p) /\ p \in AskProgs \cup {<<>>}
    BY <1>3, <2>1 DEF Inline, InitiateOutboundTx, ReserveFails, Abandon, Stop, AskProgs
  <2> QED BY <1>1, <1>2, <2>2, FollowsAsking
<1>4. CASE CronTick
  <2>1. /\ Goes("cron", CronPlan) /\ row' = row /\ row.status \in {"pending", "committing"}
        /\ CronPlan = GiveUpPath => todo["inline"] = <<>>
    BY <1>4 DEF CronTick, Resumable, sender
  <2>2. ASSUME todo'["cron"] = CronPlan PROVE Follows("cron")'
    <3>1. CASE row.status = "committing"
      <4>1. todo'["cron"] = <<"settle", "commit", "close">> /\ Decided'
        BY <2>1, <2>2, <3>1 DEF CronPlan, CommitPath, Decided
      <4>2. todo'["cron"] \in CommitProgs /\ todo'["cron"] \notin PaidProgs
        BY <4>1 DEF CommitProgs, PaidProgs
      <4> QED BY <4>1, <4>2, Classes DEF Follows
    <3>2. CASE row.status # "committing" /\ row.attempts >= MaxAttempts
      <4>1. CronPlan = GiveUpPath /\ row.status = "pending" /\ row.attempts = MaxAttempts
        BY <1>1, <2>1, <3>2, TxAssumption DEF CronPlan, Columns
      <4>2. todo'["cron"] \in GiveUpProgs /\ todo'["inline"] = <<>>
        BY <1>1, <2>1, <2>2, <4>1, Paths, GoesTo DEF Shape
      <4>3. Doomed'
        BY <2>1, <4>1, <4>2 DEF Doomed
      <4> QED BY <4>2, <4>3, Classes DEF Follows
    <3>3. CASE row.status # "committing" /\ ~(row.attempts >= MaxAttempts)
      BY <1>1, <2>2, <3>3, FollowsAsking DEF CronPlan, AskProgs
    <3> QED BY <3>1, <3>2, <3>3
  <2> QED BY <1>1, <1>2, <2>1, <2>2
<1>5. CASE ReconcilerTick
  BY <1>1, <1>2, <1>5, FollowsAsking DEF ReconcilerTick, AskProgs
<1>6. CASE CheckStatus
  <2>1. PICK p : /\ Goes("reconciler", p)
                 /\ \/ p = <<>>
                    \/ p = AbortPath("reconciler")
                    \/ p = CommitPath("reconciler") /\ "committed" \in rec.stamps
    <3>1. /\ ReceiverState \in {"unknown", "rolled_back", "committed", "prepared"}
          /\ ReceiverState = "committed" => "committed" \in rec.stamps
      BY DEF ReceiverState
    <3>2. CASE Stop("reconciler")
      BY <3>2 DEF Stop
    <3>3. CASE Goes("reconciler", CommitPath("reconciler")) /\ ReceiverState = "committed"
      BY <3>1, <3>3
    <3>4. CASE \/ Goes("reconciler", AbortPath("reconciler"))
               \/ Goes("reconciler", <<>>)
      BY <3>4
    <3> QED BY <1>6, <3>1, <3>2, <3>3, <3>4 DEF CheckStatus
  <2>2. CASE p = <<>>
    BY <1>1, <1>2, <2>1, <2>2, FollowsAsking
  <2>3. CASE p = AbortPath("reconciler")
    <3>1. p \in AbortProgs /\ p \notin UndoProgs
      BY <2>3, Paths DEF AbortProgs, UndoProgs
    <3>2. todo'["reconciler"] = p => Follows("reconciler")'
      BY <3>1, Classes DEF Follows
    <3> QED BY <1>1, <1>2, <2>1, <3>2
  <2>4. CASE p = CommitPath("reconciler") /\ "committed" \in rec.stamps
    <3>1. inc' = "committed" /\ Decided'
      BY <2>4 DEF StableInv, RecordFollows, Grows
    <3>2. p \in PaidProgs
      BY <2>4, Paths
    <3>3. todo'["reconciler"] = p => Follows("reconciler")'
      BY <3>1, <3>2, Classes DEF Follows
    <3> QED BY <1>1, <1>2, <2>1, <3>3
  <2> QED BY <2>1, <2>2, <2>3, <2>4
<1>7. CASE SweepHold \/ Worker \/ AccountChanges \/ UNCHANGED vars
  <2>1. todo' = todo
    BY <1>7 DEF SweepHold, Worker, WorkerReserve, WorkerCache, WorkerAborts,
          AccountChanges, vars
  <2> QED BY <1>1, <2>1, FollowsKept DEF ProgramsFollow
<1>8. CASE Crash
  BY <1>8, FollowsAsking DEF Crash, ProgramsFollow
<1>9. ASSUME NEW q \in reqs, Handle(q) PROVE ProgramsFollow'
  BY <1>1, <1>9, HandleEffect, FollowsHandle
<1> QED BY <1>3, <1>4, <1>5, <1>6, <1>7, <1>8, <1>9, FollowsDrive DEF Next, Crons

(* A request of the kind and at the point of an earlier one says no more,  *)
(* and a new COMMIT_TX or ROLLBACK_TX follows from its sender's program.   *)
LEMMA RequestsStep ==
    ASSUME StableInv, Grows, [Next]_vars
    PROVE  RequestsFollow'
<1>1. /\ Columns /\ Shape /\ Orderly /\ RequestsFollow
      /\ \A e \in Drivers : Follows(e) /\ todo[e] \in Programs
  BY ColumnsType DEF StableInv, Shape, ProgramsOfDrivers, ProgramsFollow
<1> DEFINE Says(r) == /\ r.kind = "COMMIT_TX" =>
                            /\ Decided'
                            /\ r.stage \in {"read", "applied"} => inc' # "none"
                            /\ r.stage = "applied" => inc' = "committed"
                      /\ r.kind = "ROLLBACK_TX" => Void'
<1>2. SUFFICES \A r \in reqs' : Says(r)
  BY DEF RequestsFollow
<1>3. /\ Decided => Decided'
      /\ Void => Void'
      /\ inc # "none" => inc' # "none"
      /\ inc = "committed" => inc' = "committed"
  BY DEF Grows, Void
<1>4. ASSUME NEW q \in reqs, NEW r, r.kind = q.kind, r.stage = q.stage PROVE Says(r)
  BY <1>1, <1>3, <1>4 DEF RequestsFollow
<1>5. CASE reqs' = reqs
  BY <1>4, <1>5
<1>6. CASE Crash
  <2> SUFFICES ASSUME NEW q \in reqs, NEW r, r = [q EXCEPT !.to = Nobody] PROVE Says(r)
    BY <1>6 DEF Crash
  <2>1. r.kind = q.kind /\ r.stage = q.stage
    BY <1>1 DEF Columns, Request
  <2> QED BY <1>4, <2>1
<1>7. ASSUME NEW d \in Drivers, Drive(d) PROVE \A r \in reqs' : Says(r)
  <2> DEFINE p == todo[d]
  <2>1. CASE Timeout(d)
    <3> SUFFICES ASSUME NEW q \in reqs, NEW r,
                        r = [q EXCEPT !.to = IF @ = d THEN Nobody ELSE @]
                 PROVE  Says(r)
      BY <2>1 DEF Timeout
    <3>1. r.kind = q.kind /\ r.stage = q.stage
      BY <1>1 DEF Columns, Request
    <3> QED BY <1>4, <3>1
  <2>2. CASE PostNewTx(d)
    <3>1. \A r \in reqs' : r \in reqs \/ r.kind = "NEW_TX"
      BY <2>2 DEF PostNewTx, Send
    <3> QED BY <1>4, <3>1
  <2>3. CASE PostCommitTx(d)
    <3>1. p # <<>> /\ Head(p) = "commit"
      BY <2>3 DEF PostCommitTx, At
    <3>2. p \in CommitProgs
      BY <1>1, <3>1, ProgramAt DEF CommitProgs
    <3>3. Decided'
      BY <1>1, <1>3, <3>2 DEF Follows
    <3>4. \A r \in reqs' : r \in reqs \/ (r.kind = "COMMIT_TX" /\ r.stage = "sent")
      BY <2>3 DEF PostCommitTx, Send
    <3> QED BY <1>4, <3>3, <3>4
  <2>4. CASE PostRollbackTx(d)
    <3>1. p # <<>> /\ Head(p) = "rollback"
      BY <2>4 DEF PostRollbackTx, At
    <3>2. p \in UndoProgs \/ p \in GiveUpProgs
      BY <1>1, <3>1, ProgramAt DEF UndoProgs, GiveUpProgs
    <3>3. Void'
      BY <1>1, <1>3, <3>2 DEF Follows, Void
    <3>4. \A r \in reqs' : r \in reqs \/ r.kind = "ROLLBACK_TX"
      BY <2>4 DEF PostRollbackTx, Send
    <3> QED BY <1>4, <3>3, <3>4
  <2> QED BY <1>5, <1>7, <2>1, <2>2, <2>3, <2>4 DEF Drive, MarkCommitting,
        SettleOutgoing,
            SettleFails, MarkCommitted, ReleaseOutgoing, MarkRolledBack, MarkFailed
<1>8. ASSUME NEW q \in reqs, Handle(q) PROVE \A r \in reqs' : Says(r)
  <2> SUFFICES ASSUME NEW r \in reqs', r \notin reqs PROVE Says(r)
    BY <1>4
  <2>1. /\ r.kind = q.kind
        /\ r.kind = "COMMIT_TX" =>
              \/ r.stage = "read" /\ rec.vote = "yes" /\ inc' = inc
              \/ /\ q.stage = "read" /\ inc # "released"
                 /\ inc' = IF inc = "pending" THEN "committed" ELSE inc
    BY <1>1, <1>8, HandleEffect DEF Requests
  <2>2. CASE r.kind = "COMMIT_TX"
    <3>1. Decided' /\ (q.stage = "read" => inc # "none")
      BY <1>1, <1>3, <2>1, <2>2 DEF RequestsFollow
    <3>2. rec.vote = "yes" => inc # "none"
      BY DEF StableInv, RecordFollows
    <3> QED BY <1>1, <1>3, <2>1, <2>2, <3>1, <3>2 DEF Columns
  <2>3. CASE r.kind = "ROLLBACK_TX"
    BY <1>1, <1>3, <2>1, <2>3 DEF RequestsFollow
  <2> QED BY <2>2, <2>3
<1>9. CASE Inline \/ Crons \/ Worker \/ AccountChanges \/ UNCHANGED vars
  BY <1>5, <1>9 DEF Inline, InitiateOutboundTx, ReserveOutgoing, ReserveFails,
        Abandon, Crons,
        CronTick, ReconcilerTick, CheckStatus, SweepHold, Worker, WorkerReserve, WorkerCache,
        WorkerAborts, AccountChanges, vars
<1> QED BY <1>6, <1>7, <1>8, <1>9 DEF Next

(* The receiver's record says what has been done. *)
LEMMA RecordStep ==
    ASSUME StableInv, Grows, [Next]_vars
    PROVE  RecordFollows'
<1>1. Columns /\ Shape /\ Orderly /\ RequestsFollow /\ RecordFollows
  BY ColumnsType DEF StableInv, Shape
<1>2. /\ inc' # "none" => accepts'
      /\ inc' = "released" => Doomed'
      /\ inc' = "committed" \/ hold' = "settled" => Decided'
  BY <1>1 DEF Grows, RecordFollows
<1>3. SUFFICES /\ "yes" \in {rec'.vote, worker'} => accepts /\ inc' # "none"
               /\ "no" \in {rec'.vote, worker'} => ~accepts
               /\ "committed" \in rec'.stamps => inc = "committed"
               /\ "rolled_back" \in rec'.stamps => Void
  BY <1>2 DEF RecordFollows, Grows, Void
<1>4. ASSUME rec'.stamps = rec.stamps,
             rec'.vote \in {rec.vote, worker}, worker' \in {worker, "idle"}
      PROVE  /\ "yes" \in {rec'.vote, worker'} => accepts /\ inc' # "none"
             /\ "no" \in {rec'.vote, worker'} => ~accepts
             /\ "committed" \in rec'.stamps => inc = "committed"
             /\ "rolled_back" \in rec'.stamps => Void
  BY <1>1, <1>4 DEF RecordFollows, Grows
<1>5. CASE WorkerReserve
  <2>1. rec' = rec /\ worker' = (IF accepts THEN "yes" ELSE "no")
        /\ (accepts => inc' # "none")
    BY <1>1, <1>5 DEF WorkerReserve, Columns
  <2> QED BY <1>1, <2>1 DEF RecordFollows, Grows
<1>6. CASE WorkerCache \/ WorkerAborts
  BY <1>1, <1>4, <1>6 DEF WorkerCache, WorkerAborts, Columns
<1>7. CASE Inline \/ Crons \/ AccountChanges \/ Crash \/ UNCHANGED vars
  <2>1. rec' = rec /\ worker' = worker
    BY <1>7 DEF Inline, InitiateOutboundTx, ReserveOutgoing, ReserveFails, Abandon,
          Crons,
        CronTick, ReconcilerTick, CheckStatus, SweepHold, AccountChanges, Crash, vars, receiver
  <2> QED BY <1>4, <2>1
<1>8. ASSUME NEW d \in Drivers, Drive(d) PROVE rec' = rec /\ worker' = worker
  BY <1>8 DEF Drive, PostNewTx, PostCommitTx, PostRollbackTx, Timeout, MarkCommitting,
          SettleOutgoing, SettleFails, MarkCommitted, ReleaseOutgoing, MarkRolledBack,
          MarkFailed, receiver
<1>9. CASE \E d \in Drivers : Drive(d)
  BY <1>4, <1>8, <1>9
<1>10. CASE \E q \in reqs : Handle(q)
  <2>1. PICK q \in reqs : Records(q)
    BY <1>1, <1>10, HandleEffect
  <2>2. q.kind = "COMMIT_TX" /\ q.stage = "applied" => inc = "committed"
    BY <1>1 DEF RequestsFollow
  <2>3. q.kind = "ROLLBACK_TX" => Void
    BY <1>1 DEF RequestsFollow
  <2> QED BY <1>1, <2>1, <2>2, <2>3 DEF Records, RecordFollows, Grows
<1> QED BY <1>5, <1>6, <1>7, <1>9, <1>10 DEF Next, Worker

(* Initially nothing has been said, and every step keeps it so. *)
LEMMA StableInduction ==
    ASSUME Stable
    PROVE  /\ Init => StableInv
           /\ StableInv /\ [Next]_vars => StableInv'
<1>1. Init => StableInv
  <2> SUFFICES ASSUME Init PROVE StableInv
    OBVIOUS
  <2>1. \A d \in Drivers : Follows(d)
    BY Classes DEF Init, Follows
  <2>2. RequestsFollow /\ RecordFollows /\ RowFollows
    BY DEF Init, RequestsFollow, RecordFollows, RowFollows, Decided
  <2> QED BY <2>1, <2>2, ShapeInit DEF StableInv, ProgramsFollow
<1>2. StableInv /\ [Next]_vars => StableInv'
  <2> SUFFICES ASSUME StableInv, [Next]_vars PROVE StableInv'
    OBVIOUS
  <2>1. Grows
    BY GrowsStep
  <2>2. Shape' /\ Orderly'
    BY ShapeStep, OrderlyStep DEF StableInv
  <2>3. RowFollows'
    BY <2>1 DEF StableInv, RowFollows, Grows
  <2> QED BY <2>1, <2>2, <2>3, FollowsStep, RequestsStep, RecordStep DEF StableInv
<1> QED BY <1>1, <1>2

(* As long as the recipient's account does not change what it accepts, the *)
(* row reports what happened, whatever is lost, delayed or repeated and    *)
(* however often the sender crashes: of three drivers that act on what     *)
(* they read earlier none reports a rollback of a payment that is or will  *)
(* be credited, or a commit of one that is not.                            *)
THEOREM ReportedIsDoneHolds ==
    ASSUME Stable
    PROVE  Spec => []ReportedIsDone
<1>1. StableInv => ReportedIsDone
  BY DEF StableInv, RecordFollows, RowFollows, Decided, ReportedIsDone
<1> QED BY <1>1, StableInduction, PTL DEF Spec

(* One step moves the row or the credit, not both; a row that says         *)
(* rolled back or failed goes on saying so.                                *)
LEMMA OneAtATime ==
    ASSUME Stable, StableInv, [Next]_vars
    PROVE  /\ \/ inc' = inc
              \/ /\ row'.status = row.status
                 /\ \/ inc = "none" /\ inc' = "pending"
                    \/ inc = "pending" /\ inc' = "committed" /\ Decided
                    \/ inc = "pending" /\ inc' = "released" /\ Doomed
           /\ row.status \in {"rolled_back", "failed"} => row'.status \in {"rolled_back", "failed"}
<1>1. Columns /\ Shape /\ Orderly /\ RequestsFollow /\ RecordFollows
  BY ColumnsType DEF StableInv, Shape
<1> DEFINE Aborted(r) == r.status \in {"rolled_back", "failed"}
<1>2. CASE Inline
  <2>1. inc' = inc
    BY <1>2 DEF Inline, InitiateOutboundTx, ReserveOutgoing, ReserveFails, Abandon,
          receiver
  <2>2. Aborted(row) => row' = row
    BY <1>2 DEF Inline, InitiateOutboundTx, ReserveOutgoing, ReserveFails, Abandon
  <2> QED BY <2>1, <2>2
<1>3. CASE Crons \/ Worker \/ Crash \/ AccountChanges \/ UNCHANGED vars
  <2>1. row' = row
    BY <1>3 DEF Crons, CronTick, ReconcilerTick, CheckStatus, SweepHold, Worker,
          WorkerReserve,
          WorkerCache, WorkerAborts, Crash, AccountChanges, vars, sender
  <2>2. inc' = inc \/ (inc = "none" /\ inc' = "pending")
    BY <1>3 DEF Crons, CronTick, ReconcilerTick, CheckStatus, SweepHold, Worker,
          WorkerReserve,
          WorkerCache, WorkerAborts, Crash, AccountChanges, vars, receiver
  <2> QED BY <2>1, <2>2
<1>4. ASSUME NEW d \in Drivers, Drive(d)
      PROVE  inc' = inc /\ (Aborted(row) => Aborted(row'))
  <2>1. inc' = inc
    BY <1>4 DEF Drive, PostNewTx, PostCommitTx, PostRollbackTx, Timeout, MarkCommitting,
          SettleOutgoing, SettleFails, MarkCommitted, ReleaseOutgoing, MarkRolledBack,
          MarkFailed, receiver
  <2>2. Aborted(row) => Aborted(row')
    BY <1>1, <1>4, AttemptedRow DEF Drive, PostNewTx, PostCommitTx, PostRollbackTx,
          Timeout,
          MarkCommitting, SettleOutgoing, SettleFails, MarkCommitted, ReleaseOutgoing,
          MarkRolledBack, MarkFailed, Columns, sender, Shape
  <2> QED BY <2>1, <2>2
<1>5. ASSUME NEW q \in reqs, Handle(q)
      PROVE  /\ row'.status = row.status
             /\ \/ inc' = inc
                \/ inc = "pending" /\ inc' = "committed" /\ Decided
                \/ inc = "pending" /\ inc' = "released" /\ Doomed
  <2>1. Answers(q) /\ Records(q)
    BY <1>1, <1>5, HandleEffect
  <2>2. q.kind = "COMMIT_TX" => Decided
    BY <1>1 DEF RequestsFollow
  <2>3. q.kind = "ROLLBACK_TX" /\ inc = "pending" => Doomed
    BY <1>1 DEF RequestsFollow, Void, RecordFollows
  <2> QED BY <2>1, <2>2, <2>3 DEF Answers, Records
<1> QED BY <1>2, <1>3, <1>4, <1>5 DEF Next

(* The credit obeys AtomicCommit under the same hypothesis: the row        *)
(* decides once, the receiving bank ends as it says and only once, gives   *)
(* up the credit before the decision only when it can no longer be to      *)
(* commit, and a row past the pivot "is NEVER compensated".                *)
THEOREM ImplementsAtomicCommitHolds ==
    ASSUME Stable, Parties = {"credit"}
    PROVE  Spec => ImplementsAtomicCommit
<1>1. Init => Atomic!Init
  BY DEF Init, Atomic!Init, Decision, Outcome
<1>2. StableInv /\ [Next]_vars
         => [Atomic!Next]_<<Decision, [p \in Parties |-> Outcome(p)]>>
  <2> SUFFICES ASSUME StableInv, [Next]_vars
               PROVE  [Atomic!Next]_<<Decision, [p \in Parties |-> Outcome(p)]>>
    OBVIOUS
  <2>1. /\ Columns
        /\ Decided => Decided'
        /\ Doomed => Doomed'
        /\ inc = "released" => Doomed
    BY GrowsStep, ColumnsType DEF StableInv, Shape, Grows, RecordFollows
  <2>2. /\ Decided <=> Decision = "committed"
        /\ row.status \in {"rolled_back", "failed"} <=> Decision = "aborted"
        /\ Decided' <=> Decision' = "committed"
        /\ row'.status \in {"rolled_back", "failed"} <=> Decision' = "aborted"
        /\ Decision \in {"committed", "aborted", "undecided"}
        /\ Decision' \in {"committed", "aborted", "undecided"}
    BY DEF Decided, Decision
  <2>3. /\ Doomed => ~Decided
        /\ Doomed' => ~Decided'
    BY DEF Doomed, Decided
  <2>4. CASE inc' = inc
    <3>1. [p \in Parties |-> Outcome(p)]' = [p \in Parties |-> Outcome(p)]
      BY <2>4 DEF Outcome
    <3>2. CASE Decision' = Decision
      BY <3>1, <3>2
    <3>3. CASE Decision = "undecided" /\ Decision' = "committed"
      <4>1. inc # "released"
        BY <2>1, <2>2, <2>3, <3>3
      <4>2. \A p \in Parties : [q \in Parties |-> Outcome(q)][p] # "aborted"
        BY <2>1, <4>1 DEF Outcome, Columns
      <4> QED BY <3>1, <3>3, <4>2 DEF Atomic!Next, Atomic!DecideCommit
    <3>4. CASE Decision = "undecided" /\ Decision' = "aborted"
      BY <3>1, <3>4 DEF Atomic!Next, Atomic!DecideAbort
    <3> QED BY <2>1, <2>2, <3>2, <3>3, <3>4, OneAtATime
  <2>5. CASE inc' # inc
    <3>1. Decision' = Decision
      BY <2>5, OneAtATime DEF Decision
    <3>2. CASE inc = "none" /\ inc' = "pending"
      <4>1. [p \in Parties |-> Outcome(p)]' = [p \in Parties |-> Outcome(p)]
        BY <3>2 DEF Outcome
      <4> QED BY <3>1, <4>1
    <3>3. CASE inc = "pending" /\ inc' = "committed" /\ Decided
      <4>1. Atomic!Commit("credit")
        BY <2>2, <3>1, <3>3 DEF Atomic!Commit, Outcome
      <4> QED BY <4>1 DEF Atomic!Next
    <3>4. CASE inc = "pending" /\ inc' = "released" /\ Doomed
      <4>1. Atomic!Abort("credit")
        BY <2>2, <2>3, <3>1, <3>4 DEF Atomic!Abort, Outcome
      <4> QED BY <4>1 DEF Atomic!Next
    <3> QED BY <2>5, <3>2, <3>3, <3>4, OneAtATime
  <2> QED BY <2>4, <2>5
<1> QED BY <1>1, <1>2, StableInduction, PTL DEF Spec, ImplementsAtomicCommit,
      Atomic!Spec

-----------------------------------------------------------------------------
(* The hold *)

(* The drivers come one after the other: no crash, no cron before the      *)
(* inline call has ended, no outage past the TTL.  Votes may change.       *)
Calm == Faults \subseteq {"flaky"} /\ MaxCrashes = 0

(* Nobody can pass the pivot any more. *)
Dead ==
    \/ row.status \in {"rolled_back", "failed"}
    \/ /\ row.status = "pending" /\ row.attempts = MaxAttempts
       /\ todo["inline"] = <<>> /\ todo["cron"] \in GiveUpProgs \cup {<<>>}
    \/ row.status = "pending" /\ todo["inline"] = <<"abort", "rollback">>

SettledProgs == {<<"commit", "close">>, <<"ack", "close">>, <<"close">>}
MarkedProgs  == {<<"abort", "rollback">>, <<"release", "rollback">>, <<"rollback">>}
ReserveProgs == {<<"reserve", "newtx">>, <<"abandon">>}

(* What a program says of the payment now. *)
Knows(d) ==
    /\ todo[d] \in CommitProgs => Decided
    /\ todo[d] \in PaidProgs => inc = "committed"
    /\ todo[d] \in SettledProgs => hold = "settled"
    /\ todo[d] \in MarkedProgs \cup GiveUpProgs => Dead

ProgramsKnow == \A d \in Drivers : Knows(d)

(* The inline call is alone, marks after it releases, and meets a pending  *)
(* row until the pivot; the crons mark first.                              *)
InlineFirst ==
    /\ todo["inline"] # <<>> => todo["cron"] = <<>> /\ todo["reconciler"] = <<>>
    /\ todo["inline"] \in AskProgs \cup PivotProgs \cup {<<"release", "abort", "rollback">>}
          => row.status = "pending"
    /\ todo["inline"] \notin {<<"abort", "release", "rollback">>, <<"release", "rollback">>}
    /\ todo["cron"] \notin {<<"release", "abort", "rollback">>, <<"abort", "rollback">>}
    /\ row.status = "none" => \A d \in Drivers : todo[d] = <<>>

RequestsKnow ==
    \A q \in reqs :
        /\ q.kind = "COMMIT_TX" =>
              /\ Decided
              /\ q.stage \in {"read", "applied"} => inc # "none"
              /\ q.stage = "applied" => inc = "committed"
        /\ q.kind = "ROLLBACK_TX" => Dead

RecordKnows ==
    /\ "yes" \in {rec.vote, worker} => inc # "none"
    /\ "committed" \in rec.stamps => inc = "committed"
    /\ "rolled_back" \in rec.stamps => Dead
    /\ inc = "released" => Dead
    /\ inc = "committed" => Decided

HoldKnows ==
    /\ hold = "settled" => Decided
    /\ hold = "released" => Dead
    /\ hold = "none" => \/ row.status \in {"none", "rolled_back", "failed"}
                        \/ todo["inline"] \in ReserveProgs
    /\ todo["inline"] = <<"reserve", "newtx">> => hold = "none"
    /\ row.status = "committed" => hold = "settled" /\ inc = "committed"
    /\ row.status = "none" => hold = "none"

CalmInv ==
    /\ Shape /\ Orderly
    /\ InlineFirst /\ ProgramsKnow /\ RequestsKnow /\ RecordKnows /\ HoldKnows

(* The marks follow the programs. *)
LEMMA MarkDrive ==
    ASSUME CalmInv, NEW d \in Drivers, Drive(d)
    PROVE  /\ Decided => Decided'
           /\ Dead => Dead'
           /\ row'.status = "none" => row.status = "none"
           /\ row.status = "none" => row'.status = "none"
           /\ \A e \in Drivers : e # d => todo'[e] = todo[e]
           /\ row'.status = "committed" => row.status = "committed" \/ todo[d] = <<"close">>
           /\ todo[d] # <<>>
<1> DEFINE p == todo[d]
<1>1. p \in Programs /\ Columns /\ Knows(d) /\ Shape /\ InlineFirst
      /\ Drivers = {"inline", "cron", "reconciler"}
  BY ColumnsType DEF CalmInv, Shape, ProgramsOfDrivers, ProgramsKnow, Drivers
<1>2. p # <<>> /\ \A e \in Drivers : e # d => todo'[e] = todo[e]
  <2>1. p # <<>> /\ \E v : Goes(d, v)
    BY DEF Drive, PostNewTx, PostCommitTx, PostRollbackTx, Timeout, MarkCommitting,
          SettleOutgoing, SettleFails, MarkCommitted, ReleaseOutgoing, MarkRolledBack,
          MarkFailed, At, Advance, Stop
  <2> QED BY <1>1, <2>1, GoesTo DEF Shape
<1> SUFFICES /\ Decided => Decided'
             /\ Dead => Dead'
             /\ row'.status = "none" => row.status = "none"
             /\ row.status = "none" => row'.status = "none"
             /\ row'.status = "committed" => row.status = "committed" \/ p = <<"close">>
  BY <1>2
<1>3. ASSUME Dead, row.status = "pending", p # <<"abort", "rollback">>
      PROVE  /\ row.attempts = MaxAttempts /\ todo["inline"] = <<>>
             /\ todo["cron"] \in GiveUpProgs \cup {<<>>} /\ d # "inline"
             /\ d = "cron" => p \in GiveUpProgs
             /\ d # "cron" => todo'["cron"] = todo["cron"]
             /\ todo'["inline"] = <<>>
  <2>1. todo["inline"] # <<"abort", "rollback">>
    BY <1>1, <1>2, <1>3 DEF InlineFirst
  <2> QED BY <1>1, <1>2, <1>3, <2>1 DEF Dead
<1>4. CASE PostNewTx(d) \/ PostCommitTx(d) \/ Timeout(d) \/ SettleOutgoing(d) \/ SettleFails(d)
  <2>1. row'.status = row.status /\ (row.attempts = MaxAttempts => row' = row)
    BY <1>1, <1>4, AttemptedRow DEF Shape, PostNewTx, PostCommitTx, Timeout,
          SettleOutgoing,
          SettleFails, sender
  <2>2. p \notin GiveUpProgs /\ p # <<"abort", "rollback">>
    BY <1>4, Heads DEF PostNewTx, PostCommitTx, Timeout, SettleOutgoing, SettleFails,
          At,
          GiveUpProgs
  <2>3. Dead => Dead'
    BY <1>3, <2>1, <2>2 DEF Dead
  <2>4. Decided' <=> Decided
    BY <2>1 DEF Decided
  <2> QED BY <2>1, <2>3, <2>4
<1>5. CASE PostRollbackTx(d) \/ ReleaseOutgoing(d)
  <2>1. row'.status = row.status /\ (row.attempts = MaxAttempts => row' = row)
    BY <1>1, <1>5, AttemptedRow DEF Shape, PostRollbackTx, ReleaseOutgoing, sender
  <2>2. p # <<"abort", "rollback">>
    BY <1>5, Heads DEF PostRollbackTx, ReleaseOutgoing, At
  <2>3. ASSUME d = "cron", p \in GiveUpProgs PROVE todo'["cron"] \in GiveUpProgs
    <3>1. Goes(d, Tail(p)) /\ Head(p) \in {"release", "rollback"}
      BY <1>5, <2>3 DEF PostRollbackTx, ReleaseOutgoing, Advance, At
    <3>2. p = <<"release", "rollback", "fail">> \/ p = <<"rollback", "fail">>
      BY <2>3, <3>1, Heads DEF GiveUpProgs
    <3> QED BY <1>1, <2>3, <3>1, <3>2, GoesTo, Tails DEF Shape, GiveUpProgs
  <2>4. Dead => Dead'
    BY <1>3, <2>1, <2>2, <2>3 DEF Dead
  <2>5. Decided' <=> Decided
    BY <2>1 DEF Decided
  <2> QED BY <2>1, <2>4, <2>5
<1>6. CASE MarkCommitting(d)
  <2>1. p \in PivotProgs /\ p \notin GiveUpProgs /\ p # <<"abort", "rollback">>
    BY <1>1, <1>6, ProgramAt, Classes DEF MarkCommitting, At, PivotProgs
  <2>2. d # "reconciler"
    BY <2>1 DEF CalmInv, Shape, ProgramsOfDrivers, ReconcilerProgs, PaidProgs,
          PivotProgs
  <2>3. Dead => row.status # "pending"
    BY <1>1, <1>3, <2>1, <2>2
  <2>4. /\ row.status \in {"pending", "committing"} => row'.status = "committing"
        /\ row.status \notin {"pending", "committing"} => row' = row
    BY <1>1, <1>6 DEF MarkCommitting, Columns
  <2> QED BY <2>1, <2>3, <2>4 DEF Dead, Decided
<1>7. CASE MarkCommitted(d)
  <2>1. p = <<"close">> /\ p \in CommitProgs
    BY <1>1, <1>7, ProgramAt DEF MarkCommitted, At, CommitProgs, PaidProgs
  <2>2. Decided
    BY <1>1, <2>1 DEF Knows
  <2>3. row'.status = "committed"
    BY <1>1, <1>7, <2>2 DEF MarkCommitted, Columns, Decided
  <2> QED BY <2>1, <2>2, <2>3 DEF Dead, Decided
<1>8. CASE MarkRolledBack(d)
  <2>1. /\ row.status = "pending" => row'.status = "rolled_back"
        /\ row.status # "pending" => row' = row
    BY <1>1, <1>8 DEF MarkRolledBack, Columns
  <2> QED BY <2>1 DEF Dead, Decided
<1>9. CASE MarkFailed(d)
  <2>1. p \in GiveUpProgs
    BY <1>1, <1>9, ProgramAt DEF MarkFailed, At, GiveUpProgs
  <2>2. Dead /\ row'.status = "failed"
    BY <1>1, <1>9, <2>1 DEF Knows, MarkFailed, Columns
  <2> QED BY <2>2 DEF Dead, Decided
<1> QED BY <1>4, <1>5, <1>6, <1>7, <1>8, <1>9 DEF Drive

(* What no step takes back while the drivers come one after the other. *)
Settles ==
    /\ Decided => Decided'
    /\ Dead => Dead'
    /\ inc # "none" => inc' # "none"
    /\ inc = "committed" => inc' = "committed"
    /\ inc' = "committed" => inc = "committed" \/ Decided
    /\ inc' = "released" => inc = "released" \/ Dead
    /\ hold = "settled" => hold' = "settled"
    /\ hold = "none" => hold' = "none" \/ todo["inline"] = <<"reserve", "newtx">>
    /\ hold' = "settled" => hold = "settled" \/ Decided
    /\ hold' = "released" => hold = "released" \/ Dead'
    /\ hold' = "none" => hold = "none"
    /\ row'.status = "committed" => row.status = "committed" \/ (hold = "settled" /\ inc = "committed")
    /\ row'.status = "none" => row.status = "none"
    /\ row.status = "none" => row'.status = "none" \/ todo'["inline"] = <<"reserve", "newtx">>
    /\ row.status \in {"rolled_back", "failed"} => row'.status \in {"rolled_back", "failed"}

(* What a driver does to the hold. *)
LEMMA HoldDrive ==
    ASSUME CalmInv, NEW d \in Drivers, Drive(d)
    PROVE  /\ inc' = inc
           /\ \/ hold' = hold
              \/ hold = "pending" /\ hold' = "settled" /\ Decided
              \/ hold = "pending" /\ hold' = "released" /\ Dead'
           /\ row.status \in {"rolled_back", "failed"} => row'.status \in {"rolled_back", "failed"}
<1> DEFINE p == todo[d]
<1>1. p \in Programs /\ Columns /\ Knows(d) /\ Shape /\ InlineFirst
      /\ Drivers = {"inline", "cron", "reconciler"}
  BY ColumnsType DEF CalmInv, Shape, ProgramsOfDrivers, ProgramsKnow, Drivers
<1>2. inc' = inc
  BY DEF Drive, PostNewTx, PostCommitTx, PostRollbackTx, Timeout, MarkCommitting,
        SettleOutgoing, SettleFails, MarkCommitted, ReleaseOutgoing, MarkRolledBack,
        MarkFailed, receiver
<1>3. row.status \in {"rolled_back", "failed"} => row'.status \in {"rolled_back", "failed"}
  BY <1>1, AttemptedRow DEF Drive, PostNewTx, PostCommitTx, PostRollbackTx, Timeout,
        MarkCommitting, SettleOutgoing, SettleFails, MarkCommitted, ReleaseOutgoing,
        MarkRolledBack, MarkFailed, Columns, sender, Shape
<1>4. CASE SettleOutgoing(d) \/ SettleFails(d)
  <2>1. p # <<>> /\ Head(p) = "settle"
    BY <1>4 DEF SettleOutgoing, SettleFails, At
  <2>2. p \in CommitProgs
    BY <1>1, <2>1, ProgramAt DEF CommitProgs, PaidProgs
  <2>3. Decided
    BY <1>1, <2>2 DEF Knows
  <2>4. hold' = hold \/ (hold = "pending" /\ hold' = "settled")
    BY <1>1, <1>4 DEF SettleOutgoing, SettleFails, Columns
  <2> QED BY <1>2, <1>3, <2>3, <2>4
<1>5. CASE ReleaseOutgoing(d)
  <2>1. p # <<>> /\ Head(p) = "release"
    BY <1>5 DEF ReleaseOutgoing, At
  <2>2. CASE hold' = hold
    BY <1>2, <1>3, <2>2
  <2>3. CASE hold' # hold
    <3>1. hold = "pending" /\ hold' = "released" /\ row' = row /\ Goes(d, Tail(p))
      BY <1>5, <2>3 DEF ReleaseOutgoing, Advance
    <3>2. Dead'
      <4>1. CASE p = <<"release", "abort", "rollback">>
        <5>1. d = "inline"
          BY <1>1, <4>1 DEF InlineFirst, Shape, ProgramsOfDrivers, ReconcilerProgs,
                PaidProgs
        <5>2. row.status = "pending" /\ todo'["inline"] = <<"abort", "rollback">>
          BY <1>1, <3>1, <4>1, <5>1, GoesTo, Tails DEF InlineFirst, Shape
        <5> QED BY <3>1, <5>2 DEF Dead
      <4>2. CASE p = <<"release", "rollback">> \/ p = <<"release", "rollback", "fail">>
        <5>1. Dead
          BY <1>1, <4>2 DEF Knows, MarkedProgs, GiveUpProgs
        <5> QED BY <5>1, MarkDrive
      <4> QED BY <1>1, <2>1, <4>1, <4>2, ProgramAt
    <3> QED BY <1>2, <1>3, <3>1, <3>2
  <2> QED BY <2>2, <2>3
<1>6. CASE hold' = hold
  BY <1>2, <1>3, <1>6
<1> QED BY <1>4, <1>5, <1>6 DEF Drive, PostNewTx, PostCommitTx, PostRollbackTx, Timeout,
      MarkCommitting, MarkCommitted, MarkRolledBack, MarkFailed, sender

(* Every step is of that kind. *)
LEMMA SettlesStep ==
    ASSUME Calm, CalmInv, [Next]_vars
    PROVE  Settles
<1>1. /\ Columns /\ Shape /\ Orderly /\ RecordKnows /\ HoldKnows /\ RequestsKnow /\ InlineFirst
      /\ \A d \in Drivers : todo[d] \in Programs /\ Knows(d)
      /\ Drivers = {"inline", "cron", "reconciler"}
  BY ColumnsType DEF CalmInv, Shape, ProgramsOfDrivers, ProgramsKnow, Drivers
<1>2. CASE Inline
  <2>1. CASE InitiateOutboundTx
    <3>1. row.status = "none" /\ row'.status = "pending" /\ UNCHANGED <<hold, inc>>
      BY <1>1, <2>1 DEF InitiateOutboundTx, receiver, Columns
    <3>2. todo'["inline"] = <<"reserve", "newtx">>
      BY <1>1, <2>1, GoesTo DEF InitiateOutboundTx, Shape
    <3> QED BY <3>1, <3>2 DEF Settles, Decided, Dead
  <2>2. CASE Abandon
    <3>1. todo["inline"] = <<"abandon">>
      BY <1>1, <2>2, ProgramAt DEF Abandon, At
    <3>2. row.status = "pending"
      BY <1>1, <3>1 DEF InlineFirst, AskProgs
    <3>3. row'.status = "rolled_back" /\ UNCHANGED <<hold, inc>>
      BY <1>1, <2>2, <3>2 DEF Abandon, receiver, Columns
    <3> QED BY <3>2, <3>3 DEF Settles, Decided, Dead
  <2>3. CASE ReserveOutgoing \/ ReserveFails
    <3>1. todo["inline"] = <<"reserve", "newtx">>
      BY <1>1, <2>3, ProgramAt DEF ReserveOutgoing, ReserveFails, At
    <3>2. hold = "none" /\ row.status = "pending"
      BY <1>1, <3>1 DEF HoldKnows, InlineFirst, AskProgs
    <3>3. row' = row /\ inc' = inc /\ hold' \in {"none", "pending"}
      BY <2>3 DEF ReserveOutgoing, ReserveFails, receiver
    <3>4. ~Dead
      BY <3>1, <3>2 DEF Dead
    <3> QED BY <3>1, <3>2, <3>3, <3>4 DEF Settles, Decided
  <2> QED BY <1>2, <2>1, <2>2, <2>3 DEF Inline
<1>3. CASE CronTick
  <2>1. /\ UNCHANGED <<row, hold, inc>> /\ todo'["inline"] = todo["inline"]
        /\ todo'["cron"] = CronPlan
    BY <1>1, <1>3, GoesTo DEF CronTick, sender, receiver, Shape
  <2>2. ASSUME row.status = "pending", row.attempts = MaxAttempts PROVE CronPlan \in GiveUpProgs
    BY <2>2, Paths, TxAssumption DEF CronPlan
  <2>3. Dead => Dead'
    BY <2>1, <2>2 DEF Dead
  <2> QED BY <1>1, <2>1, <2>3 DEF Settles, Decided
<1>4. CASE ReconcilerTick \/ CheckStatus
  <2>1. UNCHANGED <<row, hold, inc>> /\ \E v : Goes("reconciler", v)
    BY <1>4 DEF ReconcilerTick, CheckStatus, Stop, sender, receiver
  <2>2. todo'["inline"] = todo["inline"] /\ todo'["cron"] = todo["cron"]
    BY <1>1, <2>1, GoesTo DEF Shape
  <2> QED BY <1>1, <2>1, <2>2 DEF Settles, Decided, Dead
<1>5. CASE SweepHold
  <2>1. /\ UNCHANGED <<row, todo, inc>> /\ hold = "pending" /\ hold' = "released"
        /\ row.status \in {"committed", "rolled_back", "failed"}
    BY <1>5 DEF SweepHold, receiver, Calm
  <2>2. row.status # "committed"
    BY <1>1, <2>1 DEF HoldKnows
  <2> QED BY <2>1, <2>2 DEF Settles, Decided, Dead
<1>6. CASE Worker \/ AccountChanges \/ UNCHANGED vars
  <2>1. /\ UNCHANGED <<row, hold, todo>>
        /\ inc' = inc \/ (inc = "none" /\ inc' = "pending")
    BY <1>6 DEF Worker, WorkerReserve, WorkerCache, WorkerAborts, AccountChanges,
          vars, sender,
          receiver
  <2> QED BY <1>1, <2>1 DEF Settles, Decided, Dead
<1>7. CASE Crash
  BY <1>1, <1>7 DEF Crash, Calm, Columns
<1>8. ASSUME NEW d \in Drivers, Drive(d) PROVE Settles
  <2>1. /\ inc' = inc
        /\ \/ hold' = hold
           \/ hold = "pending" /\ hold' = "settled" /\ Decided
           \/ hold = "pending" /\ hold' = "released" /\ Dead'
        /\ row.status \in {"rolled_back", "failed"} => row'.status \in {"rolled_back", "failed"}
    BY <1>8, HoldDrive
  <2>2. todo[d] = <<"close">> => inc = "committed" /\ hold = "settled"
    BY <1>1 DEF Knows, PaidProgs, SettledProgs
  <2> QED BY <1>8, <2>1, <2>2, MarkDrive DEF Settles
<1>9. ASSUME NEW q \in reqs, Handle(q) PROVE Settles
  <2>1. Answers(q) /\ Records(q)
    BY <1>1, <1>9, HandleEffect
  <2>2. ASSUME NEW d \in {"inline", "cron"}, Dead, row.status = "pending",
               d = "inline" \/ todo["inline"] = <<>>
        PROVE  todo'[d] = todo[d]
    <3>1. todo[d] \in GiveUpProgs \cup {<<>>, <<"abort", "rollback">>}
      <4>1. <<"abort", "rollback">> # <<>>
        OBVIOUS
      <4>2. CASE d = "inline"
        BY <2>2, <4>2 DEF Dead
      <4>3. CASE d = "cron"
        <5>1. todo["inline"] = <<>> /\ todo["inline"] # <<"abort", "rollback">>
          BY <2>2, <4>1, <4>3
        <5> QED BY <2>2, <4>3, <5>1 DEF Dead
      <4> QED BY <2>2, <4>2, <4>3
    <3>2. todo[d] # <<"vote">> /\ todo[d] \notin AckProgs
      BY <3>1, Classes DEF AbortProgs, UndoProgs
    <3> QED BY <1>1, <2>1, <3>2 DEF Answers
  <2>3. (Decided' <=> Decided) /\ (Dead => Dead')
    BY <2>1, <2>2 DEF Answers, Dead, Decided
  <2>4. q.kind = "COMMIT_TX" => Decided
    BY <1>1 DEF RequestsKnow
  <2>5. q.kind = "ROLLBACK_TX" => Dead
    BY <1>1 DEF RequestsKnow
  <2> QED BY <1>1, <2>1, <2>3, <2>4, <2>5 DEF Answers, Records, Settles
<1> QED BY <1>2, <1>3, <1>4, <1>5, <1>6, <1>7, <1>8, <1>9 DEF Next, Crons

(* A program that has not moved knows what it knew. *)
LEMMA KnowsKept ==
    ASSUME Settles, NEW d \in Drivers, Knows(d), todo'[d] = todo[d]
    PROVE  Knows(d)'
BY DEF Settles, Knows

(* Asking, the pivot and the first steps of a reversal know nothing yet. *)
LEMMA KnowsNothing ==
    ASSUME NEW d \in Drivers,
           todo'[d] \in AskProgs \cup PivotProgs \cup {<<>>, <<"abort", "release", "rollback">>,
                                                    <<"release", "abort", "rollback">>}
    PROVE  Knows(d)'
BY DEF Knows, AskProgs, PivotProgs, CommitProgs, AckProgs, PaidProgs, SettledProgs,
      MarkedProgs,
       GiveUpProgs

(* What the drivers do leaves them knowing what they have done. *)
LEMMA KnowsDrive ==
    ASSUME CalmInv, Settles, NEW d \in Drivers, Drive(d)
    PROVE  ProgramsKnow'
<1> DEFINE p == todo[d]
<1>1. p \in Programs /\ Columns /\ Shape /\ InlineFirst /\ HoldKnows
      /\ \A e \in Drivers : Knows(e)
  BY ColumnsType DEF CalmInv, Shape, ProgramsOfDrivers, ProgramsKnow
<1>2. p # <<>> /\ \A e \in Drivers : e # d => todo'[e] = todo[e]
  BY MarkDrive
<1>3. \A e \in Drivers : e # d => Knows(e)'
  BY <1>1, <1>2, KnowsKept
<1>4. SUFFICES Knows(d)'
  BY <1>3 DEF ProgramsKnow
<1>5. \A v : Goes(d, v) => todo'[d] = v
  BY <1>1, GoesTo DEF Shape
<1>6. ASSUME Goes(d, <<>>) PROVE Knows(d)'
  BY <1>5, <1>6, KnowsNothing
<1>7. /\ Decided => Decided'
      /\ Dead => Dead'
      /\ inc = "committed" => inc' = "committed"
      /\ hold = "settled" => hold' = "settled"
  BY DEF Settles
<1>8. CASE PostNewTx(d)
  BY <1>5, <1>8, KnowsNothing DEF PostNewTx, AskProgs
<1>9. CASE PostCommitTx(d)
  <2>1. Goes(d, <<"ack">> \o Tail(p)) /\ Head(p) = "commit"
    BY <1>9 DEF PostCommitTx, At
  <2>2. \/ p = <<"commit", "close">> /\ todo'[d] = <<"ack", "close">>
        \/ p = <<"commit", "settle", "close">> /\ todo'[d] = <<"ack", "settle", "close">>
    <3>1. <<"ack">> \o <<"close">> = <<"ack", "close">>
      BY Join2
    <3>2. <<"ack">> \o <<"settle", "close">> = <<"ack", "settle", "close">>
      BY Join3
    <3>3. todo'[d] = <<"ack">> \o Tail(p)
      BY <1>5, <2>1
    <3>4. CASE p = <<"commit", "close">>
      BY <3>1, <3>3, <3>4, Tails
    <3>5. CASE p = <<"commit", "settle", "close">>
      BY <3>2, <3>3, <3>5, Tails
    <3> QED BY <1>1, <1>2, <2>1, <3>4, <3>5, ProgramAt
  <2>3. /\ p \in CommitProgs /\ todo'[d] \in AckProgs
        /\ todo'[d] \in SettledProgs => p \in SettledProgs
    BY <2>2 DEF CommitProgs, AckProgs, SettledProgs
  <2>4. todo'[d] \notin MarkedProgs \cup GiveUpProgs \cup PaidProgs
    BY <2>2 DEF MarkedProgs, GiveUpProgs, PaidProgs
  <2> QED BY <1>1, <1>7, <2>3, <2>4 DEF Knows
<1>10. CASE PostRollbackTx(d)
  <2>1. Head(p) = "rollback" /\ todo'[d] = Tail(p)
    BY <1>5, <1>10 DEF PostRollbackTx, At, Advance
  <2>2. \/ p = <<"rollback">> /\ todo'[d] = <<>>
        \/ p \in GiveUpProgs /\ todo'[d] = <<"fail">>
    BY <1>1, <1>2, <2>1, ProgramAt, Tails DEF GiveUpProgs
  <2>3. CASE todo'[d] = <<>>
    BY <2>3, KnowsNothing
  <2>4. CASE p \in GiveUpProgs /\ todo'[d] = <<"fail">>
    BY <1>1, <1>7, <2>4 DEF Knows, CommitProgs, AckProgs, PaidProgs, SettledProgs
  <2> QED BY <2>2, <2>3, <2>4
<1>11. CASE Timeout(d) \/ SettleFails(d)
  BY <1>6, <1>11 DEF Timeout, SettleFails, Stop
<1>12. CASE MarkCommitting(d)
  <2>1. Head(p) = "pivot"
    BY <1>12 DEF MarkCommitting, At
  <2>2. CASE row.status \in {"pending", "committing"}
    <3>1. Decided' /\ todo'[d] = Tail(p)
      BY <1>1, <1>5, <1>12, <2>2 DEF MarkCommitting, Advance, Decided, Columns
    <3>2. todo'[d] \in {<<"commit", "settle", "close">>, <<"settle", "commit", "close">>}
      BY <1>1, <1>2, <2>1, <3>1, NextProgram
    <3> QED BY <3>1, <3>2 DEF Knows, PaidProgs, SettledProgs, MarkedProgs, GiveUpProgs
  <2>3. CASE row.status \notin {"pending", "committing"}
    BY <1>6, <1>12, <2>3 DEF MarkCommitting, Stop
  <2> QED BY <2>2, <2>3
<1>13. CASE SettleOutgoing(d)
  <2>1. Head(p) = "settle" /\ todo'[d] = Tail(p)
    BY <1>5, <1>13 DEF SettleOutgoing, At, Advance
  <2>2. \/ p = <<"settle", "close">> /\ todo'[d] = <<"close">>
        \/ p = <<"settle", "commit", "close">> /\ todo'[d] = <<"commit", "close">>
    BY <1>1, <1>2, <2>1, ProgramAt, Tails
  <2>3. /\ p \in CommitProgs
        /\ todo'[d] \in PaidProgs => p \in PaidProgs
        /\ todo'[d] \notin MarkedProgs \cup GiveUpProgs
    BY <2>2 DEF CommitProgs, PaidProgs, MarkedProgs, GiveUpProgs
  <2>4. Decided
    BY <1>1, <2>3 DEF Knows
  <2>5. todo["inline"] \notin ReserveProgs
    <3>1. CASE d = "inline"
      BY <2>2, <3>1 DEF ReserveProgs
    <3>2. CASE d # "inline"
      <4>1. todo["inline"] = <<>>
        BY <1>1, <1>2, <3>2 DEF InlineFirst, Drivers
      <4> QED BY <4>1 DEF ReserveProgs
    <3> QED BY <3>1, <3>2
  <2>6. hold # "none"
    BY <1>1, <2>4, <2>5 DEF HoldKnows, Decided
  <2>7. hold' = "settled"
    BY <1>13, <2>6 DEF SettleOutgoing
  <2> QED BY <1>1, <1>7, <2>3, <2>4, <2>7 DEF Knows
<1>14. CASE MarkCommitted(d) \/ MarkFailed(d)
  <2>1. Head(p) \in {"close", "fail"} /\ todo'[d] = Tail(p)
    BY <1>5, <1>14 DEF MarkCommitted, MarkFailed, At, Advance
  <2>2. todo'[d] = <<>>
    BY <1>1, <1>2, <2>1, NextProgram
  <2> QED BY <2>2, KnowsNothing
<1>15. CASE ReleaseOutgoing(d)
  <2>1. Head(p) = "release" /\ (todo'[d] = Tail(p) \/ Goes(d, <<>>))
    BY <1>5, <1>15 DEF ReleaseOutgoing, At, Advance, Stop
  <2>2. CASE todo'[d] = Tail(p)
    <3>1. \/ p = <<"release", "abort", "rollback">> /\ todo'[d] = <<"abort", "rollback">>
          \/ p = <<"release", "rollback">> /\ todo'[d] = <<"rollback">>
          \/ p = <<"release", "rollback", "fail">> /\ todo'[d] = <<"rollback", "fail">>
      BY <1>1, <1>2, <2>1, <2>2, ProgramAt, Tails
    <3>2. Dead'
      <4>1. CASE p = <<"release", "abort", "rollback">>
        <5>1. d = "inline"
          BY <1>1, <4>1 DEF InlineFirst, Shape, ProgramsOfDrivers, ReconcilerProgs,
                PaidProgs,
                Drivers
        <5>2. row.status = "pending" /\ todo'["inline"] = <<"abort", "rollback">>
          BY <1>1, <3>1, <4>1, <5>1 DEF InlineFirst
        <5>3. row'.status = row.status
          BY <1>1, <1>15, AttemptedRow DEF ReleaseOutgoing, Shape
        <5> QED BY <5>2, <5>3 DEF Dead
      <4>2. CASE p = <<"release", "rollback">> \/ p = <<"release", "rollback", "fail">>
        BY <1>1, <1>7, <4>2 DEF Knows, MarkedProgs, GiveUpProgs
      <4> QED BY <3>1, <4>1, <4>2
    <3> QED BY <3>1, <3>2 DEF Knows, CommitProgs, AckProgs, PaidProgs, SettledProgs
  <2> QED BY <1>6, <2>1, <2>2
<1>16. CASE MarkRolledBack(d)
  <2>1. Head(p) = "abort"
    BY <1>16 DEF MarkRolledBack, At
  <2>2. \/ p = <<"abort", "rollback">> /\ Tail(p) = <<"rollback">>
        \/ p = <<"abort", "release", "rollback">> /\ Tail(p) = <<"release", "rollback">>
    BY <1>1, <1>2, <2>1, ProgramAt, Tails
  <2>3. ASSUME todo'[d] = Tail(p), Dead' PROVE Knows(d)'
    BY <2>2, <2>3 DEF Knows, CommitProgs, AckProgs, PaidProgs, SettledProgs
  <2>4. CASE row.status = "pending"
    <3>1. row'.status = "rolled_back" /\ todo'[d] = Tail(p)
      BY <1>1, <1>5, <1>16, <2>4 DEF MarkRolledBack, Advance, Columns
    <3> QED BY <2>3, <3>1 DEF Dead
  <2>5. CASE row.status # "pending" /\ d = "inline"
    <3>1. todo'[d] = Tail(p)
      BY <1>5, <1>16, <2>5 DEF MarkRolledBack, Advance
    <3>2. p = <<"abort", "rollback">>
      BY <1>1, <2>2, <2>5 DEF InlineFirst
    <3>3. Dead'
      BY <1>1, <1>7, <3>2 DEF Knows, MarkedProgs
    <3> QED BY <2>3, <3>1, <3>3
  <2>6. CASE row.status # "pending" /\ d # "inline"
    BY <1>6, <1>16, <2>6 DEF MarkRolledBack, Stop
  <2> QED BY <2>4, <2>5, <2>6
<1> QED BY <1>8, <1>9, <1>10, <1>11, <1>12, <1>13, <1>14, <1>15, <1>16 DEF Drive

(* What the answers tell the drivers is so, whatever vote they carry. *)
LEMMA KnowsHandle ==
    ASSUME CalmInv, Settles, NEW q \in reqs, Answers(q)
    PROVE  ProgramsKnow'
<1>1. Columns /\ (\A e \in Drivers : Knows(e)) /\ RequestsKnow /\ RecordKnows
  BY ColumnsType DEF CalmInv, Shape, ProgramsKnow
<1>2. SUFFICES ASSUME NEW d \in Drivers PROVE Knows(d)'
  BY DEF ProgramsKnow
<1>3. CASE todo'[d] = todo[d]
  BY <1>1, <1>3, KnowsKept
<1>4. CASE todo'[d] = <<>> \/ todo'[d] \in PivotProgs \/ todo'[d] = AbortPath(d)
  <2>1. AbortPath(d) \in {<<"abort", "release", "rollback">>, <<"release", "abort", "rollback">>}
    BY DEF AbortPath
  <2> QED BY <1>4, <2>1, KnowsNothing
<1>5. CASE /\ todo'[d] \in PaidProgs /\ q.kind = "COMMIT_TX"
           /\ todo[d] \in AckProgs /\ todo'[d] = Tail(todo[d])
           /\ (q.stage = "applied" \/ rec.stamps # {})
  <2>1. Decided /\ ~Dead
    BY <1>1, <1>5 DEF RequestsKnow, Dead, Decided
  <2>2. inc = "committed"
    <3>1. CASE q.stage = "applied"
      BY <1>1, <1>5, <3>1 DEF RequestsKnow
    <3>2. CASE rec.stamps # {}
      BY <1>1, <2>1, <3>2 DEF RecordKnows, Columns
    <3> QED BY <1>5, <3>1, <3>2
  <2>3. Decided' /\ inc' = "committed"
    BY <2>1, <2>2 DEF Settles
  <2>4. todo'[d] \in SettledProgs => hold' = "settled"
    <3>1. CASE todo[d] = <<"ack", "close">>
      BY <1>1, <3>1 DEF Knows, SettledProgs, Settles
    <3>2. CASE todo[d] = <<"ack", "settle", "close">>
      BY <1>5, <3>2, Tails DEF SettledProgs
    <3> QED BY <1>5, <3>1, <3>2 DEF AckProgs
  <2>5. todo'[d] \notin MarkedProgs \cup GiveUpProgs
    BY <1>5 DEF PaidProgs, MarkedProgs, GiveUpProgs
  <2> QED BY <2>3, <2>4, <2>5 DEF Knows
<1> QED BY <1>3, <1>4, <1>5 DEF Answers

(* Every step leaves the drivers with programs that know. *)
LEMMA KnowsStep ==
    ASSUME Calm, CalmInv, Settles, [Next]_vars
    PROVE  ProgramsKnow'
<1>1. /\ Columns /\ Shape /\ Orderly /\ Drivers = {"inline", "cron", "reconciler"}
      /\ \A e \in Drivers : Knows(e) /\ todo[e] \in Programs
  BY ColumnsType DEF CalmInv, Shape, ProgramsOfDrivers, ProgramsKnow, Drivers
<1>2. ASSUME NEW d \in Drivers, NEW p, Goes(d, p), todo'[d] = p => Knows(d)'
      PROVE  ProgramsKnow'
  <2>1. todo'[d] = p /\ \A e \in Drivers : e # d => todo'[e] = todo[e]
    BY <1>1, <1>2, GoesTo DEF Shape
  <2> QED BY <1>1, <1>2, <2>1, KnowsKept DEF ProgramsKnow
<1>3. CASE Inline
  <2>1. ASSUME ReserveOutgoing PROVE Goes("inline", <<"newtx">>)
    BY <1>1, <2>1, NextProgram DEF ReserveOutgoing, Advance, At
  <2>2. PICK p : Goes("inline", p) /\ p \in AskProgs \cup {<<>>}
    BY <1>3, <2>1 DEF Inline, InitiateOutboundTx, ReserveFails, Abandon, Stop, AskProgs
  <2> QED BY <1>1, <1>2, <2>2, KnowsNothing
<1>4. CASE CronTick
  <2>1. /\ Goes("cron", CronPlan) /\ row' = row /\ row.status \in {"pending", "committing"}
        /\ CronPlan = GiveUpPath => todo["inline"] = <<>>
    BY <1>4 DEF CronTick, Resumable, sender
  <2>2. ASSUME todo'["cron"] = CronPlan PROVE Knows("cron")'
    <3>1. CASE row.status = "committing"
      <4>1. todo'["cron"] = <<"settle", "commit", "close">> /\ Decided'
        BY <2>1, <2>2, <3>1 DEF CronPlan, CommitPath, Decided
      <4> QED BY <4>1 DEF Knows, PaidProgs, SettledProgs, MarkedProgs, GiveUpProgs
    <3>2. CASE row.status # "committing" /\ row.attempts >= MaxAttempts
      <4>1. CronPlan = GiveUpPath /\ row.status = "pending" /\ row.attempts = MaxAttempts
        BY <1>1, <2>1, <3>2, TxAssumption DEF CronPlan, Columns
      <4>2. todo'["cron"] \in GiveUpProgs /\ todo'["inline"] = <<>>
        BY <1>1, <2>1, <2>2, <4>1, Paths, GoesTo DEF Shape
      <4>3. Dead'
        BY <2>1, <4>1, <4>2 DEF Dead
      <4>4. todo'["cron"] \notin CommitProgs /\ todo'["cron"] \notin PaidProgs
            /\ todo'["cron"] \notin SettledProgs
        BY <4>2 DEF GiveUpProgs, CommitProgs, AckProgs, PaidProgs, SettledProgs
      <4> QED BY <4>3, <4>4 DEF Knows
    <3>3. CASE row.status # "committing" /\ ~(row.attempts >= MaxAttempts)
      BY <1>1, <2>2, <3>3, KnowsNothing DEF CronPlan, AskProgs
    <3> QED BY <3>1, <3>2, <3>3
  <2> QED BY <1>1, <1>2, <2>1, <2>2
<1>5. CASE ReconcilerTick
  BY <1>1, <1>2, <1>5, KnowsNothing DEF ReconcilerTick, AskProgs
<1>6. CASE CheckStatus
  <2>1. PICK p : /\ Goes("reconciler", p)
                 /\ \/ p = <<>>
                    \/ p = AbortPath("reconciler")
                    \/ p = CommitPath("reconciler") /\ "committed" \in rec.stamps
    <3>1. /\ ReceiverState \in {"unknown", "rolled_back", "committed", "prepared"}
          /\ ReceiverState = "committed" => "committed" \in rec.stamps
      BY DEF ReceiverState
    <3>2. CASE Stop("reconciler")
      BY <3>2 DEF Stop
    <3>3. CASE Goes("reconciler", CommitPath("reconciler")) /\ ReceiverState = "committed"
      BY <3>1, <3>3
    <3>4. CASE \/ Goes("reconciler", AbortPath("reconciler"))
               \/ Goes("reconciler", <<>>)
      BY <3>4
    <3> QED BY <1>6, <3>1, <3>2, <3>3, <3>4 DEF CheckStatus
  <2>2. CASE p = <<>> \/ p = AbortPath("reconciler")
    BY <1>1, <1>2, <2>1, <2>2, KnowsNothing, Paths
  <2>3. CASE p = CommitPath("reconciler") /\ "committed" \in rec.stamps
    <3>1. inc' = "committed" /\ Decided'
      BY <2>3 DEF CalmInv, RecordKnows, Settles
    <3>2. p = <<"settle", "close">>
      BY <2>3 DEF CommitPath
    <3>3. todo'["reconciler"] = p => Knows("reconciler")'
      BY <3>1, <3>2 DEF Knows, SettledProgs, MarkedProgs, GiveUpProgs
    <3> QED BY <1>1, <1>2, <2>1, <3>3
  <2> QED BY <2>1, <2>2, <2>3
<1>7. CASE SweepHold \/ Worker \/ AccountChanges \/ UNCHANGED vars
  <2>1. todo' = todo
    BY <1>7 DEF SweepHold, Worker, WorkerReserve, WorkerCache, WorkerAborts,
          AccountChanges, vars
  <2> QED BY <1>1, <2>1, KnowsKept DEF ProgramsKnow
<1>8. CASE Crash
  BY <1>8, KnowsNothing DEF Crash, ProgramsKnow
<1>9. ASSUME NEW q \in reqs, Handle(q) PROVE ProgramsKnow'
  BY <1>1, <1>9, HandleEffect, KnowsHandle
<1> QED BY <1>3, <1>4, <1>5, <1>6, <1>7, <1>8, <1>9, KnowsDrive DEF Next, Crons

(* The programs a driver's own step can lead to. *)
LEMMA DriveProgram ==
    ASSUME Shape, NEW d \in Drivers, Drive(d)
    PROVE  /\ todo'[d] \in AskProgs => todo[d] = <<"newtx">> /\ todo'[d] = <<"vote">> /\ row' = row
           /\ todo'[d] \notin PivotProgs
           /\ todo'[d] # <<"abort", "release", "rollback">>
           /\ todo'[d] # <<"release", "abort", "rollback">>
           /\ todo'[d] = <<"abort", "rollback">> => todo[d] = <<"release", "abort", "rollback">>
           /\ todo'[d] = <<"release", "rollback">> => todo[d] = <<"abort", "release", "rollback">>
           /\ todo[d] # <<>> /\ todo[d] \notin ReserveProgs
<1> DEFINE p == todo[d]
           v == todo'[d]
<1>1. p \in Programs /\ \A u : Goes(d, u) => todo'[d] = u
  BY GoesTo DEF Shape, ProgramsOfDrivers
<1>2. p # <<>> /\ Head(p) \notin {"reserve", "abandon"}
  BY DEF Drive, PostNewTx, PostCommitTx, PostRollbackTx, Timeout, MarkCommitting,
        SettleOutgoing, SettleFails, MarkCommitted, ReleaseOutgoing, MarkRolledBack,
        MarkFailed, At
<1>3. p \notin ReserveProgs
  BY <1>2, Heads DEF ReserveProgs
<1>4. CASE PostNewTx(d)
  <2>1. p = <<"newtx">> /\ v = <<"vote">> /\ row' = row
    BY <1>1, <1>4, ProgramAt DEF PostNewTx, At, sender
  <2> QED BY <1>2, <1>3, <2>1 DEF PivotProgs
<1>5. CASE PostCommitTx(d)
  <2>1. v \in AckProgs
    BY <1>1, <1>5, NextProgram DEF PostCommitTx, At
  <2>2. v \notin AskProgs /\ v \notin PivotProgs /\ v \notin AbortProgs
    BY <2>1, Classes
  <2> QED BY <1>2, <1>3, <2>2 DEF AbortProgs, UndoProgs
<1>6. CASE Goes(d, <<>>)
  <2>1. v = <<>>
    BY <1>1, <1>6
  <2> QED BY <1>2, <1>3, <2>1 DEF AskProgs, PivotProgs
<1>7. CASE Goes(d, Tail(p)) /\ Head(p) \in {"pivot", "settle", "close", "release", "abort",
                                            "rollback", "fail"}
  <2>1. v = Tail(p)
    BY <1>1, <1>7
  <2>2. \/ v \in CommitProgs \/ v = <<>> \/ v \in GiveUpProgs
        \/ v = <<"rollback">>
        \/ v = <<"abort", "rollback">> /\ p = <<"release", "abort", "rollback">>
        \/ v = <<"release", "rollback">> /\ p = <<"abort", "release", "rollback">>
    <3>1. CASE Head(p) \in {"pivot", "settle", "close", "fail"}
      BY <1>1, <1>2, <2>1, <3>1, NextProgram DEF CommitProgs, PaidProgs
    <3>2. CASE Head(p) = "release"
      BY ZenonT(40), <1>1, <1>2, <2>1, <3>2, ProgramAt, Tails DEF GiveUpProgs
    <3>3. CASE Head(p) = "abort"
      BY <1>1, <1>2, <2>1, <3>3, ProgramAt, Tails
    <3>4. CASE Head(p) = "rollback"
      BY <1>1, <1>2, <2>1, <3>4, ProgramAt, Tails DEF GiveUpProgs
    <3> QED BY <1>7, <3>1, <3>2, <3>3, <3>4
  <2>3. v \in CommitProgs \cup {<<>>, <<"rollback">>} \cup GiveUpProgs
           \cup {<<"abort", "rollback">>, <<"release", "rollback">>}
    BY <2>2
  <2>4. v \notin AskProgs /\ v \notin PivotProgs
    BY <2>3, Classes DEF AbortProgs, UndoProgs
  <2>5. v # <<"abort", "release", "rollback">> /\ v # <<"release", "abort", "rollback">>
    BY <2>3 DEF CommitProgs, AckProgs, PaidProgs, GiveUpProgs
  <2>6. v = <<"abort", "rollback">> => p = <<"release", "abort", "rollback">>
    BY <2>2 DEF CommitProgs, AckProgs, PaidProgs, GiveUpProgs
  <2>7. v = <<"release", "rollback">> => p = <<"abort", "release", "rollback">>
    BY <2>2 DEF CommitProgs, AckProgs, PaidProgs, GiveUpProgs
  <2> QED BY <1>2, <1>3, <2>4, <2>5, <2>6, <2>7
<1> QED BY <1>4, <1>5, <1>6, <1>7 DEF Drive, PostRollbackTx, Timeout, MarkCommitting,
        SettleOutgoing, SettleFails, MarkCommitted, ReleaseOutgoing, MarkRolledBack,
        MarkFailed, At, Advance, Stop

(* The inline call stays alone. *)
LEMMA InlineFirstStep ==
    ASSUME Calm, CalmInv, Settles, [Next]_vars
    PROVE  InlineFirst'
<1>1. /\ Columns /\ Shape /\ Orderly /\ InlineFirst
      /\ Drivers = {"inline", "cron", "reconciler"}
      /\ \A e \in Drivers : todo[e] \in Programs
  BY ColumnsType DEF CalmInv, Shape, ProgramsOfDrivers, Drivers
<1> USE DEF InlineFirst
<1>2. ASSUME UNCHANGED <<row, todo>> PROVE InlineFirst'
  BY <1>1, <1>2
<1>3. CASE Inline
  <2>1. CASE InitiateOutboundTx
    <3>1. row.status = "none" /\ row'.status = "pending" /\ Goes("inline", <<"reserve", "newtx">>)
      BY <1>1, <2>1 DEF InitiateOutboundTx, Columns
    <3>2. todo'["inline"] = <<"reserve", "newtx">> /\ todo'["cron"] = <<>>
          /\ todo'["reconciler"] = <<>>
      BY <1>1, <3>1, GoesTo DEF Shape
    <3> QED BY <3>1, <3>2
  <2>2. CASE ReserveOutgoing \/ ReserveFails
    <3>1. todo["inline"] = <<"reserve", "newtx">> /\ row' = row
      BY <1>1, <2>2, ProgramAt DEF ReserveOutgoing, ReserveFails, At
    <3>2. PICK p \in {<<"newtx">>, <<"abandon">>} : Goes("inline", p)
      BY <2>2, <3>1, Tails DEF ReserveOutgoing, ReserveFails, Advance
    <3>3. todo'["inline"] = p /\ todo'["cron"] = <<>> /\ todo'["reconciler"] = <<>>
      BY <1>1, <3>1, <3>2, GoesTo DEF Shape
    <3>4. row'.status = "pending"
      BY <1>1, <3>1 DEF AskProgs
    <3> QED BY <3>2, <3>3, <3>4
  <2>3. CASE Abandon
    <3>1. todo["inline"] = <<"abandon">> /\ Goes("inline", <<>>)
      BY <1>1, <2>3, ProgramAt DEF Abandon, At, Stop
    <3>2. todo'["inline"] = <<>> /\ todo'["cron"] = <<>> /\ todo'["reconciler"] = <<>>
      BY <1>1, <3>1, GoesTo DEF Shape
    <3> QED BY <1>1, <3>2 DEF AskProgs, PivotProgs
  <2> QED BY <1>3, <2>1, <2>2, <2>3 DEF Inline
<1>4. CASE CronTick \/ ReconcilerTick \/ CheckStatus
  <2>1. /\ todo["inline"] = <<>> /\ row' = row /\ row.status # "none"
        /\ \E e \in {"cron", "reconciler"} : \E u : Goes(e, u) /\ (e = "cron" => u = CronPlan)
    <3>1. CASE CheckStatus
      <4>1. todo["reconciler"] # <<>> /\ row' = row /\ \E u : Goes("reconciler", u)
        BY <3>1 DEF CheckStatus, At, Stop, sender
      <4> QED BY <1>1, <4>1
    <3>2. CASE CronTick \/ ReconcilerTick
      BY <3>2 DEF CronTick, ReconcilerTick, Resumable, Calm, sender
    <3> QED BY <1>4, <3>1, <3>2
  <2>2. todo'["inline"] = <<>> /\ (todo'["cron"] = todo["cron"] \/ todo'["cron"] = CronPlan)
    BY <1>1, <2>1, GoesTo DEF Shape
  <2>3. CronPlan \notin {<<"release", "abort", "rollback">>, <<"abort", "rollback">>}
    <3>1. /\ CommitPath("cron") = <<"settle", "commit", "close">>
          /\ GiveUpPath = <<"release", "rollback", "fail">>
      BY DEF CommitPath, GiveUpPath
    <3> QED BY <3>1 DEF CronPlan
  <2>4. row'.status # "none"
    BY <2>1
  <2> QED BY <1>1, <2>2, <2>3, <2>4 DEF AskProgs, PivotProgs
<1>5. CASE SweepHold \/ Worker \/ AccountChanges \/ UNCHANGED vars
  BY <1>2, <1>5 DEF SweepHold, Worker, WorkerReserve, WorkerCache, WorkerAborts,
        AccountChanges,
        vars, sender
<1>6. CASE Crash
  BY <1>1, <1>6 DEF Crash, Calm, Columns
<1>7. ASSUME NEW d \in Drivers, Drive(d) PROVE InlineFirst'
  <2>1. /\ row'.status = "none" => row.status = "none"
        /\ \A e \in Drivers : e # d => todo'[e] = todo[e]
        /\ todo[d] # <<>> /\ row.status # "none"
    BY <1>1, <1>7, MarkDrive
  <2>2. CASE d = "inline"
    <3>1. todo'["cron"] = <<>> /\ todo'["reconciler"] = <<>>
      BY <1>1, <2>1, <2>2
    <3>2. todo'["inline"] \in AskProgs => row'.status = "pending"
      BY <1>1, <1>7, <2>2, DriveProgram DEF AskProgs
    <3>3. /\ todo'["inline"] \notin PivotProgs
          /\ todo'["inline"] # <<"release", "abort", "rollback">>
          /\ todo'["inline"] \notin {<<"abort", "release", "rollback">>, <<"release", "rollback">>}
      BY <1>1, <1>7, <2>2, DriveProgram
    <3> QED BY <2>1, <3>1, <3>2, <3>3
  <2>3. CASE d # "inline"
    <3>1. todo'["inline"] = <<>>
      BY <1>1, <2>1, <2>3
    <3>2. todo'["cron"] \notin {<<"release", "abort", "rollback">>, <<"abort", "rollback">>}
      BY <1>1, <1>7, <2>1, DriveProgram
    <3> QED BY <2>1, <3>1, <3>2 DEF AskProgs, PivotProgs
  <2> QED BY <2>2, <2>3
<1>8. ASSUME NEW q \in reqs, Handle(q) PROVE InlineFirst'
  <2>1. Answers(q)
    BY <1>1, <1>8, HandleEffect
  <2>2. row'.status = row.status
    BY <2>1 DEF Answers
  <2>3. \A d \in Drivers : todo[d] = <<>> => todo'[d] = <<>>
    <3> SUFFICES ASSUME NEW d \in Drivers, todo[d] = <<>> PROVE todo'[d] = <<>>
      OBVIOUS
    <3>1. todo[d] # <<"vote">> /\ todo[d] \notin AckProgs
      BY DEF AckProgs
    <3> QED BY <2>1, <3>1 DEF Answers
  <2>4. AbortPath("inline") = <<"release", "abort", "rollback">>
        /\ AbortPath("cron") = <<"abort", "release", "rollback">>
    BY DEF AbortPath
  <2>5. todo'["inline"] \in AskProgs \cup PivotProgs \cup {<<"release", "abort", "rollback">>}
          => row'.status = "pending"
    <3>1. CASE todo'["inline"] = todo["inline"]
      BY <1>1, <2>2, <3>1
    <3>2. CASE todo["inline"] = <<"vote">>
      BY <1>1, <2>2, <3>2 DEF AskProgs
    <3>3. CASE todo'["inline"] = <<>> \/ todo'["inline"] \in PaidProgs
      BY <3>3 DEF AskProgs, PivotProgs, PaidProgs
    <3> QED BY <1>1, <2>1, <3>1, <3>2, <3>3 DEF Answers
  <2>6. todo'["inline"] \notin {<<"abort", "release", "rollback">>, <<"release", "rollback">>}
    BY <1>1, <2>1, <2>4 DEF Answers, PivotProgs, PaidProgs
  <2>7. todo'["cron"] \notin {<<"release", "abort", "rollback">>, <<"abort", "rollback">>}
    BY <1>1, <2>1, <2>4 DEF Answers, PivotProgs, PaidProgs
  <2>8. todo'["inline"] # <<>> => todo'["cron"] = <<>> /\ todo'["reconciler"] = <<>>
    BY <1>1, <2>3
  <2> QED BY <1>1, <2>2, <2>3, <2>5, <2>6, <2>7, <2>8
<1> QED BY <1>3, <1>4, <1>5, <1>6, <1>7, <1>8 DEF Next, Crons

(* Requests on their way stay right about the payment, ... *)
LEMMA RequestsKnowStep ==
    ASSUME CalmInv, Settles, [Next]_vars
    PROVE  RequestsKnow'
<1>1. /\ Columns /\ Shape /\ Orderly /\ RequestsKnow
      /\ \A e \in Drivers : Knows(e) /\ todo[e] \in Programs
  BY ColumnsType DEF CalmInv, Shape, ProgramsOfDrivers, ProgramsKnow
<1> DEFINE Says(r) == /\ r.kind = "COMMIT_TX" =>
                            /\ Decided'
                            /\ r.stage \in {"read", "applied"} => inc' # "none"
                            /\ r.stage = "applied" => inc' = "committed"
                      /\ r.kind = "ROLLBACK_TX" => Dead'
<1>2. SUFFICES \A r \in reqs' : Says(r)
  BY DEF RequestsKnow
<1>3. /\ Decided => Decided'
      /\ Dead => Dead'
      /\ inc # "none" => inc' # "none"
      /\ inc = "committed" => inc' = "committed"
  BY DEF Settles
<1>4. ASSUME NEW q \in reqs, NEW r, r.kind = q.kind, r.stage = q.stage PROVE Says(r)
  BY <1>1, <1>3, <1>4 DEF RequestsKnow
<1>5. CASE reqs' = reqs
  BY <1>4, <1>5
<1>6. CASE Crash
  <2> SUFFICES ASSUME NEW q \in reqs, NEW r, r = [q EXCEPT !.to = Nobody] PROVE Says(r)
    BY <1>6 DEF Crash
  <2>1. r.kind = q.kind /\ r.stage = q.stage
    BY <1>1 DEF Columns, Request
  <2> QED BY <1>4, <2>1
<1>7. ASSUME NEW d \in Drivers, Drive(d) PROVE \A r \in reqs' : Says(r)
  <2> DEFINE p == todo[d]
  <2>1. CASE Timeout(d)
    <3> SUFFICES ASSUME NEW q \in reqs, NEW r,
                        r = [q EXCEPT !.to = IF @ = d THEN Nobody ELSE @]
                 PROVE  Says(r)
      BY <2>1 DEF Timeout
    <3>1. r.kind = q.kind /\ r.stage = q.stage
      BY <1>1 DEF Columns, Request
    <3> QED BY <1>4, <3>1
  <2>2. CASE PostNewTx(d)
    <3>1. \A r \in reqs' : r \in reqs \/ r.kind = "NEW_TX"
      BY <2>2 DEF PostNewTx, Send
    <3> QED BY <1>4, <3>1
  <2>3. CASE PostCommitTx(d)
    <3>1. p # <<>> /\ Head(p) = "commit"
      BY <2>3 DEF PostCommitTx, At
    <3>2. p \in CommitProgs
      BY <1>1, <3>1, ProgramAt DEF CommitProgs
    <3>3. Decided'
      BY <1>1, <1>3, <3>2 DEF Knows
    <3>4. \A r \in reqs' : r \in reqs \/ (r.kind = "COMMIT_TX" /\ r.stage = "sent")
      BY <2>3 DEF PostCommitTx, Send
    <3> QED BY <1>4, <3>3, <3>4
  <2>4. CASE PostRollbackTx(d)
    <3>1. p # <<>> /\ Head(p) = "rollback"
      BY <2>4 DEF PostRollbackTx, At
    <3>2. p \in MarkedProgs \/ p \in GiveUpProgs
      BY <1>1, <3>1, ProgramAt DEF MarkedProgs, GiveUpProgs
    <3>3. Dead'
      BY <1>1, <1>3, <3>2 DEF Knows
    <3>4. \A r \in reqs' : r \in reqs \/ r.kind = "ROLLBACK_TX"
      BY <2>4 DEF PostRollbackTx, Send
    <3> QED BY <1>4, <3>3, <3>4
  <2> QED BY <1>5, <1>7, <2>1, <2>2, <2>3, <2>4 DEF Drive, MarkCommitting,
        SettleOutgoing,
            SettleFails, MarkCommitted, ReleaseOutgoing, MarkRolledBack, MarkFailed
<1>8. ASSUME NEW q \in reqs, Handle(q) PROVE \A r \in reqs' : Says(r)
  <2> SUFFICES ASSUME NEW r \in reqs', r \notin reqs PROVE Says(r)
    BY <1>4
  <2>1. /\ r.kind = q.kind
        /\ r.kind = "COMMIT_TX" =>
              \/ r.stage = "read" /\ rec.vote = "yes" /\ inc' = inc
              \/ /\ q.stage = "read" /\ inc # "released"
                 /\ inc' = IF inc = "pending" THEN "committed" ELSE inc
    BY <1>1, <1>8, HandleEffect DEF Requests
  <2>2. CASE r.kind = "COMMIT_TX"
    <3>1. Decided' /\ (q.stage = "read" => inc # "none")
      BY <1>1, <1>3, <2>1, <2>2 DEF RequestsKnow
    <3>2. rec.vote = "yes" => inc # "none"
      BY DEF CalmInv, RecordKnows
    <3> QED BY <1>1, <1>3, <2>1, <2>2, <3>1, <3>2 DEF Columns
  <2>3. CASE r.kind = "ROLLBACK_TX"
    BY <1>1, <1>3, <2>1, <2>3 DEF RequestsKnow
  <2> QED BY <2>2, <2>3
<1>9. CASE Inline \/ Crons \/ Worker \/ AccountChanges \/ UNCHANGED vars
  BY <1>5, <1>9 DEF Inline, InitiateOutboundTx, ReserveOutgoing, ReserveFails,
        Abandon, Crons,
        CronTick, ReconcilerTick, CheckStatus, SweepHold, Worker, WorkerReserve, WorkerCache,
        WorkerAborts, AccountChanges, vars
<1> QED BY <1>6, <1>7, <1>8, <1>9 DEF Next

(* ... so does the receiver's record, ... *)
LEMMA RecordKnowStep ==
    ASSUME CalmInv, Settles, [Next]_vars
    PROVE  RecordKnows'
<1>1. Columns /\ Shape /\ Orderly /\ RequestsKnow /\ RecordKnows
  BY ColumnsType DEF CalmInv, Shape
<1>2. SUFFICES /\ "yes" \in {rec'.vote, worker'} => inc' # "none"
               /\ "committed" \in rec'.stamps => inc = "committed"
               /\ "rolled_back" \in rec'.stamps => Dead
  BY <1>1 DEF RecordKnows, Settles
<1>3. ASSUME rec'.stamps = rec.stamps,
             rec'.vote \in {rec.vote, worker}, worker' \in {worker, "idle"}
      PROVE  /\ "yes" \in {rec'.vote, worker'} => inc' # "none"
             /\ "committed" \in rec'.stamps => inc = "committed"
             /\ "rolled_back" \in rec'.stamps => Dead
  BY <1>1, <1>3 DEF RecordKnows, Settles
<1>4. CASE WorkerReserve
  <2>1. rec' = rec /\ worker' = (IF accepts THEN "yes" ELSE "no")
        /\ (accepts => inc' # "none")
    BY <1>1, <1>4 DEF WorkerReserve, Columns
  <2> QED BY <1>1, <2>1 DEF RecordKnows, Settles
<1>5. CASE WorkerCache \/ WorkerAborts
  BY <1>1, <1>3, <1>5 DEF WorkerCache, WorkerAborts, Columns
<1>6. CASE Inline \/ Crons \/ AccountChanges \/ Crash \/ UNCHANGED vars
  <2>1. rec' = rec /\ worker' = worker
    BY <1>6 DEF Inline, InitiateOutboundTx, ReserveOutgoing, ReserveFails, Abandon,
          Crons,
        CronTick, ReconcilerTick, CheckStatus, SweepHold, AccountChanges, Crash, vars, receiver
  <2> QED BY <1>3, <2>1
<1>7. CASE \E d \in Drivers : Drive(d)
  <2>1. rec' = rec /\ worker' = worker
    BY <1>7 DEF Drive, PostNewTx, PostCommitTx, PostRollbackTx, Timeout, MarkCommitting,
          SettleOutgoing, SettleFails, MarkCommitted, ReleaseOutgoing, MarkRolledBack,
          MarkFailed, receiver
  <2> QED BY <1>3, <2>1
<1>8. CASE \E q \in reqs : Handle(q)
  <2>1. PICK q \in reqs : Records(q)
    BY <1>1, <1>8, HandleEffect
  <2>2. q.kind = "COMMIT_TX" /\ q.stage = "applied" => inc = "committed"
    BY <1>1 DEF RequestsKnow
  <2>3. q.kind = "ROLLBACK_TX" => Dead
    BY <1>1 DEF RequestsKnow
  <2> QED BY <1>1, <2>1, <2>2, <2>3 DEF Records, RecordKnows, Settles
<1> QED BY <1>4, <1>5, <1>6, <1>7, <1>8 DEF Next, Worker

(* ... and the hold. *)
LEMMA HoldStep ==
    ASSUME Calm, CalmInv, Settles, [Next]_vars
    PROVE  HoldKnows'
<1>1. /\ Columns /\ Shape /\ Orderly /\ InlineFirst /\ HoldKnows
      /\ Drivers = {"inline", "cron", "reconciler"}
      /\ \A e \in Drivers : todo[e] \in Programs
  BY ColumnsType DEF CalmInv, Shape, ProgramsOfDrivers, Drivers
<1>2. ASSUME ~Inline
      PROVE  /\ todo'["inline"] = <<"reserve", "newtx">> => todo["inline"] = <<"reserve", "newtx">>
             /\ todo["inline"] \in ReserveProgs => UNCHANGED hold /\ todo'["inline"] = todo["inline"]
  <2>1. CASE CronTick \/ ReconcilerTick \/ CheckStatus
    <3>1. hold' = hold /\ \E e \in {"cron", "reconciler"} : \E u : Goes(e, u)
      BY <2>1 DEF CronTick, ReconcilerTick, CheckStatus, Stop, sender
    <3>2. todo'["inline"] = todo["inline"]
      BY <1>1, <3>1, GoesTo DEF Shape
    <3> QED BY <3>1, <3>2
  <2>2. CASE SweepHold
    BY <2>2 DEF SweepHold, ReserveProgs
  <2>3. CASE Worker \/ AccountChanges \/ UNCHANGED vars
    BY <2>3 DEF Worker, WorkerReserve, WorkerCache, WorkerAborts, AccountChanges,
          vars, sender
  <2>4. CASE Crash
    BY <1>1, <2>4 DEF Crash, Calm, Columns
  <2>5. ASSUME NEW d \in Drivers, Drive(d)
        PROVE  /\ todo'["inline"] = <<"reserve", "newtx">> => todo["inline"] = <<"reserve", "newtx">>
               /\ todo["inline"] \notin ReserveProgs
    <3>1. /\ todo[d] # <<>> /\ todo[d] \notin ReserveProgs
          /\ todo'[d] # <<"reserve", "newtx">>
          /\ \A e \in Drivers : e # d => todo'[e] = todo[e]
      <4>1. todo[d] # <<>> /\ \A e \in Drivers : e # d => todo'[e] = todo[e]
        BY <2>5, MarkDrive
      <4>2. todo[d] \notin ReserveProgs /\ (todo'[d] \in AskProgs => todo'[d] = <<"vote">>)
        BY <1>1, <2>5, DriveProgram
      <4>3. <<"reserve", "newtx">> \in AskProgs /\ <<"reserve", "newtx">> # <<"vote">>
        BY DEF AskProgs
      <4> QED BY <4>1, <4>2, <4>3
    <3>2. d # "inline" => todo["inline"] = <<>>
      BY <1>1, <3>1 DEF InlineFirst
    <3>3. <<>> \notin ReserveProgs
      BY DEF ReserveProgs
    <3> QED BY <1>1, <3>1, <3>2, <3>3
  <2>6. ASSUME NEW q \in reqs, Handle(q)
        PROVE  /\ todo'["inline"] = <<"reserve", "newtx">> => todo["inline"] = <<"reserve", "newtx">>
               /\ todo["inline"] \in ReserveProgs => UNCHANGED hold /\ todo'["inline"] = todo["inline"]
    <3>1. Answers(q) /\ Records(q)
      BY <1>1, <2>6, HandleEffect
    <3>2. AbortPath("inline") = <<"release", "abort", "rollback">>
      BY DEF AbortPath
    <3>3. todo'["inline"] = <<"reserve", "newtx">> => todo["inline"] = <<"reserve", "newtx">>
      BY <1>1, <3>1, <3>2 DEF Answers, PivotProgs, PaidProgs
    <3>4. ASSUME todo["inline"] \in ReserveProgs PROVE todo'["inline"] = todo["inline"]
      <4>1. todo["inline"] # <<"vote">> /\ todo["inline"] \notin AckProgs
        BY <3>4 DEF ReserveProgs, AckProgs
      <4> QED BY <1>1, <3>1, <4>1 DEF Answers
    <3> QED BY <3>1, <3>3, <3>4 DEF Records
  <2> QED BY <1>2, <2>1, <2>2, <2>3, <2>4, <2>5, <2>6 DEF Next, Crons
<1>3. todo'["inline"] = <<"reserve", "newtx">> => hold' = "none"
  <2>1. CASE Inline
    <3>1. CASE InitiateOutboundTx
      BY <1>1, <3>1 DEF InitiateOutboundTx, HoldKnows
    <3>2. CASE ReserveOutgoing \/ ReserveFails \/ Abandon
      <4>1. ASSUME ReserveOutgoing PROVE Goes("inline", <<"newtx">>)
        BY <1>1, <4>1, NextProgram DEF ReserveOutgoing, Advance, At
      <4>2. PICK p \in {<<"newtx">>, <<"abandon">>, <<>>} : Goes("inline", p)
        BY <3>2, <4>1 DEF ReserveFails, Abandon, Stop
      <4>3. todo'["inline"] = p
        BY <1>1, <4>2, GoesTo DEF Shape
      <4> QED BY <4>2, <4>3
    <3> QED BY <2>1, <3>1, <3>2 DEF Inline
  <2>2. CASE ~Inline
    BY <1>1, <1>2, <2>2 DEF HoldKnows, ReserveProgs
  <2> QED BY <2>1, <2>2
<1>4. hold' = "none" => \/ row'.status \in {"none", "rolled_back", "failed"}
                        \/ todo'["inline"] \in ReserveProgs
  <2> SUFFICES ASSUME hold' = "none"
               PROVE  \/ row'.status \in {"none", "rolled_back", "failed"}
                      \/ todo'["inline"] \in ReserveProgs
    OBVIOUS
  <2>1. hold = "none"
    BY DEF Settles
  <2>2. CASE row.status = "none"
    BY <2>2 DEF Settles, ReserveProgs
  <2>3. CASE row.status \in {"rolled_back", "failed"}
    BY <2>3 DEF Settles
  <2>4. CASE todo["inline"] \in ReserveProgs /\ ~Inline
    BY <1>2, <2>4
  <2>5. CASE todo["inline"] \in ReserveProgs /\ Inline
    <3>1. row.status = "pending"
      BY <1>1, <2>5 DEF InlineFirst, ReserveProgs, AskProgs
    <3>2. CASE ReserveFails
      <4>1. todo'["inline"] = <<"abandon">>
        BY <1>1, <3>2, GoesTo DEF ReserveFails, Shape
      <4> QED BY <4>1 DEF ReserveProgs
    <3>3. CASE Abandon
      BY <1>1, <3>1, <3>3 DEF Abandon, Columns
    <3>4. CASE ReserveOutgoing \/ InitiateOutboundTx
      BY <3>1, <3>4 DEF ReserveOutgoing, InitiateOutboundTx
    <3> QED BY <2>5, <3>2, <3>3, <3>4 DEF Inline
  <2> QED BY <1>1, <2>1, <2>2, <2>3, <2>4, <2>5 DEF HoldKnows
<1>5. row'.status = "none" => hold' = "none"
  <2>1. row.status = "none" => todo["inline"] # <<"reserve", "newtx">>
    BY <1>1 DEF Orderly
  <2> QED BY <1>1, <2>1 DEF Settles, HoldKnows
<1> QED BY <1>1, <1>3, <1>4, <1>5 DEF HoldKnows, Settles

(* All of it holds initially and is kept by every step. *)
LEMMA CalmInduction ==
    ASSUME Calm
    PROVE  /\ Init => CalmInv
           /\ CalmInv /\ [Next]_vars => CalmInv'
<1>1. Init => CalmInv
  <2> SUFFICES ASSUME Init PROVE CalmInv
    OBVIOUS
  <2>1. \A d \in Drivers : todo[d] = <<>>
    BY DEF Init
  <2>2. \A d \in Drivers : Knows(d)
    BY <2>1 DEF Knows, CommitProgs, AckProgs, PaidProgs, SettledProgs, MarkedProgs,
          GiveUpProgs
  <2>3. InlineFirst
    BY <2>1 DEF InlineFirst, Init, Drivers, AskProgs, PivotProgs
  <2>4. RequestsKnow /\ RecordKnows /\ HoldKnows
    BY <2>1 DEF Init, RequestsKnow, RecordKnows, HoldKnows, Drivers
  <2> QED BY <2>2, <2>3, <2>4, ShapeInit DEF CalmInv, ProgramsKnow
<1>2. CalmInv /\ [Next]_vars => CalmInv'
  <2> SUFFICES ASSUME CalmInv, [Next]_vars PROVE CalmInv'
    OBVIOUS
  <2>1. Settles
    BY SettlesStep
  <2>2. Shape' /\ Orderly'
    BY ShapeStep, OrderlyStep DEF CalmInv
  <2> QED BY <2>1, <2>2, InlineFirstStep, KnowsStep, RequestsKnowStep, RecordKnowStep,
        HoldStep
        DEF CalmInv
<1> QED BY <1>1, <1>2

(* When the drivers come one after the other the recipient is credited     *)
(* only against money that is held or gone, and a committed payment was    *)
(* debited, whatever the votes: no cron settles or closes a payment whose  *)
(* hold another driver, or the sweep, has released.                        *)
THEOREM CreditIsBackedHolds ==
    ASSUME Calm
    PROVE  Spec => []CreditIsBacked
<1>1. CalmInv => CreditIsBacked
  <2> SUFFICES ASSUME CalmInv PROVE CreditIsBacked
    OBVIOUS
  <2>1. Columns /\ HoldKnows /\ RecordKnows /\ InlineFirst
    BY ColumnsType DEF CalmInv, Shape
  <2>2. ASSUME inc = "committed" PROVE hold \in {"pending", "settled"}
    <3>1. Decided /\ ~Dead /\ row.status # "pending"
      BY <2>1, <2>2 DEF RecordKnows, Decided, Dead
    <3>2. todo["inline"] \notin ReserveProgs
      BY <2>1, <3>1 DEF InlineFirst, ReserveProgs, AskProgs
    <3> QED BY <2>1, <3>1, <3>2 DEF HoldKnows, Decided, Columns
  <2> QED BY <2>1, <2>2 DEF CreditIsBacked, HoldKnows
<1> QED BY <1>1, CalmInduction, PTL DEF Spec

(* One step moves the row, the credit or the debit. *)
LEMMA OneOfThree ==
    ASSUME Calm, CalmInv, [Next]_vars
    PROVE  /\ row'.status = row.status \/ UNCHANGED <<inc, hold>>
           /\ inc' = inc \/ hold' = hold
           /\ \/ inc' = inc
              \/ inc = "none" /\ inc' = "pending"
              \/ inc = "pending" /\ inc' = "committed" /\ Decided
              \/ inc = "pending" /\ inc' = "released" /\ Dead
           /\ \/ hold' = hold
              \/ hold = "none" /\ hold' = "pending"
              \/ hold = "pending" /\ hold' = "settled" /\ Decided
              \/ hold = "pending" /\ hold' = "released" /\ ~Decided
<1>1. /\ Columns /\ Shape /\ Orderly /\ RequestsKnow /\ HoldKnows /\ Settles
      /\ \A e \in Drivers : todo[e] \in Programs
      /\ Drivers = {"inline", "cron", "reconciler"}
  BY ColumnsType, SettlesStep DEF CalmInv, Shape, ProgramsOfDrivers, Drivers
<1>2. CASE InitiateOutboundTx \/ Abandon
  BY <1>2 DEF InitiateOutboundTx, Abandon, receiver
<1>3. CASE ReserveOutgoing \/ ReserveFails
  <2>1. todo["inline"] = <<"reserve", "newtx">>
    BY <1>1, <1>3, ProgramAt DEF ReserveOutgoing, ReserveFails, At
  <2>2. hold = "none" /\ row' = row /\ inc' = inc /\ hold' \in {"none", "pending"}
    BY <1>1, <1>3, <2>1 DEF ReserveOutgoing, ReserveFails, receiver, HoldKnows
  <2> QED BY <2>2
<1>4. CASE CronTick \/ ReconcilerTick \/ CheckStatus \/ Worker \/ AccountChanges \/ UNCHANGED vars
  <2>1. row' = row /\ hold' = hold /\ (inc' = inc \/ (inc = "none" /\ inc' = "pending"))
    BY <1>4 DEF CronTick, ReconcilerTick, CheckStatus, Worker, WorkerReserve,
          WorkerCache,
          WorkerAborts, AccountChanges, vars, sender, receiver
  <2> QED BY <2>1
<1>5. CASE Crash
  BY <1>1, <1>5 DEF Crash, Calm, Columns
<1>6. CASE SweepHold
  <2>1. /\ UNCHANGED <<row, inc>> /\ hold = "pending" /\ hold' = "released"
        /\ row.status \in {"committed", "rolled_back", "failed"}
    BY <1>6 DEF SweepHold, receiver, Calm
  <2> QED BY <1>1, <2>1 DEF HoldKnows, Decided
<1>7. ASSUME NEW d \in Drivers, Drive(d)
      PROVE  /\ row'.status = row.status \/ UNCHANGED <<inc, hold>>
             /\ inc' = inc
             /\ \/ hold' = hold
                \/ hold = "pending" /\ hold' = "settled" /\ Decided
                \/ hold = "pending" /\ hold' = "released" /\ ~Decided
  <2>1. row'.status = row.status \/ hold' = hold
    BY <1>1, <1>7, AttemptedRow DEF Drive, PostNewTx, PostCommitTx, PostRollbackTx,
          Timeout,
        MarkCommitting, SettleOutgoing, SettleFails, MarkCommitted, ReleaseOutgoing,
        MarkRolledBack, MarkFailed, sender, Shape
  <2>2. Dead' => ~Decided
    BY <1>1 DEF Settles, Dead, Decided
  <2> QED BY <1>7, <2>1, <2>2, HoldDrive
<1>8. ASSUME NEW q \in reqs, Handle(q)
      PROVE  /\ row'.status = row.status /\ hold' = hold
             /\ \/ inc' = inc
                \/ inc = "pending" /\ inc' = "committed" /\ Decided
                \/ inc = "pending" /\ inc' = "released" /\ Dead
  BY <1>1, <1>8, HandleEffect DEF Answers, Records, RequestsKnow
<1> QED BY <1>2, <1>3, <1>4, <1>5, <1>6, <1>7, <1>8 DEF Next, Inline, Crons

(* When the drivers come one after the other both banks obey AtomicCommit, *)
(* whatever the votes: the credit and the debit each end once, as the row  *)
(* decides, and neither is given up once the row is past the pivot.        *)
THEOREM BothBanksCommitAtomically ==
    ASSUME Calm, Parties \subseteq {"credit", "debit"}
    PROVE  Spec => ImplementsAtomicCommit
<1>1. Init => Atomic!Init
  BY DEF Init, Atomic!Init, Decision, Outcome
<1>2. CalmInv /\ [Next]_vars
         => [Atomic!Next]_<<Decision, [p \in Parties |-> Outcome(p)]>>
  <2> SUFFICES ASSUME CalmInv, [Next]_vars
               PROVE  [Atomic!Next]_<<Decision, [p \in Parties |-> Outcome(p)]>>
    OBVIOUS
  <2>1. Columns /\ Settles /\ RecordKnows /\ HoldKnows
    BY SettlesStep, ColumnsType DEF CalmInv, Shape
  <2>2. /\ Decided <=> Decision = "committed"
        /\ row.status \in {"rolled_back", "failed"} <=> Decision = "aborted"
        /\ Decided' <=> Decision' = "committed"
        /\ row'.status \in {"rolled_back", "failed"} <=> Decision' = "aborted"
        /\ Decision \in {"committed", "aborted", "undecided"}
        /\ Decision' \in {"committed", "aborted", "undecided"}
    BY DEF Decided, Decision
  <2>3. /\ Dead => ~Decided
        /\ Dead' => ~Decided'
    BY DEF Dead, Decided
  <2>4. \A p \in Parties : p = "credit" \/ p = "debit"
    OBVIOUS
  <2>5. CASE UNCHANGED <<inc, hold>>
    <3>1. [p \in Parties |-> Outcome(p)]' = [p \in Parties |-> Outcome(p)]
      BY <2>5 DEF Outcome
    <3>2. CASE Decision' = Decision
      BY <3>1, <3>2
    <3>3. CASE Decision = "undecided" /\ Decision' = "committed"
      <4>1. inc # "released" /\ hold # "released"
        BY <2>1, <2>2, <2>3, <3>3 DEF Settles, RecordKnows, HoldKnows
      <4>2. \A p \in Parties : [q \in Parties |-> Outcome(q)][p] # "aborted"
        BY <2>1, <4>1 DEF Outcome, Columns
      <4> QED BY <3>1, <3>3, <4>2 DEF Atomic!Next, Atomic!DecideCommit
    <3>4. CASE Decision = "undecided" /\ Decision' = "aborted"
      BY <3>1, <3>4 DEF Atomic!Next, Atomic!DecideAbort
    <3> QED BY <2>1, <2>2, <3>2, <3>3, <3>4 DEF Settles
  <2>6. CASE inc' # inc
    <3>1. Decision' = Decision /\ hold' = hold
      BY <2>6, OneOfThree DEF Decision
    <3>2. CASE "credit" \notin Parties \/ (inc = "none" /\ inc' = "pending")
      <4>1. [p \in Parties |-> Outcome(p)]' = [p \in Parties |-> Outcome(p)]
        BY <2>4, <3>1, <3>2 DEF Outcome
      <4> QED BY <3>1, <4>1
    <3>3. CASE "credit" \in Parties /\ inc = "pending" /\ inc' = "committed" /\ Decided
      <4>1. Atomic!Commit("credit")
        BY <2>2, <2>4, <3>1, <3>3 DEF Atomic!Commit, Outcome
      <4> QED BY <3>3, <4>1 DEF Atomic!Next
    <3>4. CASE "credit" \in Parties /\ inc = "pending" /\ inc' = "released" /\ Dead
      <4>1. Atomic!Abort("credit")
        BY <2>2, <2>3, <2>4, <3>1, <3>4 DEF Atomic!Abort, Outcome
      <4> QED BY <3>4, <4>1 DEF Atomic!Next
    <3> QED BY <2>6, <3>2, <3>3, <3>4, OneOfThree
  <2>7. CASE hold' # hold
    <3>1. Decision' = Decision /\ inc' = inc
      BY <2>7, OneOfThree DEF Decision
    <3>2. CASE "debit" \notin Parties \/ (hold = "none" /\ hold' = "pending")
      <4>1. [p \in Parties |-> Outcome(p)]' = [p \in Parties |-> Outcome(p)]
        BY <2>4, <3>1, <3>2 DEF Outcome
      <4> QED BY <3>1, <4>1
    <3>3. CASE "debit" \in Parties /\ hold = "pending" /\ hold' = "settled" /\ Decided
      <4>1. Atomic!Commit("debit")
        BY <2>2, <2>4, <3>1, <3>3 DEF Atomic!Commit, Outcome
      <4> QED BY <3>3, <4>1 DEF Atomic!Next
    <3>4. CASE "debit" \in Parties /\ hold = "pending" /\ hold' = "released" /\ ~Decided
      <4>1. Atomic!Abort("debit")
        BY <2>2, <2>4, <3>1, <3>4 DEF Atomic!Abort, Outcome
      <4> QED BY <3>4, <4>1 DEF Atomic!Next
    <3> QED BY <2>7, <3>2, <3>3, <3>4, OneOfThree
  <2> QED BY <2>5, <2>6, <2>7
<1> QED BY <1>1, <1>2, CalmInduction, PTL DEF Spec, ImplementsAtomicCommit, Atomic!Spec
=============================================================================
