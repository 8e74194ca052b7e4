--------------------------- MODULE ServicesProofs ---------------------------
(***************************************************************************)
(* What three of the machines that run beside the queue promise of every   *)
(* state: ToolLoop of the answers, the effects and the cut outputs of an   *)
(* agent's jobs, for any number of attempts, calls a round, rounds,        *)
(* sockets and patches; Login and Daemon for any number of commands,       *)
(* callers and processes.                                                  *)
(***************************************************************************)
EXTENDS ToolLoop, Login, Daemon, TLAPS, FiniteSetTheorems, SequenceTheorems

-----------------------------------------------------------------------------
(***************************************************************************)
(* ToolLoop: the calls of a job, who waits for one, and what is cut        *)
(***************************************************************************)
Calls   == Jobs \X Nat \X Nat
Ats     == {"off", "generating", "calling", "waiting", "over"}
Entries == {e \in [call : Calls, got : Calls \cup {NoCall}] : e.got \in {e.call, NoCall}}
JobRow  == [at : Ats, kind : Kinds \cup {"plain"}, sock : Nat, round : Nat, left : Seq(Calls),
            repaired : BOOLEAN, base : Nat]

JobTypes ==
    /\ job \in [Jobs -> JobRow]
    /\ log \in [Jobs -> Seq(Entries)]

\* A job that calls has its calls left to make, those of its round in order.
Listed(row, j) ==
    row.at \in {"calling", "waiting"} =>
        /\ row.left # <<>>
        /\ \A k \in 1..Len(row.left) : row.left[k] = <<j, row.round, row.left[1][3] + k - 1>>
LeftInv == \A j \in Jobs : Listed(job[j], j)

\* Whoever waits does so under its own id, for the first call its job has left.
Awaits(w) == /\ w.id = w.call /\ w.call[1] \in Jobs
             /\ At(w.call[1]) = "waiting" /\ w.call = job[w.call[1]].left[1]
WaitInv == \A w \in waiters : Awaits(w)

OwnInv == JobTypes /\ LeftInv /\ WaitInv

\* An event that is set reaches only generations it was set over.
CutInv == cancel => \A j \in Jobs : At(j) = "generating" => j \in blamed

-----------------------------------------------------------------------------
LEMMA TailIs ==
    ASSUME NEW S, NEW s \in Seq(S), s # <<>>
    PROVE  /\ Head(s) = s[1] /\ s[1] \in S /\ Tail(s) \in Seq(S) /\ Len(s) \in Nat \ {0}
           /\ DOMAIN s = 1..Len(s)
           /\ Len(Tail(s)) = Len(s) - 1 /\ DOMAIN Tail(s) = 1..Len(s) - 1
           /\ \A k \in 1..Len(s) - 1 : Tail(s)[k] = s[k + 1]
<1>1. /\ Head(s) = s[1] /\ s[1] \in S /\ Tail(s) \in Seq(S) /\ Len(s) \in Nat \ {0}
      /\ DOMAIN s = 1..Len(s)
  BY EmptySeq, LenProperties
<1>2. Len(Tail(s)) = Len(s) - 1 /\ \A k \in 1..Len(Tail(s)) : Tail(s)[k] = s[k + 1]
  BY HeadTailProperties
<1>3. DOMAIN Tail(s) = 1..Len(s) - 1
  BY <1>1, <1>2, LenProperties
<1> QED
  BY <1>1, <1>2, <1>3

\* The row of a job in its next round, and of one that has just started.
LEMMA NextRound ==
    ASSUME NEW row \in JobRow
    PROVE  /\ [row EXCEPT !.at = "generating", !.round = row.round + 1, !.left = <<>>] \in JobRow
           /\ [row EXCEPT !.at = "generating", !.round = row.round + 1, !.left = <<>>].at = "generating"
           /\ [row EXCEPT !.repaired = TRUE, !.round = row.round + 1] \in JobRow
           /\ [row EXCEPT !.repaired = TRUE, !.round = row.round + 1].at = row.at
<1>1. <<>> \in Seq(Calls)
  BY EmptySeq
<1>2. row.round + 1 \in Nat
  BY DEF JobRow
<1> DEFINE round == row.round + 1
           left == <<>>
<1>3. round \in Nat /\ left \in Seq(Calls)
  BY <1>1, <1>2
<1> HIDE DEF round, left
<1>4. /\ [row EXCEPT !.at = "generating", !.round = round, !.left = left] \in JobRow
      /\ [row EXCEPT !.at = "generating", !.round = round, !.left = left].at = "generating"
  BY <1>3 DEF JobRow, Ats
<1>5. /\ [row EXCEPT !.repaired = TRUE, !.round = round] \in JobRow
      /\ [row EXCEPT !.repaired = TRUE, !.round = round].at = row.at
  BY <1>3 DEF JobRow
<1> QED
  BY <1>4, <1>5 DEF round, left

First(k, s, base) ==
    [NoJob EXCEPT !.at = "generating", !.kind = k, !.sock = s, !.round = 1, !.base = base]

LEMMA FirstRound ==
    ASSUME NEW k \in Kinds, NEW s \in Nat, NEW base \in Nat
    PROVE  /\ First(k, s, base) \in JobRow /\ First(k, s, base).at = "generating"
           /\ First(k, s, base).sock = s /\ First(k, s, base).round = 1
<1>1. <<>> \in Seq(Calls)
  BY EmptySeq
<1>2. NoJob \in JobRow
  BY <1>1 DEF NoJob, JobRow, Ats
<1> DEFINE r1 == [NoJob EXCEPT !.at = "generating", !.kind = k]
           r2 == [r1 EXCEPT !.sock = s, !.round = 1]
<1>3. r1 \in JobRow /\ r1.at = "generating"
  BY <1>2 DEF JobRow, Ats
<1> HIDE DEF r1
<1>4. r2 \in JobRow /\ r2.at = "generating" /\ r2.sock = s /\ r2.round = 1
  BY <1>3 DEF JobRow
<1> HIDE DEF r2
<1>5. LET row == [r2 EXCEPT !.base = base]
      IN  row \in JobRow /\ row.at = "generating" /\ row.sock = s /\ row.round = 1
  BY <1>4 DEF JobRow
<1> QED
  BY <1>5 DEF First, r1, r2

\* A job that ends takes its waiters along.
LEMMA OwnOver ==
    ASSUME OwnInv, NEW j \in Jobs, Over(j), log' = log \/ \E e \in Entries : log' = [log EXCEPT ![j] = Append(@, e)]
    PROVE  OwnInv'
<1>0. [NoJob EXCEPT !.at = "over"] \in JobRow
  BY EmptySeq DEF NoJob, JobRow, Ats
<1>1. job' \in [Jobs -> JobRow] /\ job'[j].at = "over" /\ \A d \in Jobs \ {j} : job'[d] = job[d]
  BY <1>0 DEF Over, OwnInv, JobTypes, NoJob
<1>2. log' \in [Jobs -> Seq(Entries)]
  <2>1. \A d \in Jobs : log[d] \in Seq(Entries)
    BY DEF OwnInv, JobTypes
  <2>2. \A e \in Entries : Append(log[j], e) \in Seq(Entries)
    BY <2>1, AppendProperties
  <2> QED
    BY <2>2 DEF OwnInv, JobTypes
<1>3. LeftInv'
  BY <1>1 DEF OwnInv, LeftInv, Listed
<1>4. WaitInv'
  BY <1>1 DEF Over, OwnInv, WaitInv, Awaits, At
<1> QED
  BY <1>1, <1>2, <1>3, <1>4 DEF OwnInv, JobTypes

\* A job begins a round, or a list of calls, and waits for nothing.
LEMMA OwnMoves ==
    ASSUME OwnInv, NEW j \in Jobs, At(j) # "waiting", NEW row \in JobRow, Listed(row, j),
           job' = [job EXCEPT ![j] = row], UNCHANGED <<log, waiters>>
    PROVE  OwnInv'
<1>1. job' \in [Jobs -> JobRow] /\ job'[j] = row /\ \A d \in Jobs \ {j} : job'[d] = job[d]
  BY DEF OwnInv, JobTypes
<1>2. LeftInv'
  BY <1>1 DEF OwnInv, LeftInv, Listed
<1>3. WaitInv'
  BY <1>1 DEF OwnInv, WaitInv, Awaits, At
<1> QED
  BY <1>1, <1>2, <1>3 DEF OwnInv, JobTypes
\* A call is made: its job alone waits under its id.
LEMMA OwnAsk ==
    ASSUME OwnInv, NEW j \in Jobs, Ask(j)
    PROVE  OwnInv'
<1>1. At(j) = "calling" /\ job[j] \in JobRow
  BY DEF Ask, OwnInv, JobTypes
<1>2. job[j].left \in Seq(Calls) /\ job[j].left # <<>> /\ Listed(job[j], j)
  BY <1>1 DEF JobRow, OwnInv, LeftInv, Listed, At
<1> DEFINE call == job[j].left[1]
<1>3. /\ Head(job[j].left) = call /\ Len(job[j].left) \in Nat \ {0}
      /\ call = <<j, job[j].round, call[3]>>
  <2>1. Head(job[j].left) = call /\ Len(job[j].left) \in Nat \ {0}
    BY <1>2, TailIs
  <2>2. 1 \in 1..Len(job[j].left) /\ call \in Calls
    BY <1>2, <2>1, TailIs
  <2>3. call = <<j, job[j].round, call[3] + 1 - 1>>
    BY <1>1, <1>2, <2>2 DEF Listed, At
  <2> QED
    BY <2>1, <2>2, <2>3 DEF Calls
<1>4. CASE Over(j) /\ UNCHANGED log
  BY <1>4, OwnOver
<1>5. CASE /\ job' = [job EXCEPT ![j].at = "waiting"] /\ UNCHANGED log
           /\ waiters' = {w \in waiters : w.id # call} \cup {[id |-> call, call |-> call]}
  <2> DEFINE row == [job[j] EXCEPT !.at = "waiting"]
  <2>1. row \in JobRow /\ row.at = "waiting" /\ row.left = job[j].left /\ row.round = job[j].round
    BY <1>1 DEF JobRow, Ats
  <2>2. job' = [job EXCEPT ![j] = row]
    BY <1>5
  <2>3. Listed(row, j)
    BY <1>1, <1>2, <2>1 DEF Listed, At
  <2> HIDE DEF row
  <2>4. job' \in [Jobs -> JobRow] /\ job'[j] = row /\ \A d \in Jobs \ {j} : job'[d] = job[d]
    BY <2>1, <2>2 DEF OwnInv, JobTypes
  <2>5. LeftInv'
    BY <2>3, <2>4 DEF OwnInv, LeftInv
  <2>6. \A w \in waiters : w.call[1] # j
    BY <1>1 DEF OwnInv, WaitInv, Awaits
  <2>7. WaitInv'
    <3> SUFFICES ASSUME NEW w \in waiters' PROVE Awaits(w)'
      BY DEF WaitInv
    <3>1. CASE w \in waiters
      BY <2>4, <2>6, <3>1 DEF OwnInv, WaitInv, Awaits, At
    <3>2. CASE w = [id |-> call, call |-> call]
      <4>1. w.id = call /\ w.call = call /\ w.call[1] = j
        BY <1>3, <3>2
      <4> QED
        BY <2>1, <2>4, <4>1 DEF Awaits, At
    <3> QED
      BY <1>5, <3>1, <3>2
  <2> QED
    BY <1>5, <2>4, <2>5, <2>7 DEF OwnInv, JobTypes
<1> QED
  BY <1>3, <1>4, <1>5 DEF Ask, WireId

\* An answer is put on the transcript beside the call the job waits for.
LEMMA OwnAnswered ==
    ASSUME OwnInv, NEW j \in Jobs, At(j) = "waiting", NEW got, got \in {job[j].left[1], NoCall},
           Answered(j, got)
    PROVE  OwnInv'
<1>1. /\ job[j] \in JobRow /\ job[j].left \in Seq(Calls) /\ job[j].left # <<>> /\ Listed(job[j], j)
      /\ log[j] \in Seq(Entries)
  BY DEF OwnInv, JobTypes, LeftInv, Listed, JobRow, At
<1> DEFINE left == job[j].left
           rest == Tail(job[j].left)
           e == [call |-> left[1], got |-> got]
<1>2. /\ Head(left) = left[1] /\ left[1] \in Calls /\ rest \in Seq(Calls) /\ Len(left) \in Nat \ {0}
      /\ Len(rest) = Len(left) - 1 /\ \A k \in 1..Len(left) - 1 : rest[k] = left[k + 1]
  BY <1>1, TailIs
<1>3. e \in Entries
  BY <1>2 DEF Entries
<1>4. log' = [log EXCEPT ![j] = Append(@, e)]
  BY <1>2 DEF Answered
<1> HIDE DEF e
<1>5. log' \in [Jobs -> Seq(Entries)]
  <2>1. Append(log[j], e) \in Seq(Entries)
    BY <1>1, <1>3, AppendProperties
  <2> QED
    BY <1>4, <2>1 DEF OwnInv, JobTypes
<1>6. CASE Over(j)
  BY <1>3, <1>4, <1>6, OwnOver
<1>7. ASSUME NEW row \in JobRow, Listed(row, j), job' = [job EXCEPT ![j] = row],
             waiters' = {w \in waiters : w.call # left[1]}
      PROVE  OwnInv'
  <2>1. job' \in [Jobs -> JobRow] /\ job'[j] = row /\ \A d \in Jobs \ {j} : job'[d] = job[d]
    BY <1>7 DEF OwnInv, JobTypes
  <2>2. LeftInv'
    BY <1>7, <2>1 DEF OwnInv, LeftInv
  <2>3. \A w \in waiters' : w \in waiters /\ w.call[1] # j
    BY <1>7 DEF OwnInv, WaitInv, Awaits
  <2>4. WaitInv'
    BY <2>1, <2>3 DEF OwnInv, WaitInv, Awaits, At
  <2> QED
    BY <1>5, <2>1, <2>2, <2>4 DEF OwnInv, JobTypes
<1>8. CASE /\ job' = [job EXCEPT ![j].at = "calling", ![j].left = rest] /\ rest # <<>>
           /\ waiters' = {w \in waiters : w.call # left[1]}
  <2> DEFINE row == [job[j] EXCEPT !.at = "calling", !.left = rest]
  <2>1. row \in JobRow /\ row.at = "calling" /\ row.left = rest /\ row.round = job[j].round
    BY <1>1, <1>2 DEF JobRow, Ats
  <2>2. job' = [job EXCEPT ![j] = row]
    BY <1>1, <1>8 DEF OwnInv, JobTypes
  <2>3. Listed(row, j)
    <3>1. \A k \in 1..Len(left) : left[k] = <<j, job[j].round, left[1][3] + k - 1>>
      BY <1>1 DEF Listed, At
    <3>2. left[1][3] \in Nat
      BY <1>2 DEF Calls
    <3>3. 1 \in 1..Len(rest) /\ rest[1] = left[2] /\ 2 \in 1..Len(left)
      <4>1. Len(rest) # 0
        BY <1>2, <1>8, EmptySeq
      <4>0. PICK n \in Nat \ {0} : n = Len(left)
        BY <1>2
      <4>2. n - 1 # 0 /\ Len(left) - 1 = n - 1
        BY <1>2, <4>0, <4>1
      <4>3. 1 \in 1..n - 1 /\ 1 + 1 = 2 /\ 2 \in 1..n
        BY <4>2
      <4>4. 1 \in 1..Len(left) - 1 /\ 1 + 1 = 2 /\ 2 \in 1..Len(left)
        BY <4>0, <4>2, <4>3
      <4>5. rest[1] = left[1 + 1]
        BY <1>2, <4>4
      <4>6. 1 \in 1..Len(rest)
        BY <1>2, <4>4
      <4> QED
        BY <4>4, <4>5, <4>6
    <3>4. rest[1][3] = left[1][3] + 1
      BY <3>1, <3>2, <3>3
    <3>5. ASSUME NEW k \in 1..Len(rest) PROVE rest[k] = <<j, job[j].round, rest[1][3] + k - 1>>
      <4>1. k + 1 \in 1..Len(left) /\ rest[k] = left[k + 1]
        BY <1>2
      <4>2. rest[k] = <<j, job[j].round, left[1][3] + (k + 1) - 1>>
        BY <3>1, <4>1
      <4>3. left[1][3] + (k + 1) - 1 = rest[1][3] + k - 1
        BY <3>2, <3>4
      <4> QED
        BY <4>2, <4>3
    <3> QED
      BY <1>8, <2>1, <3>5 DEF Listed
  <2> HIDE DEF row
  <2> QED
    BY <1>7, <1>8, <2>1, <2>2, <2>3
<1>9. CASE Begins(j, job[j].round + 1) /\ waiters' = {w \in waiters : w.call # left[1]}
  <2> DEFINE row == [job[j] EXCEPT !.at = "generating", !.round = job[j].round + 1, !.left = <<>>]
  <2>1. row \in JobRow /\ row.at = "generating"
    BY <1>1, NextRound
  <2>2. job' = [job EXCEPT ![j] = row]
    BY <1>1, <1>9 DEF Begins, OwnInv, JobTypes
  <2>3. Listed(row, j)
    BY <2>1 DEF Listed
  <2> HIDE DEF row
  <2> QED
    BY <1>7, <1>9, <2>1, <2>2, <2>3
<1> QED
  BY <1>2, <1>6, <1>8, <1>9 DEF Answered
\* Only a reconnection changes the number of the agent's socket.
LEMMA SockStep ==
    ASSUME [ToolNext]_toolVars
    PROVE  (Reconnect /\ sock' = sock + 1) \/ sock' = sock
<1> USE DEF wire
<1>1. ASSUME NEW j \in Jobs, NEW k \in Kinds, NEW base \in 0..patches, Start(j, k, base) PROVE sock' = sock
  BY <1>1 DEF Start
<1>2. ASSUME NEW j \in Jobs, JobStep(j) PROVE sock' = sock
  BY <1>2 DEF JobStep, Fails, TextAgain, TextEnds, Repair, Concludes, Wants, Ask
<1>3. ASSUME NEW j \in Jobs, Timeout(j) \/ SendRevoke(j) PROVE sock' = sock
  BY <1>3 DEF Timeout, SendRevoke
<1>4. ReadAnswer \/ ReadRevoke \/ ReadInvalidate \/ Break \/ HangUp \/ UNCHANGED toolVars => sock' = sock
  BY DEF ReadAnswer, ReadRevoke, ReadInvalidate, Break, HangUp, toolVars
<1>5. ASSUME NEW s \in Socks, Execute(s) \/ Reply(s) \/ HandleResult(s) PROVE sock' = sock
  BY <1>5 DEF Execute, Reply, HandleResult
<1>6. \A p \in Paths : Patch(p) => sock' = sock
  BY DEF Patch
<1>7. Reconnect => sock' = sock + 1
  BY DEF Reconnect
<1> QED
  BY <1>1, <1>2, <1>3, <1>4, <1>5, <1>6, <1>7 DEF ToolNext

LEMMA OwnStep ==
    ASSUME OwnInv, sock \in Nat, [ToolNext]_toolVars
    PROVE  OwnInv'
<1>0. \A j \in Jobs : job[j] \in JobRow /\ Listed(job[j], j)
  BY DEF OwnInv, JobTypes, LeftInv
<1>1. UNCHANGED <<job, log, waiters>> => OwnInv'
  BY DEF OwnInv, JobTypes, LeftInv, WaitInv, Awaits, At
<1>2. <<>> \in Seq(Calls)
  BY EmptySeq
<1>3. ASSUME NEW j \in Jobs, NEW k \in Kinds, NEW base \in 0..patches, Start(j, k, base) PROVE OwnInv'
  <2> DEFINE row == First(k, sock, base)
  <2>0. base \in Nat
    OBVIOUS
  <2>1. row \in JobRow /\ row.at = "generating"
    BY <2>0, FirstRound
  <2>2. job' = [job EXCEPT ![j] = row]
    BY <1>3 DEF Start, First
  <2> HIDE DEF row
  <2> QED
    BY <1>3, <2>1, <2>2, OwnMoves DEF Start, Listed
<1>4. ASSUME NEW j \in Jobs, Fails(j) \/ TextEnds(j) \/ Concludes(j) PROVE OwnInv'
  BY <1>4, OwnOver DEF Fails, TextEnds, Concludes
<1>5. ASSUME NEW j \in Jobs, TextAgain(j) PROVE OwnInv'
  <2> DEFINE row == [job[j] EXCEPT !.at = "generating", !.round = job[j].round + 1, !.left = <<>>]
  <2>1. row \in JobRow /\ row.at = "generating"
    BY <1>0, NextRound
  <2>2. job' = [job EXCEPT ![j] = row]
    BY <1>5 DEF TextAgain, Begins, OwnInv, JobTypes
  <2> HIDE DEF row
  <2> QED
    BY <1>5, <2>1, <2>2, OwnMoves DEF TextAgain, Streamed, Listed
<1>6. ASSUME NEW j \in Jobs, Repair(j) PROVE OwnInv'
  <2> DEFINE row == [job[j] EXCEPT !.repaired = TRUE, !.round = job[j].round + 1]
  <2>0. job[j].at = "generating"
    BY <1>6 DEF Repair, At
  <2>1. row \in JobRow /\ row.at = "generating"
    BY <1>0, <2>0, NextRound
  <2>2. job' = [job EXCEPT ![j] = row]
    BY <1>6 DEF Repair, OwnInv, JobTypes
  <2> HIDE DEF row
  <2> QED
    BY <1>6, <2>1, <2>2, OwnMoves DEF Repair, Listed
<1>7. ASSUME NEW j \in Jobs, NEW n \in 1..(FanOut + 1), Wants(j, n) PROVE OwnInv'
  <2> DEFINE most == IF n < FanOut THEN n ELSE FanOut
             left == [i \in 1..most |-> Call(j, i)]
             row == [job[j] EXCEPT !.at = "calling", !.left = left]
  <2>1. most \in Nat \ {0}
    BY ToolAssumption
  <2> HIDE DEF most
  <2>2. job[j].round \in Nat
    BY <1>0 DEF JobRow
  <2>3. left \in [1..most -> Calls]
    BY <2>1, <2>2 DEF Call, Calls
  <2>4. left \in Seq(Calls) /\ Len(left) = most
    BY <2>1, <2>3, SeqDef, LenProperties
  <2>5. left # <<>>
    BY <2>1, <2>4, EmptySeq
  <2>6. \A k \in 1..most : left[k] = <<j, job[j].round, left[1][3] + k - 1>>
    <3>1. left[1] = <<j, job[j].round, 1>>
      BY <2>1 DEF Call
    <3>2. \A k \in 1..most : left[k] = <<j, job[j].round, k>> /\ 1 + k - 1 = k
      BY <2>1 DEF Call
    <3> HIDE DEF left
    <3> QED
      BY <3>1, <3>2
  <2> HIDE DEF left
  <2>7. row \in JobRow /\ row.left = left /\ row.round = job[j].round
    BY <1>0, <2>4 DEF JobRow, Ats
  <2>8. Listed(row, j)
    BY <2>4, <2>5, <2>6, <2>7 DEF Listed
  <2>9. job' = [job EXCEPT ![j] = row]
    BY <1>7 DEF Wants, OwnInv, JobTypes, most, left
  <2> HIDE DEF row
  <2> QED
    BY <1>7, <2>7, <2>8, <2>9, OwnMoves DEF Wants
<1>8. ASSUME NEW j \in Jobs, Ask(j) PROVE OwnInv'
  BY <1>8, OwnAsk
<1>9. ASSUME NEW j \in Jobs, Timeout(j) PROVE OwnInv'
  BY <1>9, OwnAnswered DEF Timeout
<1>10. CASE ReadAnswer
  <2>1. CASE UNCHANGED <<job, log, waiters>>
    BY <1>1, <2>1
  <2>2. ASSUME NEW w \in waiters, w.id = Head(down[sock]).call,
               Answered(w.call[1], Head(down[sock]).call)
        PROVE  OwnInv'
    <3>1. Awaits(w)
      BY DEF OwnInv, WaitInv
    <3> QED
      BY <2>2, <3>1, OwnAnswered DEF Awaits
  <2> QED
    BY <1>10, <2>1, <2>2 DEF ReadAnswer, WireId
<1>11. CASE ReadRevoke
  <2>1. CASE UNCHANGED <<job, waiters>>
    BY <1>1, <1>11, <2>1 DEF ReadRevoke
  <2>2. ASSUME NEW j \in Running, Over(j) PROVE OwnInv'
    BY <1>11, <2>2, OwnOver DEF ReadRevoke, Running
  <2> QED
    BY <1>11, <2>1, <2>2 DEF ReadRevoke
<1>12. CASE \/ ReadInvalidate \/ Break \/ Reconnect \/ HangUp \/ UNCHANGED toolVars
            \/ \E j \in Jobs : SendRevoke(j)
            \/ \E s \in Socks : Execute(s) \/ Reply(s) \/ HandleResult(s)
            \/ \E p \in Paths : Patch(p)
  BY <1>1, <1>12 DEF ReadInvalidate, Break, Reconnect, HangUp, toolVars, SendRevoke, Execute, Reply,
                     HandleResult, Patch
<1> QED
  BY <1>3, <1>4, <1>5, <1>6, <1>7, <1>8, <1>9, <1>10, <1>11, <1>12 DEF ToolNext, JobStep

LEMMA InvariantOwnInv == ToolSpec => [](OwnInv /\ sock \in Nat)
<1>1. ToolInit => OwnInv /\ sock \in Nat
  <2> SUFFICES ASSUME ToolInit PROVE OwnInv
    <3>1. ToolInit => sock \in Nat
      BY DEF ToolInit
    <3> QED
      BY <3>1
  <2>1. <<>> \in Seq(Calls) /\ <<>> \in Seq(Entries)
    BY EmptySeq
  <2>2. JobTypes
    BY <2>1 DEF ToolInit, JobTypes, NoJob, JobRow, Ats
  <2>3. LeftInv /\ WaitInv
    BY DEF ToolInit, LeftInv, Listed, WaitInv, NoJob
  <2> QED
    BY <2>2, <2>3 DEF OwnInv
<1>2. OwnInv /\ sock \in Nat /\ [ToolNext]_toolVars => OwnInv'
  BY OwnStep
<1>3. sock \in Nat /\ [ToolNext]_toolVars => (sock \in Nat)'
  BY SockStep
<1> QED
  BY <1>1, <1>2, <1>3, PTL DEF ToolSpec

\* call_tool of node/agent.py: what stands on a transcript beside a call is that
\* call's result or the note that there was none.
THEOREM AnswersAreOwn == ToolSpec => []OwnAnswer
<1>1. OwnInv => OwnAnswer
  <2> SUFFICES ASSUME OwnInv, NEW j \in Jobs, NEW i \in 1..Len(log[j])
               PROVE  log[j][i].got \in {log[j][i].call, NoCall}
    BY DEF OwnAnswer
  <2>1. log[j][i] \in Entries
    BY DEF OwnInv, JobTypes
  <2> QED
    BY <2>1 DEF Entries
<1> QED
  BY <1>1, InvariantOwnInv, PTL

-----------------------------------------------------------------------------
(***************************************************************************)
(* The shared cancel event                                                 *)
(***************************************************************************)
LEMMA CutStep ==
    ASSUME OwnInv, CutInv, [ToolNext]_toolVars
    PROVE  CutInv'
<1>1. \A j \in Jobs : Generates(j) => CutInv'
  BY DEF Generates, CutInv
<1>2. ASSUME NEW j \in Jobs, Over(j), UNCHANGED <<cancel, blamed>> PROVE CutInv'
  BY <1>2 DEF Over, OwnInv, JobTypes, CutInv, At, NoJob
<1>3. UNCHANGED <<job, cancel, blamed>> => CutInv'
  BY DEF CutInv, At
<1>4. ASSUME NEW j \in Jobs, NEW at \in Ats \ {"generating"}, job'[j].at = at,
             \A d \in Jobs \ {j} : job'[d] = job[d], UNCHANGED <<cancel, blamed>>
      PROVE  CutInv'
  BY <1>4 DEF CutInv, At
<1>5. ASSUME NEW j \in Jobs, Fails(j) \/ TextEnds(j) \/ Concludes(j) PROVE CutInv'
  BY <1>2, <1>5 DEF Fails, TextEnds, Concludes
<1>6. ASSUME NEW j \in Jobs, NEW n \in 1..(FanOut + 1), Wants(j, n) PROVE CutInv'
  <2>1. job'[j].at = "calling" /\ \A d \in Jobs \ {j} : job'[d] = job[d]
    BY <1>6 DEF Wants, OwnInv, JobTypes, JobRow
  <2> QED
    BY <1>4, <1>6, <2>1 DEF Wants, Ats
<1>7. ASSUME NEW j \in Jobs, Ask(j) PROVE CutInv'
  <2>1. CASE job' = [job EXCEPT ![j].at = "waiting"]
    <3>1. job'[j].at = "waiting" /\ \A d \in Jobs \ {j} : job'[d] = job[d]
      BY <2>1 DEF OwnInv, JobTypes, JobRow
    <3> QED
      BY <1>4, <1>7, <3>1 DEF Ask, Ats
  <2> QED
    BY <1>2, <1>7, <2>1 DEF Ask
<1>8. ASSUME NEW j \in Jobs, NEW got, Answered(j, got) PROVE CutInv'
  <2>1. CASE job' = [job EXCEPT ![j].at = "calling", ![j].left = Tail(job[j].left)] /\ UNCHANGED <<cancel, blamed>>
    <3>1. job'[j].at = "calling" /\ \A d \in Jobs \ {j} : job'[d] = job[d]
      BY <2>1 DEF OwnInv, JobTypes, JobRow
    <3> QED
      BY <1>4, <2>1, <3>1 DEF Ats
  <2> QED
    BY <1>1, <1>2, <1>8, <2>1 DEF Answered
<1>9. CASE ReadAnswer
  <2>1. \A w \in waiters : w.call[1] \in Jobs
    BY DEF OwnInv, WaitInv, Awaits
  <2> QED
    BY <1>3, <1>8, <1>9, <2>1 DEF ReadAnswer
<1>10. CASE ReadRevoke
  <2>1. CASE UNCHANGED <<job, cancel, blamed>>
    BY <1>3, <2>1
  <2>2. ASSUME NEW j \in Running, blamed' = Running, Over(j) PROVE CutInv'
    <3>1. j \in Jobs /\ job'[j].at = "over" /\ \A d \in Jobs \ {j} : job'[d] = job[d]
      BY <2>2 DEF Over, OwnInv, JobTypes, Running, NoJob
    <3> QED
      BY <2>2, <3>1 DEF CutInv, Running, At
  <2> QED
    BY <1>10, <2>1, <2>2 DEF ReadRevoke
<1>11. ASSUME NEW j \in Jobs, NEW k \in Kinds, NEW base \in 0..patches, Start(j, k, base) PROVE CutInv'
  BY <1>1, <1>11 DEF Start
<1>12. ASSUME NEW j \in Jobs, TextAgain(j) \/ Repair(j) PROVE CutInv'
  BY <1>1, <1>12 DEF TextAgain, Repair
<1>13. ASSUME NEW j \in Jobs, Timeout(j) PROVE CutInv'
  BY <1>8, <1>13 DEF Timeout
<1>14. CASE \/ ReadInvalidate \/ Break \/ Reconnect \/ HangUp \/ UNCHANGED toolVars
            \/ \E j \in Jobs : SendRevoke(j)
            \/ \E s \in Socks : Execute(s) \/ Reply(s) \/ HandleResult(s)
            \/ \E p \in Paths : Patch(p)
  BY <1>3, <1>14 DEF ReadInvalidate, Break, Reconnect, HangUp, toolVars, SendRevoke, Execute, Reply,
                     HandleResult, Patch
<1> QED
  BY <1>5, <1>6, <1>7, <1>9, <1>10, <1>11, <1>12, <1>13, <1>14 DEF ToolNext, JobStep

\* Only a stream can be cut, by the event that is set over it.
LEMMA CutOnly ==
    ASSUME CutInv, [ToolNext]_toolVars, NEW j \in cut' \ cut
    PROVE  j \in blamed
<1>1. ASSUME NEW d \in Jobs, Streamed(d) PROVE j \in blamed
  BY <1>1 DEF Streamed, CutInv
<1>2. ASSUME NEW d \in Jobs, NEW k \in Kinds, NEW base \in 0..patches, Start(d, k, base) PROVE cut' = cut
  BY <1>2 DEF Start
<1>3. ASSUME NEW d \in Jobs, JobStep(d), ~Streamed(d) PROVE cut' = cut
  BY <1>3 DEF JobStep, Fails, TextAgain, TextEnds, Repair, Concludes, Wants, Ask
<1>4. ASSUME NEW d \in Jobs, Timeout(d) \/ SendRevoke(d) PROVE cut' = cut
  BY <1>4 DEF Timeout, SendRevoke, Answered
<1>5. ReadAnswer \/ ReadRevoke \/ ReadInvalidate \/ Break \/ Reconnect \/ HangUp \/ UNCHANGED toolVars
      => cut' = cut
  BY DEF ReadAnswer, ReadRevoke, ReadInvalidate, Break, Reconnect, HangUp, toolVars, Answered
<1>6. ASSUME NEW s \in Socks, Execute(s) \/ Reply(s) \/ HandleResult(s) PROVE cut' = cut
  BY <1>6 DEF Execute, Reply, HandleResult
<1>7. \A p \in Paths : Patch(p) => cut' = cut
  BY DEF Patch
<1> QED
  BY <1>1, <1>2, <1>3, <1>4, <1>5, <1>6, <1>7 DEF ToolNext

\* infer_stream and infer_tools of node/model_runtime.py clear the event they
\* share, so a REVOKE shortens only what was being generated when it came.
THEOREM CutsAreRevoked == ToolSpec => CutByRevoke
<1>1. ToolInit => CutInv
  BY DEF ToolInit, CutInv
<1>2. OwnInv /\ CutInv /\ [ToolNext]_toolVars => CutInv'
  BY CutStep
<1>3. CutInv /\ [ToolNext]_toolVars => [\A j \in cut' \ cut : j \in blamed]_toolVars
  BY CutOnly
<1> QED
  BY <1>1, <1>2, <1>3, InvariantOwnInv, PTL DEF ToolSpec, CutByRevoke
-----------------------------------------------------------------------------
(***************************************************************************)
(* The calls on their way, and what has become of their attempts           *)
(***************************************************************************)
UpMsgs == {m \in [kind : {"call", "result"}, job : Jobs, call : Calls \cup {NoCall}] :
              m.kind = "call" => m.call \in Calls}

UpTypes ==
    /\ sock \in Socks
    /\ up \in [Socks -> Seq(UpMsgs)]
    /\ executed \subseteq Calls /\ ended \subseteq Jobs

\* The k-th message on socket s is call c, or the report of job j.
Holds(s, k, c)   == k \in 1..Len(up[s]) /\ up[s][k].kind = "call" /\ up[s][k].call = c
Reports(s, k, j) == k \in 1..Len(up[s]) /\ up[s][k].kind = "result" /\ up[s][k].job = j

\* A call that was made: its job has gone on.
Past(row, c) ==
    /\ row.at # "off"
    /\ \/ row.at = "over"
       \/ c[2] < row.round
       \/ c[2] = row.round /\ row.at = "calling" /\ c[3] < row.left[1][3]
       \/ c[2] = row.round /\ row.at = "waiting" /\ c[3] <= row.left[1][3]

\* No call is on its way twice, nor after it was executed.
Distinct == \A s, s2 \in Socks : \A k, k2 \in Nat : \A c \in Calls :
                Holds(s, k, c) /\ Holds(s2, k2, c) => s = s2 /\ k = k2
NotYet   == \A c \in executed : \A s \in Socks : \A k \in Nat : ~Holds(s, k, c)

\* Calls are made in order, by a job on its own socket.
Known    == /\ \A c \in executed : Past(job[c[1]], c)
            /\ \A c \in Calls : \A s \in Socks : \A k \in Nat : Holds(s, k, c) => Past(job[c[1]], c)
OwnSock  == \A c \in Calls : \A s \in Socks : \A k \in Nat :
                Holds(s, k, c) => At(c[1]) = "over" \/ job[c[1]].sock = s

\* A report follows all the calls of its job, which is over.
Reported == \A s, s2 \in Socks : \A k, k2 \in Nat : \A c \in Calls :
                Reports(s, k, c[1]) /\ Holds(s2, k2, c) => s2 = s /\ k2 < k
OverInv  == /\ \A j \in Jobs : \A s \in Socks : \A k \in Nat : Reports(s, k, j) => At(j) = "over"
            /\ \A j \in ended : At(j) = "over"
Done     == \A c \in Calls : \A s \in Socks : \A k \in Nat : Holds(s, k, c) => c[1] \notin ended

EffInv == UpTypes /\ Distinct /\ NotYet /\ Known /\ OwnSock /\ Reported /\ OverInv /\ Done

\* Messages leave a socket at its front, or are lost at its end.
Shrinks(d) ==
    \A s \in Socks : \A k \in 1..Len(up'[s]) : k + d[s] \in 1..Len(up[s]) /\ up'[s][k] = up[s][k + d[s]]

LEMMA EffShrinks ==
    ASSUME EffInv, up' \in [Socks -> Seq(UpMsgs)], NEW d \in [Socks -> Nat], Shrinks(d),
           UNCHANGED <<job, sock>>,
           \A c \in executed' \ executed :
              c \in Calls /\ Past(job[c[1]], c) /\ \A s \in Socks : \A k \in Nat : ~Holds(s, k, c)',
           \A j \in ended' \ ended :
              /\ j \in Jobs /\ At(j) = "over"
              /\ \A c \in Calls : \A s \in Socks : \A k \in Nat : Holds(s, k, c)' => c[1] # j
    PROVE  EffInv'
<1>0. \A s \in Socks : Len(up[s]) \in Nat /\ Len(up'[s]) \in Nat
  BY LenProperties DEF EffInv, UpTypes
<1>1. ASSUME NEW s \in Socks, NEW k \in Nat, NEW c, Holds(s, k, c)'
      PROVE  Holds(s, k + d[s], c) /\ k + d[s] \in Nat
  BY <1>0, <1>1 DEF Holds, Shrinks
<1>2. ASSUME NEW s \in Socks, NEW k \in Nat, NEW j, Reports(s, k, j)'
      PROVE  Reports(s, k + d[s], j) /\ k + d[s] \in Nat
  BY <1>0, <1>2 DEF Reports, Shrinks
<1>3. UpTypes'
  BY DEF EffInv, UpTypes
<1>4. Distinct'
  <2> SUFFICES ASSUME NEW s \in Socks, NEW s2 \in Socks, NEW k \in Nat, NEW k2 \in Nat, NEW c \in Calls,
                      Holds(s, k, c)', Holds(s2, k2, c)'
               PROVE  s = s2 /\ k = k2
    BY DEF Distinct
  <2>1. s = s2 /\ k + d[s] = k2 + d[s2]
    BY <1>1 DEF EffInv, Distinct
  <2> QED
    BY <2>1
<1>5. NotYet' /\ Known' /\ OwnSock' /\ Done'
  <2>1. NotYet' /\ Done'
    BY <1>1 DEF EffInv, NotYet, Done
  <2>2. Known' /\ OwnSock'
    BY <1>1 DEF EffInv, Known, OwnSock, At
  <2> QED
    BY <2>1, <2>2
<1>6. Reported'
  <2> SUFFICES ASSUME NEW s \in Socks, NEW s2 \in Socks, NEW k \in Nat, NEW k2 \in Nat, NEW c \in Calls,
                      Reports(s, k, c[1])', Holds(s2, k2, c)'
               PROVE  s2 = s /\ k2 < k
    BY DEF Reported
  <2>1. s2 = s /\ k2 + d[s2] < k + d[s]
    BY <1>1, <1>2 DEF EffInv, Reported
  <2> QED
    BY <2>1
<1>7. OverInv'
  BY <1>2 DEF EffInv, OverInv, At
<1> QED
  BY <1>3, <1>4, <1>5, <1>6, <1>7 DEF EffInv

\* A job goes on without sending.
LEMMA EffMoves ==
    ASSUME EffInv, NEW j \in Jobs, NEW row, job \in [Jobs -> JobRow], job' = [job EXCEPT ![j] = row],
           UNCHANGED <<up, sock, executed, ended>>,
           \A c \in Calls : c[1] = j /\ Past(job[j], c) => Past(row, c),
           job[j].at = "off" \/ row.at = "over" \/ row.sock = job[j].sock,
           job[j].at = "over" => row.at = "over"
    PROVE  EffInv'
<1>1. job'[j] = row /\ \A i \in Jobs \ {j} : job'[i] = job[i]
  OBVIOUS
<1>2. \A s, k, c : Holds(s, k, c)' <=> Holds(s, k, c)
  BY DEF Holds
<1>3. \A s, k, i : Reports(s, k, i)' <=> Reports(s, k, i)
  BY DEF Reports
<1>4. UpTypes' /\ Distinct' /\ NotYet' /\ Reported' /\ Done'
  BY <1>2, <1>3 DEF EffInv, UpTypes, Distinct, NotYet, Reported, Done
<1>5. Known'
  BY <1>1, <1>2 DEF EffInv, Known, UpTypes
<1>6. OwnSock'
  BY <1>1, <1>2 DEF EffInv, OwnSock, At, Known, Past
<1>7. OverInv'
  BY <1>1, <1>3 DEF EffInv, OverInv, At
<1> QED
  BY <1>4, <1>5, <1>6, <1>7 DEF EffInv

\* The j-th job's message goes on its own socket, behind what is there.
LEMMA AppendAt ==
    ASSUME up \in [Socks -> Seq(UpMsgs)], NEW z \in Socks, NEW m \in UpMsgs,
           up' = [up EXCEPT ![z] = Append(@, m)]
    PROVE  /\ up' \in [Socks -> Seq(UpMsgs)] /\ Len(up[z]) \in Nat
           /\ \A s \in Socks \ {z} : up'[s] = up[s]
           /\ Len(up'[z]) = Len(up[z]) + 1
           /\ \A k \in 1..Len(up[z]) : up'[z][k] = up[z][k]
           /\ up'[z][Len(up[z]) + 1] = m
<1>1. up[z] \in Seq(UpMsgs)
  OBVIOUS
<1>2. /\ Append(up[z], m) \in Seq(UpMsgs) /\ Len(Append(up[z], m)) = Len(up[z]) + 1
      /\ \A k \in 1..Len(up[z]) : Append(up[z], m)[k] = up[z][k]
      /\ Append(up[z], m)[Len(up[z]) + 1] = m
      /\ Len(up[z]) \in Nat
  BY <1>1, AppendProperties, LenProperties
<1> QED
  BY <1>2
\* A job ends, and reports on its own socket if that can be sent on.
LEMMA EffOver ==
    ASSUME EffInv, job \in [Jobs -> JobRow], NEW j \in Jobs, At(j) \notin {"off", "over"}, Over(j),
           UNCHANGED <<sock, executed, ended>>
    PROVE  EffInv'
<1>1. job'[j].at = "over" /\ \A i \in Jobs \ {j} : job'[i] = job[i]
  BY DEF Over, NoJob
<1> DEFINE m == Msg("result", j, NoCall)
<1>2. m \in UpMsgs /\ m.kind = "result" /\ m.job = j
  BY DEF UpMsgs, Msg
<1>3. CanSend(j) => up' = [up EXCEPT ![sock] = Append(@, m)]
  BY DEF Over
<1>4. ~CanSend(j) => up' = up
  BY DEF Over
<1> HIDE DEF m
<1>5. /\ up' \in [Socks -> Seq(UpMsgs)]
      /\ \A s \in Socks, k \in Nat : \A c : Holds(s, k, c)' => Holds(s, k, c)
      /\ \A s \in Socks, k \in Nat : \A i : Reports(s, k, i)' =>
            \/ Reports(s, k, i)
            \/ i = j /\ CanSend(j) /\ s = sock /\ k = Len(up[sock]) + 1
  <2>1. CASE ~CanSend(j)
    BY <1>4, <2>1 DEF EffInv, UpTypes, Holds, Reports
  <2>2. CASE CanSend(j)
    <3>1. sock \in Socks /\ up \in [Socks -> Seq(UpMsgs)]
      BY DEF EffInv, UpTypes
    <3>2. /\ up' \in [Socks -> Seq(UpMsgs)] /\ Len(up[sock]) \in Nat
          /\ \A s \in Socks \ {sock} : up'[s] = up[s]
          /\ Len(up'[sock]) = Len(up[sock]) + 1
          /\ \A k \in 1..Len(up[sock]) : up'[sock][k] = up[sock][k]
          /\ up'[sock][Len(up[sock]) + 1] = m
      BY <1>2, <1>3, <2>2, <3>1, AppendAt
    <3>3. ASSUME NEW s \in Socks, NEW k \in Nat, k \in 1..Len(up'[s])
          PROVE  \/ k \in 1..Len(up[s]) /\ up'[s][k] = up[s][k]
                 \/ s = sock /\ k = Len(up[sock]) + 1 /\ up'[s][k] = m
      BY <3>2, <3>3
    <3>4. ASSUME NEW s \in Socks, NEW k \in Nat, NEW c, Holds(s, k, c)' PROVE Holds(s, k, c)
      BY <1>2, <3>3, <3>4 DEF Holds
    <3>5. ASSUME NEW s \in Socks, NEW k \in Nat, NEW i, Reports(s, k, i)'
          PROVE  Reports(s, k, i) \/ (i = j /\ s = sock /\ k = Len(up[sock]) + 1)
      BY <1>2, <3>3, <3>5 DEF Reports
    <3> QED
      BY <2>2, <3>2, <3>4, <3>5
  <2> QED
    BY <2>1, <2>2
<1>6. UpTypes' /\ Distinct' /\ NotYet' /\ Done'
  BY <1>5 DEF EffInv, UpTypes, Distinct, NotYet, Done
<1>7. Known' /\ OwnSock'
  <2>1. \A c : Past(job[c[1]], c) /\ c[1] \in Jobs => Past(job'[c[1]], c)
    BY <1>1 DEF Past
  <2>2. \A c \in Calls : c[1] \in Jobs
    BY DEF Calls
  <2>3. Known'
    BY <1>5, <2>1, <2>2 DEF EffInv, Known, UpTypes
  <2>4. OwnSock'
    BY <1>1, <1>5, <2>2 DEF EffInv, OwnSock, At
  <2> QED
    BY <2>3, <2>4
<1>8. OverInv'
  <2>1. ASSUME NEW i \in Jobs, NEW s \in Socks, NEW k \in Nat, Reports(s, k, i)' PROVE job'[i].at = "over"
    <3>1. CASE i = j
      BY <1>1, <3>1
    <3>2. CASE i # j
      <4>1. Reports(s, k, i)
        BY <1>5, <2>1, <3>2
      <4> QED
        BY <1>1, <3>2, <4>1 DEF EffInv, OverInv, At
    <3> QED
      BY <3>1, <3>2
  <2>2. ASSUME NEW i \in ended' PROVE job'[i].at = "over"
    BY <1>1 DEF EffInv, OverInv, UpTypes, At
  <2> QED
    BY <2>1, <2>2 DEF OverInv, At
<1>9. Reported'
  <2> SUFFICES ASSUME NEW s \in Socks, NEW s2 \in Socks, NEW k \in Nat, NEW k2 \in Nat, NEW c \in Calls,
                      Reports(s, k, c[1])', Holds(s2, k2, c)'
               PROVE  s2 = s /\ k2 < k
    BY DEF Reported
  <2>1. Holds(s2, k2, c)
    BY <1>5
  <2>2. CASE Reports(s, k, c[1])
    BY <2>1, <2>2 DEF EffInv, Reported
  <2>3. CASE c[1] = j /\ CanSend(j) /\ s = sock /\ k = Len(up[sock]) + 1
    <3>1. s2 = sock
      BY <2>1, <2>3 DEF EffInv, OwnSock, CanSend
    <3>2. k2 \in 1..Len(up[sock]) /\ Len(up[sock]) \in Nat
      BY <2>1, <3>1, LenProperties DEF Holds, EffInv, UpTypes
    <3> QED
      BY <2>3, <3>1, <3>2
  <2> QED
    BY <1>5, <2>2, <2>3
<1> QED
  BY <1>6, <1>7, <1>8, <1>9 DEF EffInv
\* A call goes out behind what its job sent before, once.
LEMMA EffAsk ==
    ASSUME EffInv, OwnInv, NEW j \in Jobs, At(j) = "calling", CanSend(j),
           job' = [job EXCEPT ![j].at = "waiting"],
           up' = [up EXCEPT ![sock] = Append(@, Msg("call", j, job[j].left[1]))],
           UNCHANGED <<sock, executed, ended>>
    PROVE  EffInv'
<1> DEFINE call == job[j].left[1]
           m == Msg("call", j, call)
           old == job[j]
<1>1. /\ old \in JobRow /\ old.at = "calling" /\ old.left # <<>> /\ old.left \in Seq(Calls)
      /\ Listed(old, j)
  BY DEF OwnInv, JobTypes, LeftInv, Listed, JobRow, At
<1>2. call \in Calls /\ call = <<j, old.round, call[3]>> /\ call[3] \in Nat /\ old.round \in Nat
  <2>1. call \in Calls /\ 1 \in 1..Len(old.left)
    BY <1>1, TailIs
  <2>2. call = <<j, old.round, call[3] + 1 - 1>>
    BY <1>1, <2>1 DEF Listed
  <2> QED
    BY <1>1, <2>1, <2>2 DEF Calls, JobRow
<1>3. m \in UpMsgs /\ m.kind = "call" /\ m.call = call
  BY <1>2 DEF UpMsgs, Msg
<1>4. up' = [up EXCEPT ![sock] = Append(@, m)]
  OBVIOUS
<1>5. /\ job'[j].at = "waiting" /\ job'[j].left = old.left /\ job'[j].round = old.round
      /\ job'[j].sock = old.sock
      /\ \A i \in Jobs \ {j} : job'[i] = job[i]
  BY <1>1 DEF OwnInv, JobTypes, JobRow
<1>6. old.sock = sock
  BY DEF CanSend
<1>7. ~Past(old, call)
  BY <1>1, <1>2 DEF Past
<1>8. Past(job'[j], call) /\ \A c \in Calls : Past(old, c) => Past(job'[j], c)
  BY <1>1, <1>2, <1>5 DEF Past, Calls
<1> HIDE DEF call, m, old
<1>9. /\ up' \in [Socks -> Seq(UpMsgs)] /\ Len(up[sock]) \in Nat /\ sock \in Socks
      /\ \A s \in Socks, k \in Nat : \A c : Holds(s, k, c)' =>
            Holds(s, k, c) \/ (c = call /\ s = sock /\ k = Len(up[sock]) + 1)
      /\ \A s \in Socks, k \in Nat : \A i : Reports(s, k, i)' => Reports(s, k, i)
  <2>1. sock \in Socks /\ up \in [Socks -> Seq(UpMsgs)]
    BY DEF EffInv, UpTypes
  <2>2. /\ up' \in [Socks -> Seq(UpMsgs)] /\ Len(up[sock]) \in Nat
        /\ \A s \in Socks \ {sock} : up'[s] = up[s]
        /\ Len(up'[sock]) = Len(up[sock]) + 1
        /\ \A k \in 1..Len(up[sock]) : up'[sock][k] = up[sock][k]
        /\ up'[sock][Len(up[sock]) + 1] = m
    BY <1>3, <1>4, <2>1, AppendAt
  <2>3. ASSUME NEW s \in Socks, NEW k \in Nat, k \in 1..Len(up'[s])
        PROVE  \/ k \in 1..Len(up[s]) /\ up'[s][k] = up[s][k]
               \/ s = sock /\ k = Len(up[sock]) + 1 /\ up'[s][k] = m
    BY <2>2, <2>3
  <2>4. ASSUME NEW s \in Socks, NEW k \in Nat, NEW c, Holds(s, k, c)'
        PROVE  Holds(s, k, c) \/ (c = call /\ s = sock /\ k = Len(up[sock]) + 1)
    BY <1>3, <2>3, <2>4 DEF Holds
  <2>5. ASSUME NEW s \in Socks, NEW k \in Nat, NEW i, Reports(s, k, i)' PROVE Reports(s, k, i)
    BY <1>3, <2>3, <2>5 DEF Reports
  <2> QED
    BY <2>1, <2>2, <2>4, <2>5
<1>10. /\ \A s \in Socks : \A k \in Nat : ~Holds(s, k, call)
       /\ call \notin executed
  <2>1. call[1] = j
    BY <1>2
  <2>2. ~Past(job[call[1]], call)
    BY <1>7, <2>1 DEF old
  <2> QED
    BY <1>2, <2>2 DEF EffInv, Known
<1>11. UpTypes' /\ NotYet' /\ Distinct'
  <2>1. UpTypes' /\ NotYet'
    BY <1>9, <1>10 DEF EffInv, UpTypes, NotYet
  <2>2. Distinct'
    BY <1>9, <1>10 DEF EffInv, Distinct
  <2> QED
    BY <2>1, <2>2
<1>12. Known'
  <2>1. \A c \in Calls : Past(job[c[1]], c) => Past(job'[c[1]], c)
    BY <1>5, <1>8 DEF Calls, old
  <2>2. Past(job'[call[1]], call)
    <3>1. call[1] = j
      BY <1>2
    <3> QED
      BY <1>8, <3>1
  <2> QED
    BY <1>9, <2>1, <2>2 DEF EffInv, Known, UpTypes
<1>13. OwnSock'
  <2>1. \A c \in Calls : c[1] \in Jobs
    BY DEF Calls
  <2>2. \A c \in Calls : /\ job'[c[1]].sock = job[c[1]].sock
                         /\ job[c[1]].at = "over" => job'[c[1]].at = "over"
    BY <1>1, <1>5, <2>1 DEF old
  <2>3. call[1] = j /\ job'[j].sock = sock
    BY <1>2, <1>5, <1>6
  <2> QED
    BY <1>9, <2>2, <2>3 DEF EffInv, OwnSock, At
<1>14. OverInv'
  BY <1>1, <1>5, <1>9 DEF EffInv, OverInv, UpTypes, At, old
<1>15. Reported' /\ Done'
  <2>1. call[1] = j /\ old.at # "over"
    BY <1>1, <1>2
  <2>2. j \notin ended /\ \A s \in Socks, k \in Nat : ~Reports(s, k, j)
    BY <2>1 DEF EffInv, OverInv, At, old
  <2>3. Done'
    BY <1>9, <2>1, <2>2 DEF EffInv, Done
  <2>4. Reported'
    BY <1>9, <2>1, <2>2 DEF EffInv, Reported
  <2> QED
    BY <2>3, <2>4
<1> QED
  BY <1>11, <1>12, <1>13, <1>14, <1>15 DEF EffInv
LEMMA EffAnswered ==
    ASSUME EffInv, OwnInv, NEW j \in Jobs, At(j) = "waiting", NEW got, Answered(j, got),
           UNCHANGED <<sock, executed, ended>>
    PROVE  EffInv'
<1> DEFINE old == job[j]
           rest == Tail(job[j].left)
<1>1. /\ old \in JobRow /\ old.at = "waiting" /\ old.left # <<>> /\ old.left \in Seq(Calls)
      /\ Listed(old, j) /\ job \in [Jobs -> JobRow]
  BY DEF OwnInv, JobTypes, LeftInv, Listed, JobRow, At
<1>2. CASE Over(j)
  BY <1>1, <1>2, EffOver DEF At
<1>3. CASE job' = [job EXCEPT ![j].at = "calling", ![j].left = rest] /\ rest # <<>> /\ UNCHANGED up
  <2> DEFINE row == [job[j] EXCEPT !.at = "calling", !.left = rest]
  <2>1. /\ row.at = "calling" /\ row.left = rest /\ row.round = old.round /\ row.sock = old.sock
    BY <1>1 DEF JobRow
  <2>2. job' = [job EXCEPT ![j] = row]
    BY <1>1, <1>3
  <2> HIDE DEF row
  <2>3. PICK n \in Nat \ {0} : /\ n = Len(old.left) /\ Len(rest) = n - 1 /\ rest \in Seq(Calls)
                               /\ \A k \in 1..n - 1 : rest[k] = old.left[k + 1]
    BY <1>1, TailIs
  <2>4. n - 1 # 0
    BY <1>3, <2>3, EmptySeq
  <2>5. 1 \in 1..n - 1 /\ 1 + 1 \in 1..n /\ 1 \in 1..n /\ 1 + 1 = 2
    BY <2>4
  <2> HIDE DEF rest
  <2>6. rest[1] = old.left[2] /\ old.left[2] = <<j, old.round, old.left[1][3] + 2 - 1>>
    BY <1>1, <2>3, <2>5 DEF Listed
  <2>7. old.left[1] \in Calls
    BY <1>1, TailIs
  <2>8. rest[1][3] = old.left[1][3] + 1 /\ old.left[1][3] \in Nat
    <3>1. PICK x \in Nat : x = old.left[1][3]
      BY <2>7 DEF Calls
    <3>2. PICK y : y = x + 2 - 1
      OBVIOUS
    <3>3. rest[1] = <<j, old.round, y>>
      BY <2>6, <3>1, <3>2
    <3>4. rest[1][3] = y
      BY <3>3
    <3>5. y = x + 1
      BY <3>2
    <3> QED
      BY <3>1, <3>4, <3>5
  <2>9. ASSUME NEW c \in Calls, Past(old, c) PROVE Past(row, c)
    BY <1>1, <2>1, <2>8, <2>9 DEF Past, Calls
  <2> HIDE DEF old
  <2>10. /\ \A c \in Calls : c[1] = j /\ Past(job[j], c) => Past(row, c)
         /\ job[j].at = "off" \/ row.at = "over" \/ row.sock = job[j].sock
         /\ job[j].at = "over" => row.at = "over"
    BY <1>1, <2>1, <2>9 DEF old
  <2> QED
    BY <1>1, <1>3, <2>2, <2>10, EffMoves
<1>4. CASE Begins(j, job[j].round + 1) /\ UNCHANGED up
  <2> DEFINE row == [job[j] EXCEPT !.at = "generating", !.round = job[j].round + 1, !.left = <<>>]
  <2>1. row.at = "generating" /\ row.round = old.round + 1 /\ row.sock = old.sock
    BY <1>1 DEF JobRow
  <2>2. job' = [job EXCEPT ![j] = row]
    BY <1>1, <1>4 DEF Begins
  <2> HIDE DEF row
  <2>3. ASSUME NEW c \in Calls, Past(old, c) PROVE Past(row, c)
    <3>1. c[2] \in Nat /\ old.round \in Nat
      BY <1>1 DEF Calls, JobRow
    <3>2. c[2] < old.round \/ c[2] = old.round
      BY <1>1, <2>3 DEF Past
    <3>3. c[2] < old.round + 1
      BY <3>1, <3>2
    <3> QED
      BY <2>1, <3>3 DEF Past
  <2>4. /\ \A c \in Calls : c[1] = j /\ Past(job[j], c) => Past(row, c)
        /\ job[j].at = "off" \/ row.at = "over" \/ row.sock = job[j].sock
        /\ job[j].at = "over" => row.at = "over"
    BY <1>1, <2>1, <2>3
  <2> QED
    BY <1>1, <1>4, <2>2, <2>4, EffMoves
<1> QED
  BY <1>2, <1>3, <1>4 DEF Answered

\* The handler of a socket takes the message at its front.
LEMMA HeadGoes ==
    ASSUME UpTypes, NEW s \in Socks, up[s] # <<>>, up' = [up EXCEPT ![s] = Tail(@)]
    PROVE  /\ up' \in [Socks -> Seq(UpMsgs)]
           /\ Shrinks([x \in Socks |-> IF x = s THEN 1 ELSE 0])
           /\ Head(up[s]) = up[s][1] /\ up[s][1] \in UpMsgs /\ 1 \in 1..Len(up[s])
           /\ \A x \in Socks, k \in Nat : \A c : Holds(x, k, c)' =>
                 \E i \in Nat : Holds(x, i, c) /\ (x = s => i # 1)
<1>1. up[s] \in Seq(UpMsgs) /\ \A x \in Socks : Len(up[x]) \in Nat
  BY LenProperties DEF UpTypes
<1>2. /\ Head(up[s]) = up[s][1] /\ up[s][1] \in UpMsgs /\ Tail(up[s]) \in Seq(UpMsgs) /\ Len(up[s]) \in Nat \ {0}
      /\ Len(Tail(up[s])) = Len(up[s]) - 1
      /\ \A k \in 1..Len(up[s]) - 1 : Tail(up[s])[k] = up[s][k + 1]
  BY <1>1, TailIs
<1> DEFINE d == [x \in Socks |-> IF x = s THEN 1 ELSE 0]
<1>3. ASSUME NEW x \in Socks, NEW k \in 1..Len(up'[x])
      PROVE  k + d[x] \in 1..Len(up[x]) /\ up'[x][k] = up[x][k + d[x]] /\ (x = s => k + d[x] # 1)
  <2>1. CASE x = s
    <3>1. up'[s] = Tail(up[s])
      BY DEF UpTypes
    <3>2. k \in 1..Len(up[s]) - 1
      BY <1>2, <2>1, <3>1
    <3>3. k + 1 \in 1..Len(up[s]) /\ k + 1 # 1
      BY <1>2, <3>2
    <3> QED
      BY <1>2, <2>1, <3>1, <3>2, <3>3
  <2>2. CASE x # s
    <3>1. up'[x] = up[x] /\ d[x] = 0
      BY <2>2 DEF UpTypes
    <3>2. k + 0 = k
      OBVIOUS
    <3> QED
      BY <2>2, <3>1, <3>2
  <2> QED
    BY <2>1, <2>2
<1>4. Shrinks(d)
  BY <1>3 DEF Shrinks
<1>5. up' \in [Socks -> Seq(UpMsgs)]
  BY <1>2 DEF UpTypes
<1>6. d \in [Socks -> Nat]
  OBVIOUS
<1> HIDE DEF d
<1>7. ASSUME NEW x \in Socks, NEW k \in Nat, NEW c, Holds(x, k, c)'
      PROVE  \E i \in Nat : Holds(x, i, c) /\ (x = s => i # 1)
  <2>0. k \in 1..Len(up'[x]) /\ up'[x][k].kind = "call" /\ up'[x][k].call = c
    BY <1>7 DEF Holds
  <2>1. /\ k + d[x] \in 1..Len(up[x]) /\ up'[x][k] = up[x][k + d[x]]
        /\ x = s => k + d[x] # 1
    BY <1>3, <2>0
  <2>2. k + d[x] \in Nat
    BY <1>6
  <2>3. Holds(x, k + d[x], c)
    BY <2>0, <2>1 DEF Holds
  <2> QED
    BY <2>1, <2>2, <2>3
<1>8. 1 \in 1..Len(up[s])
  BY <1>2
<1> QED
  BY <1>2, <1>4, <1>5, <1>7, <1>8 DEF d

LEMMA EffExecute ==
    ASSUME EffInv, NEW s \in Socks, Execute(s)
    PROVE  /\ EffInv'
           /\ Head(up[s]).call \notin executed /\ Head(up[s]).call[1] \notin ended
<1>0. PICK c : c = Head(up[s]).call
  OBVIOUS
<1>1. UpTypes /\ up[s] # <<>> /\ up' = [up EXCEPT ![s] = Tail(@)]
  BY DEF Execute, EffInv
<1>2. /\ up' \in [Socks -> Seq(UpMsgs)]
      /\ Shrinks([x \in Socks |-> IF x = s THEN 1 ELSE 0])
      /\ Head(up[s]) = up[s][1] /\ up[s][1] \in UpMsgs /\ 1 \in 1..Len(up[s])
      /\ \A x \in Socks, k \in Nat : \A e : Holds(x, k, e)' =>
            \E i \in Nat : Holds(x, i, e) /\ (x = s => i # 1)
  BY <1>1, HeadGoes
<1>3. Holds(s, 1, c) /\ c \in Calls
  BY <1>0, <1>2 DEF Execute, Holds, UpMsgs
<1>4. c \notin executed /\ c[1] \notin ended /\ Past(job[c[1]], c)
  BY <1>3 DEF EffInv, NotYet, Done, Known
<1>5. ASSUME NEW x \in Socks, NEW k \in Nat, Holds(x, k, c)' PROVE FALSE
  <2>1. PICK i \in Nat : Holds(x, i, c) /\ (x = s => i # 1)
    BY <1>2, <1>5
  <2>2. x = s /\ i = 1
    BY <1>3, <2>1 DEF EffInv, Distinct
  <2> QED
    BY <2>1, <2>2
<1>6. executed' = executed \cup {c} /\ UNCHANGED <<job, sock, ended>>
  BY <1>0 DEF Execute
<1>7. [x \in Socks |-> IF x = s THEN 1 ELSE 0] \in [Socks -> Nat]
  OBVIOUS
<1>8. EffInv'
  <2>1. \A e \in executed' \ executed :
           e \in Calls /\ Past(job[e[1]], e) /\ \A x \in Socks : \A k \in Nat : ~Holds(x, k, e)'
    BY <1>3, <1>4, <1>5, <1>6
  <2>2. ended' \ ended = {}
    BY <1>6
  <2> QED
    BY <1>2, <1>6, <1>7, <2>1, <2>2, EffShrinks
<1> QED
  BY <1>0, <1>4, <1>8

LEMMA EffResult ==
    ASSUME EffInv, NEW s \in Socks, HandleResult(s)
    PROVE  EffInv'
<1> DEFINE j == Head(up[s]).job
<1>1. UpTypes /\ up[s] # <<>> /\ up' = [up EXCEPT ![s] = Tail(@)]
  BY DEF HandleResult, EffInv
<1>2. /\ up' \in [Socks -> Seq(UpMsgs)]
      /\ Shrinks([x \in Socks |-> IF x = s THEN 1 ELSE 0])
      /\ Head(up[s]) = up[s][1] /\ up[s][1] \in UpMsgs /\ 1 \in 1..Len(up[s])
      /\ \A x \in Socks, k \in Nat : \A e : Holds(x, k, e)' =>
            \E i \in Nat : Holds(x, i, e) /\ (x = s => i # 1)
  BY <1>1, HeadGoes
<1>3. Reports(s, 1, j) /\ j \in Jobs
  BY <1>2 DEF HandleResult, Reports, UpMsgs
<1>6. ended' = ended \cup {j} /\ UNCHANGED <<job, sock, executed>>
  BY DEF HandleResult
<1> HIDE DEF j
<1>4. At(j) = "over"
  BY <1>3 DEF EffInv, OverInv
<1>5. ASSUME NEW c \in Calls, NEW x \in Socks, NEW k \in Nat, Holds(x, k, c)' PROVE c[1] # j
  <2>1. PICK i \in Nat : Holds(x, i, c)
    BY <1>2, <1>5
  <2>2. ~(i < 1)
    BY <2>1 DEF Holds
  <2> QED
    BY <1>3, <2>1, <2>2 DEF EffInv, Reported
<1>7. [x \in Socks |-> IF x = s THEN 1 ELSE 0] \in [Socks -> Nat]
  OBVIOUS
<1> QED
  BY <1>2, <1>3, <1>4, <1>5, <1>6, <1>7, EffShrinks
LEMMA EffStep ==
    ASSUME EffInv, OwnInv, [ToolNext]_toolVars
    PROVE  EffInv'
<1>0. job \in [Jobs -> JobRow] /\ \A j \in Jobs : job[j] \in JobRow
  BY DEF OwnInv, JobTypes
<1>1. ASSUME UNCHANGED <<job, up, sock, executed, ended>> PROVE EffInv'
  BY <1>1 DEF EffInv, UpTypes, Distinct, NotYet, Known, OwnSock, Reported, OverInv, Done, Holds, Reports,
              Past, At
<1>2. ASSUME NEW j \in Jobs, Fails(j) \/ TextEnds(j) \/ Concludes(j) PROVE EffInv'
  BY <1>0, <1>2, EffOver DEF Fails, TextEnds, Concludes, Streamed, At
<1>3. ASSUME NEW j \in Jobs, NEW row, job' = [job EXCEPT ![j] = row], UNCHANGED <<up, sock, executed, ended>>,
             job[j].at = "off" \/ (job[j].at = "generating" /\ row.sock = job[j].sock),
             job[j].at = "generating" =>
                /\ row.at \in {"generating", "calling", "waiting"}
                /\ job[j].round < row.round \/ job[j].round = row.round,
             row.round \in Nat
      PROVE  EffInv'
  <2>1. ASSUME NEW c \in Calls, Past(job[j], c) PROVE Past(row, c)
    <3>1. c[2] \in Nat /\ job[j].round \in Nat
      BY <1>0 DEF Calls, JobRow
    <3>2. job[j].at = "generating" /\ c[2] < job[j].round
      BY <1>3, <2>1 DEF Past
    <3>3. c[2] < row.round
      BY <1>3, <3>1, <3>2
    <3> QED
      BY <1>3, <3>2, <3>3 DEF Past
  <2> QED
    BY <1>0, <1>3, <2>1, EffMoves
<1>4. ASSUME NEW j \in Jobs, NEW k \in Kinds, NEW base \in 0..patches, Start(j, k, base) PROVE EffInv'
  <2> DEFINE row == First(k, sock, base)
  <2>0. base \in Nat /\ sock \in Nat
    BY ToolAssumption DEF EffInv, UpTypes, Socks
  <2>1. row.round \in Nat
    BY <2>0, FirstRound
  <2>2. job' = [job EXCEPT ![j] = row] /\ UNCHANGED <<up, sock, executed, ended>> /\ job[j].at = "off"
    BY <1>4 DEF Start, First, wire, At
  <2> HIDE DEF row
  <2> QED
    BY <1>3, <2>1, <2>2
<1>5. ASSUME NEW j \in Jobs, TextAgain(j) PROVE EffInv'
  <2> DEFINE row == [job[j] EXCEPT !.at = "generating", !.round = job[j].round + 1, !.left = <<>>]
  <2>1. row.at = "generating" /\ row.round = job[j].round + 1 /\ row.sock = job[j].sock /\ job[j].round \in Nat
    BY <1>0 DEF JobRow
  <2>2. job' = [job EXCEPT ![j] = row] /\ UNCHANGED <<up, sock, executed, ended>> /\ job[j].at = "generating"
    BY <1>0, <1>5 DEF TextAgain, Begins, Streamed, wire, At
  <2> HIDE DEF row
  <2>3. row.round \in Nat /\ job[j].round < row.round
    BY <2>1
  <2> QED
    BY <1>3, <2>1, <2>2, <2>3
<1>6. ASSUME NEW j \in Jobs, Repair(j) PROVE EffInv'
  <2> DEFINE row == [job[j] EXCEPT !.repaired = TRUE, !.round = job[j].round + 1]
  <2>1. row.at = job[j].at /\ row.round = job[j].round + 1 /\ row.sock = job[j].sock /\ job[j].round \in Nat
    BY <1>0 DEF JobRow
  <2>2. job' = [job EXCEPT ![j] = row] /\ UNCHANGED <<up, sock, executed, ended>> /\ job[j].at = "generating"
    BY <1>0, <1>6 DEF Repair, wire, At
  <2> HIDE DEF row
  <2>3. row.round \in Nat /\ job[j].round < row.round
    BY <2>1
  <2> QED
    BY <1>3, <2>1, <2>2, <2>3
<1>7. ASSUME NEW j \in Jobs, NEW n \in 1..(FanOut + 1), Wants(j, n) PROVE EffInv'
  <2> DEFINE left == [i \in 1..(IF n < FanOut THEN n ELSE FanOut) |-> Call(j, i)]
             row == [job[j] EXCEPT !.at = "calling", !.left = left]
  <2>1. row.at = "calling" /\ row.round = job[j].round /\ row.sock = job[j].sock /\ job[j].round \in Nat
    BY <1>0 DEF JobRow
  <2>2. job' = [job EXCEPT ![j] = row] /\ UNCHANGED <<up, sock, executed, ended>> /\ job[j].at = "generating"
    BY <1>0, <1>7 DEF Wants, wire, At
  <2> HIDE DEF row
  <2> QED
    BY <1>3, <2>1, <2>2
<1>8. ASSUME NEW j \in Jobs, Ask(j) PROVE EffInv'
  <2>1. Head(job[j].left) = job[j].left[1]
    <3>1. job[j].left \in Seq(Calls) /\ job[j].left # <<>>
      BY <1>0, <1>8 DEF Ask, OwnInv, LeftInv, Listed, JobRow, At
    <3> QED
      BY <3>1, TailIs
  <2>2. At(j) = "calling" /\ UNCHANGED <<sock, executed, ended>>
    BY <1>8 DEF Ask
  <2>3. \/ Over(j)
        \/ /\ CanSend(j) /\ job' = [job EXCEPT ![j].at = "waiting"]
           /\ up' = [up EXCEPT ![sock] = Append(@, Msg("call", j, job[j].left[1]))]
    BY <1>8, <2>1 DEF Ask
  <2> QED
    BY <1>0, <2>2, <2>3, EffOver, EffAsk
<1>9. ASSUME NEW j \in Jobs, Timeout(j) PROVE EffInv'
  BY <1>9, EffAnswered DEF Timeout
<1>10. CASE ReadAnswer
  <2>1. \A w \in waiters : w.call[1] \in Jobs /\ At(w.call[1]) = "waiting"
    BY DEF OwnInv, WaitInv, Awaits
  <2>2. UNCHANGED <<sock, executed, ended>>
    BY <1>10 DEF ReadAnswer
  <2> QED
    BY <1>1, <1>10, <2>1, <2>2, EffAnswered DEF ReadAnswer
<1>11. CASE ReadRevoke
  <2>1. UNCHANGED <<sock, executed, ended>> /\ (UNCHANGED <<job, up>> \/ \E j \in Running : Over(j))
    BY <1>11 DEF ReadRevoke
  <2>2. \A j \in Running : j \in Jobs /\ At(j) \notin {"off", "over"}
    BY DEF Running, At
  <2> QED
    BY <1>0, <1>1, <2>1, <2>2, EffOver
<1>12. CASE Break
  <2>1. PICK n \in 0..Len(up[sock]) : up' = [up EXCEPT ![sock] = SubSeq(@, 1, n)]
    BY <1>12 DEF Break
  <2>2. sock \in Socks /\ up[sock] \in Seq(UpMsgs) /\ \A s \in Socks : up[s] \in Seq(UpMsgs) /\ Len(up[s]) \in Nat
    BY LenProperties DEF EffInv, UpTypes
  <2>3. /\ SubSeq(up[sock], 1, n) \in Seq(UpMsgs) /\ Len(SubSeq(up[sock], 1, n)) = n
        /\ \A k \in 1..n : SubSeq(up[sock], 1, n)[k] = up[sock][k]
    <3>1. n \in Nat /\ n <= Len(up[sock])
      BY <2>2
    <3>2. \A k \in 1..n : up[sock][k] \in UpMsgs
      BY <2>2, <3>1
    <3>3. SubSeq(up[sock], 1, n) = [k \in 1..n |-> up[sock][k]]
      BY <2>2, <3>1, SubSeqProperties
    <3>4. [k \in 1..n |-> up[sock][k]] \in [1..n -> UpMsgs]
      BY <3>2
    <3> QED
      BY <3>1, <3>3, <3>4, SeqDef, LenProperties
  <2>4. up' \in [Socks -> Seq(UpMsgs)]
    BY <2>1, <2>3 DEF EffInv, UpTypes
  <2> DEFINE d == [s \in Socks |-> 0]
  <2>5. Shrinks(d)
    <3>1. \A s \in Socks : d[s] = 0
      OBVIOUS
    <3> HIDE DEF d
    <3>2. \A s \in Socks : \A k \in 1..Len(up'[s]) : k \in 1..Len(up[s]) /\ up'[s][k] = up[s][k] /\ k + 0 = k
      BY <2>1, <2>2, <2>3 DEF EffInv, UpTypes
    <3> QED
      BY <3>1, <3>2 DEF Shrinks
  <2>6. d \in [Socks -> Nat]
    OBVIOUS
  <2>7. UNCHANGED <<job, sock>> /\ executed' \ executed = {} /\ ended' \ ended = {}
    BY <1>12 DEF Break
  <2> HIDE DEF d
  <2> QED
    BY <2>4, <2>5, <2>6, <2>7, EffShrinks
<1>13. CASE Reconnect
  <2>1. sock' \in Socks
    BY <1>13, ToolAssumption DEF Reconnect, EffInv, UpTypes, Socks
  <2>2. UNCHANGED <<job, up, executed, ended>>
    BY <1>13 DEF Reconnect
  <2> QED
    BY <2>1, <2>2 DEF EffInv, UpTypes, Distinct, NotYet, Known, OwnSock, Reported, OverInv, Done, Holds, Reports,
              Past, At
<1>14. ASSUME NEW s \in Socks, Execute(s) \/ HandleResult(s) PROVE EffInv'
  BY <1>14, EffExecute, EffResult
<1>15. CASE \/ ReadInvalidate \/ HangUp \/ UNCHANGED toolVars
            \/ \E j \in Jobs : SendRevoke(j)
            \/ \E s \in Socks : Reply(s)
            \/ \E p \in Paths : Patch(p)
  BY <1>1, <1>15 DEF ReadInvalidate, HangUp, toolVars, wire, SendRevoke, Reply, Patch
<1> QED
  BY <1>2, <1>4, <1>5, <1>6, <1>7, <1>8, <1>9, <1>10, <1>11, <1>12, <1>13, <1>14, <1>15 DEF ToolNext, JobStep

\* Only the handler of a socket changes what it serves.
LEMMA ServingOnly ==
    ASSUME [ToolNext]_toolVars
    PROVE  serving' = serving \/ \E z \in Socks : Execute(z) \/ Reply(z)
<1> USE DEF wire
<1>1. ASSUME NEW j \in Jobs, NEW k \in Kinds, NEW base \in 0..patches, Start(j, k, base) PROVE serving' = serving
  BY <1>1 DEF Start
<1>2. ASSUME NEW j \in Jobs, JobStep(j) PROVE serving' = serving
  BY <1>2 DEF JobStep, Fails, TextAgain, TextEnds, Repair, Concludes, Wants, Ask
<1>3. ASSUME NEW j \in Jobs, Timeout(j) \/ SendRevoke(j) PROVE serving' = serving
  BY <1>3 DEF Timeout, SendRevoke
<1>4. ReadAnswer \/ ReadRevoke \/ ReadInvalidate \/ Break \/ Reconnect \/ HangUp \/ UNCHANGED toolVars
      => serving' = serving
  BY DEF ReadAnswer, ReadRevoke, ReadInvalidate, Break, Reconnect, HangUp, toolVars
<1>5. ASSUME NEW s \in Socks, HandleResult(s) PROVE serving' = serving
  BY <1>5 DEF HandleResult
<1>6. \A p \in Paths : Patch(p) => serving' = serving
  BY DEF Patch
<1> QED
  BY <1>1, <1>2, <1>3, <1>4, <1>5, <1>6 DEF ToolNext

\* execute_tool_call of scheduler/tool_executor.py runs for the calls of attempts
\* that have not reported, once for each, although the node that sent a call may
\* be on another socket and its attempt over.
THEOREM EffectsAreInTime == ToolSpec => EffectsInTime
<1>1. ToolInit => EffInv
  <2> SUFFICES ASSUME ToolInit PROVE EffInv
    OBVIOUS
  <2>1. UpTypes
    <3>1. <<>> \in Seq(UpMsgs)
      BY EmptySeq
    <3> QED
      BY <3>1, ToolAssumption DEF ToolInit, UpTypes, Socks
  <2>2. \A s \in Socks : \A k : k \notin 1..Len(up[s])
    <3>1. \A s \in Socks : Len(up[s]) = 0
      BY EmptySeq DEF ToolInit
    <3> QED
      BY <3>1
  <2>3. \A s \in Socks : \A k : \A c : ~Holds(s, k, c) /\ ~Reports(s, k, c)
    BY <2>2 DEF Holds, Reports
  <2>4. executed = {} /\ ended = {}
    BY DEF ToolInit
  <2> QED
    BY <2>1, <2>3, <2>4 DEF EffInv, Distinct, NotYet, Known, OwnSock, Reported, OverInv, Done
<1>2. EffInv /\ OwnInv /\ [ToolNext]_toolVars => EffInv'
  BY EffStep
<1>3. ASSUME EffInv, [ToolNext]_toolVars, NEW s \in Socks, serving[s] = NoCall, serving'[s] # NoCall
      PROVE  serving'[s] \notin executed /\ serving'[s][1] \notin ended
  <2>1. \E z \in Socks : Execute(z) \/ Reply(z)
    BY <1>3, ServingOnly
  <2>2. ASSUME NEW z \in Socks, Execute(z) PROVE serving'[s] \notin executed /\ serving'[s][1] \notin ended
    <3>1. serving'[s] = Head(up[z]).call
      BY <1>3, <2>2 DEF Execute
    <3> QED
      BY <1>3, <2>2, <3>1, EffExecute
  <2>3. ASSUME NEW z \in Socks, Reply(z) PROVE FALSE
    BY <1>3, <2>3 DEF Reply
  <2> QED
    BY <2>1, <2>2, <2>3
<1>4. EffInv /\ [ToolNext]_toolVars =>
         [\A s \in Socks : serving[s] = NoCall /\ serving'[s] # NoCall =>
             serving'[s] \notin executed /\ serving'[s][1] \notin ended]_toolVars
  BY <1>3
<1> QED
  BY <1>1, <1>2, <1>4, InvariantOwnInv, PTL DEF ToolSpec, EffectsInTime

-----------------------------------------------------------------------------
(***************************************************************************)
(* Login: the second 401 of a command is somebody else's doing             *)
(***************************************************************************)
Steps == {"new", "register", "store", "request", "refused", "reauth", "register2", "store2", "retry",
          "done", "failed"}

LoginTypes ==
    /\ cmd \in [Commands -> [at : Steps, token : Nat]]
    /\ shaken \in [Commands -> BOOLEAN]
    /\ minted2 \in Nat /\ cache \in Nat

\* What a command that was refused relies on until somebody else interferes: the
\* file is gone, and the token it then registers is the live one.
Undisturbed(c) ==
    /\ cmd[c].at = "reauth" => cache = NoToken
    /\ cmd[c].at \in {"store2", "retry"} => cmd[c].token \in tokens
    /\ cmd[c].at # "failed"

LoginInv == LoginTypes /\ \A c \in Commands : ~shaken[c] => Undisturbed(c)

\* Whoever is recovering is told of what others do.
LEMMA ShakeFacts ==
    ASSUME LoginTypes, NEW who, Shake(who)
    PROVE  /\ shaken' \in [Commands -> BOOLEAN]
           /\ \A d \in Commands : ~shaken'[d] => ~shaken[d]
           /\ \A d \in Commands \ who : ~shaken'[d] =>
                 cmd[d].at \notin {"refused", "reauth", "register2", "store2", "retry"}
  BY Zenon DEF LoginTypes, Shake, Recovering

\* After a refusal a command is Recovering, so what others do is marked.
LEMMA LoginStep ==
    ASSUME LoginInv, [LoginNext]_loginVars
    PROVE  LoginInv'
<1> USE DEF LoginInv, LoginTypes, Undisturbed, Steps, NoToken
<1>1. ASSUME NEW c \in Commands, Authenticate(c) PROVE LoginInv'
  BY <1>1 DEF Authenticate
<1>2. ASSUME NEW c \in Commands, Register(c) PROVE LoginInv'
  BY <1>2, ShakeFacts DEF Register, Minted
<1>3. ASSUME NEW c \in Commands, Store(c) PROVE LoginInv'
  BY <1>3, ShakeFacts DEF Store
<1>4. ASSUME NEW c \in Commands, Request(c) PROVE LoginInv'
  BY <1>4 DEF Request, Ended
<1>5. ASSUME NEW c \in Commands, Forget(c) PROVE LoginInv'
  BY <1>5 DEF Forget
<1>6. ASSUME NEW c \in Commands, Again(c) PROVE LoginInv'
  BY <1>6 DEF Again, Ended
<1>7. CASE AgentStarts \/ AgentRegisters
  BY <1>7, ShakeFacts DEF AgentStarts, AgentRegisters, Minted
<1>8. CASE ServerRestarts
  BY <1>8, ShakeFacts DEF ServerRestarts
<1>9. CASE AgentConnects \/ Unreachable \/ PatienceEnds \/ Disconnects \/ UNCHANGED loginVars
  BY <1>9 DEF AgentConnects, Unreachable, PatienceEnds, Disconnects, loginVars
<1> QED
  BY <1>1, <1>2, <1>3, <1>4, <1>5, <1>6, <1>7, <1>8, <1>9 DEF LoginNext

\* with_auth_retry of client/sdk.py: a command ends with a 401 only if somebody
\* registered, wrote the token file or restarted the server since its first one.
THEOREM RefusedTwiceHolds == LoginSpec => []RefusedTwice
<1>1. LoginInit => LoginInv
  BY DEF LoginInit, LoginInv, LoginTypes, Undisturbed, Steps, NoToken
<1>2. LoginInv /\ [LoginNext]_loginVars => LoginInv'
  BY LoginStep
<1>3. LoginInv => RefusedTwice
  BY DEF LoginInv, Undisturbed, RefusedTwice
<1> QED
  BY <1>1, <1>2, <1>3, PTL DEF LoginSpec

-----------------------------------------------------------------------------
(***************************************************************************)
(* Daemon: commands one at a time never lose a process                     *)
(***************************************************************************)
Places == {"idle", "status", "probe", "launch", "grace", "signal", "await", "unlink"}

DaemonTypes ==
    /\ caller \in [Callers -> [at : Places, op : {"none", "spawn", "stop"}, pid : Pids \cup {NoPid}]]
    /\ procs \in SUBSET Pids
    /\ pidfile \in Pids \cup {NoPid}
    /\ entangled \in BOOLEAN

\* The process a lone command may find running, wherever it is: the file's, until
\* it has found that one dead or killed it, and then the one it started itself.
Found(c) ==
    CASE caller[c].at = "status" -> procs \subseteq {pidfile}
      [] caller[c].at \in {"probe", "signal", "await"} ->
            procs \subseteq {pidfile} /\ caller[c].pid = pidfile
      [] caller[c].at \in {"launch", "unlink"} -> procs = {}
      [] caller[c].at = "grace" -> procs \subseteq {caller[c].pid}
      [] OTHER -> TRUE

DaemonInv ==
    /\ DaemonTypes
    /\ ~entangled => /\ \A c, d \in Busy : c = d
                     /\ \A c \in Busy : Found(c)
                     /\ Busy = {} => procs \subseteq {pidfile}

\* A step of the lone command, which is busy after it or is done.
LEMMA LoneStep ==
    ASSUME DaemonInv, DaemonTypes', NEW c \in Callers, caller' = [caller EXCEPT ![c] = caller'[c]],
           UNCHANGED entangled, caller[c].at # "idle",
           ~entangled => IF caller'[c].at = "idle" THEN procs' \subseteq {pidfile'} ELSE Found(c)'
    PROVE  DaemonInv'
<1> SUFFICES ASSUME ~entangled
             PROVE  /\ \A x, y \in Busy' : x = y
                    /\ \A x \in Busy' : Found(x)'
                    /\ Busy' = {} => procs' \subseteq {pidfile'}
  BY DEF DaemonInv
<1>1. Busy = {c} /\ Busy' \subseteq {c} /\ (c \in Busy' <=> caller'[c].at # "idle")
  BY DEF DaemonInv, DaemonTypes, Busy
<1> QED
  BY <1>1

LEMMA DaemonStep ==
    ASSUME DaemonInv, [DaemonNext]_daemonVars
    PROVE  DaemonInv'
<1> USE DaemonAssumption
<1>0. DaemonTypes /\ \A c \in Callers : caller[c].at # "idle" /\ ~entangled => Found(c)
  BY DEF DaemonInv, Busy
<1>1. ASSUME NEW c \in Callers, NEW op \in {"spawn", "stop"}, Invoke(c, op) PROVE DaemonInv'
  <2>1. DaemonTypes'
    BY <1>0, <1>1 DEF Invoke, DaemonTypes, Places
  <2>2. CASE entangled'
    BY <2>1, <2>2 DEF DaemonInv
  <2>3. CASE ~entangled'
    <3>1. Busy = {} /\ ~entangled /\ procs \subseteq {pidfile}
      BY <1>1, <2>3 DEF Invoke, DaemonInv
    <3>2. Busy' = {c} /\ caller'[c].at = "status"
      BY <1>0, <1>1, <3>1 DEF Invoke, DaemonTypes, Busy
    <3>3. Found(c)'
      BY <1>1, <3>1, <3>2 DEF Invoke, Found
    <3> QED
      BY <2>1, <3>2, <3>3 DEF DaemonInv
  <2> QED
    BY <2>2, <2>3
<1>2. ASSUME NEW c \in Callers, ReadFile(c) PROVE DaemonInv'
  <2>1. DaemonTypes' /\ caller' = [caller EXCEPT ![c] = caller'[c]] /\ UNCHANGED entangled
    BY <1>0, <1>2 DEF ReadFile, Goes, Idle, DaemonTypes, Places
  <2>2. ~entangled => IF caller'[c].at = "idle" THEN procs' \subseteq {pidfile'} ELSE Found(c)'
    BY <1>0, <1>2 DEF ReadFile, Goes, Idle, DaemonTypes, Found
  <2> QED
    BY <1>2, <2>1, <2>2, LoneStep DEF ReadFile
<1>3. ASSUME NEW c \in Callers, Probe(c) PROVE DaemonInv'
  <2>1. DaemonTypes' /\ caller' = [caller EXCEPT ![c] = caller'[c]] /\ UNCHANGED entangled
    BY <1>0, <1>3 DEF Probe, Goes, Idle, DaemonTypes, Places
  <2>2. ~entangled => IF caller'[c].at = "idle" THEN procs' \subseteq {pidfile'} ELSE Found(c)'
    BY <1>0, <1>3 DEF Probe, Goes, Idle, DaemonTypes, Found
  <2> QED
    BY <1>3, <2>1, <2>2, LoneStep DEF Probe
<1>4. ASSUME NEW c \in Callers, Launch(c) PROVE DaemonInv'
  <2>0. PICK p \in Pids : procs' = procs \cup {p} /\ Goes(c, "grace", p) /\ UNCHANGED <<pidfile, entangled>>
    BY <1>4 DEF Launch
  <2>1. DaemonTypes' /\ caller' = [caller EXCEPT ![c] = caller'[c]] /\ UNCHANGED entangled
    BY <1>0, <2>0 DEF Goes, DaemonTypes, Places
  <2>2. ~entangled => IF caller'[c].at = "idle" THEN procs' \subseteq {pidfile'} ELSE Found(c)'
    BY <1>0, <1>4 DEF Launch, Goes, DaemonTypes, Found
  <2> QED
    BY <1>4, <2>1, <2>2, LoneStep DEF Launch
<1>5. ASSUME NEW c \in Callers, Settle(c) PROVE DaemonInv'
  <2>1. DaemonTypes' /\ caller' = [caller EXCEPT ![c] = caller'[c]] /\ UNCHANGED entangled
    BY <1>0, <1>5 DEF Settle, Idle, DaemonTypes, Places
  <2>2. ~entangled => IF caller'[c].at = "idle" THEN procs' \subseteq {pidfile'} ELSE Found(c)'
    BY <1>0, <1>5 DEF Settle, Idle, DaemonTypes, Found
  <2> QED
    BY <1>5, <2>1, <2>2, LoneStep DEF Settle
<1>6. ASSUME NEW c \in Callers, Interrupt(c) PROVE DaemonInv'
  <2>1. DaemonTypes' /\ entangled'
    BY <1>0, <1>6 DEF Interrupt, Idle, DaemonTypes, Places
  <2> QED
    BY <2>1 DEF DaemonInv
<1>7. ASSUME NEW c \in Callers, Signal(c) \/ Escalate(c) \/ Unlink(c) PROVE DaemonInv'
  <2>1. DaemonTypes' /\ caller' = [caller EXCEPT ![c] = caller'[c]] /\ UNCHANGED entangled
    BY <1>0, <1>7 DEF Signal, Escalate, Unlink, Goes, Idle, DaemonTypes, Places
  <2>2. ~entangled => IF caller'[c].at = "idle" THEN procs' \subseteq {pidfile'} ELSE Found(c)'
    BY <1>0, <1>7 DEF Signal, Escalate, Unlink, Goes, Idle, DaemonTypes, Found
  <2> QED
    BY <1>7, <2>1, <2>2, LoneStep DEF Signal, Escalate, Unlink
<1>8. ASSUME NEW p \in Pids, Dies(p) PROVE DaemonInv'
  BY <1>8 DEF Dies, DaemonInv, DaemonTypes, Busy, Found
<1>9. CASE UNCHANGED daemonVars
  BY <1>9 DEF daemonVars, DaemonInv, DaemonTypes, Busy, Found
<1> QED
  BY <1>1, <1>2, <1>3, <1>4, <1>5, <1>6, <1>7, <1>8, <1>9 DEF DaemonNext

\* client/daemon.py: as long as spawn and stop do not overlap and none is
\* interrupted, at most one daemon runs, and at rest the pid file names it.
THEOREM NoOrphanHolds == DaemonSpec => []NoOrphan
<1>1. DaemonInit => DaemonInv
  <2> SUFFICES ASSUME DaemonInit PROVE DaemonTypes /\ Busy = {} /\ procs = {}
    BY DEF DaemonInv
  <2> QED
    BY DEF DaemonInit, DaemonTypes, Busy, Idle, Places
<1>2. DaemonInv /\ [DaemonNext]_daemonVars => DaemonInv'
  BY DaemonStep
<1>3. DaemonInv => NoOrphan
  <2> SUFFICES ASSUME DaemonInv, ~entangled
               PROVE  Cardinality(procs) <= 1 /\ (Busy = {} /\ procs # {} => procs = {pidfile})
    BY DEF NoOrphan
  <2>1. \E p : procs \subseteq {p}
    <3>1. CASE Busy = {}
      BY <3>1 DEF DaemonInv
    <3>2. ASSUME NEW c \in Busy PROVE \E p : procs \subseteq {p}
      <4>1. Found(c) /\ caller[c].at \in Places \ {"idle"}
        BY DEF DaemonInv, DaemonTypes, Busy
      <4> QED
        BY <4>1 DEF Found, Places
    <3> QED
      BY <3>1, <3>2
  <2>2. PICK p : procs \subseteq {p}
    BY <2>1
  <2>3. procs = {} \/ procs = {p}
    BY <2>2
  <2>4. Cardinality({}) = 0 /\ Cardinality({p}) = 1
    BY FS_EmptySet, FS_Singleton, Zenon
  <2>5. Cardinality(procs) <= 1
    BY <2>3, <2>4
  <2> QED
    BY <2>5 DEF DaemonInv
<1> QED
  BY <1>1, <1>2, <1>3, PTL DEF DaemonSpec

-----------------------------------------------------------------------------
=============================================================================
