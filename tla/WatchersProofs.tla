--------------------------- MODULE WatchersProofs ---------------------------
(***************************************************************************)
(* Theorems about those who watch a task (Watchers) and read it (Reader),  *)
(* and about the splitter of what they watch.                              *)
(***************************************************************************)
EXTENDS Reader, SequenceFacts, TLAPS

-----------------------------------------------------------------------------
(***************************************************************************)
(* The queue of a websocket                                                *)
(*                                                                         *)
(* The end of the task is behind its place of the queue by as many events  *)
(* as have followed it, so it is the oldest when there are QueueCap - 1.   *)
(***************************************************************************)
Announced == {"progress", "finished"}

\* The end is among the last n + 1 events of the queue.
EndWithin(queue, n) == \E i \in 1..Len(queue) : queue[i] = "finished" /\ Len(queue) - i <= n

SocketOK(s) ==
    /\ s = [phase |-> s.phase, queue |-> s.queue, late |-> s.late]
    /\ s.queue \in Seq(Announced) /\ s.late \in Int
    /\ Len(s.queue) <= QueueCap /\ s.late >= -1
    /\ s.phase = "subscribed" \/ (s.late = -1 /\ s.queue = <<>>)
    /\ s.late \in 0..(QueueCap - 1) => EndWithin(s.queue, s.late)

SocketInv ==
    /\ socket = [w \in Watchers |-> socket[w]]
    /\ \A w \in Watchers : SocketOK(socket[w])

LEMMA NewSocketOK == SocketOK(NewSocket)
<1>1. /\ NewSocket = [phase |-> NewSocket.phase, queue |-> NewSocket.queue, late |-> NewSocket.late]
      /\ NewSocket.queue \in Seq(Announced) /\ NewSocket.late \in Int
  BY DEF NewSocket
<1>2. NewSocket.queue = <<>> /\ NewSocket.late = -1 /\ Len(NewSocket.queue) = 0
  BY DEF NewSocket
<1> QED
  BY <1>1, <1>2, WatchersAssumption DEF SocketOK, WatchersAssumption

\* A sequence with one more element, or one less.
LEMMA AppendFacts ==
    ASSUME NEW S, NEW s \in Seq(S), NEW e \in S
    PROVE  /\ Append(s, e) \in Seq(S) /\ Len(Append(s, e)) = Len(s) + 1 /\ Len(s) \in Nat
           /\ Append(s, e)[Len(s) + 1] = e /\ \A i \in 1..Len(s) : Append(s, e)[i] = s[i]
OBVIOUS

LEMMA TailFacts ==
    ASSUME NEW S, NEW s \in Seq(S), s # <<>>
    PROVE  /\ Head(s) \in S /\ Head(s) = s[1] /\ Len(s) \in Nat \ {0}
           /\ Tail(s) \in Seq(S) /\ Len(Tail(s)) = Len(s) - 1
           /\ \A i \in 1..(Len(s) - 1) : Tail(s)[i] = s[i + 1]
OBVIOUS

LEMMA PutFacts ==
    ASSUME NEW q \in Seq(Announced), Len(q) <= QueueCap, NEW e \in Announced
    PROVE  /\ Put(q, e) \in Seq(Announced)
           /\ Len(Put(q, e)) \in 1..QueueCap
           /\ Put(q, e)[Len(Put(q, e))] = e
           /\ \A n \in 0..(QueueCap - 2) : EndWithin(q, n) => EndWithin(Put(q, e), n + 1)
<1>1. PICK n \in Nat : n = Len(q) /\ n <= QueueCap
  OBVIOUS
<1>2. QueueCap \in Nat \ {0}
  BY WatchersAssumption DEF WatchersAssumption
<1>3. CASE n < QueueCap
  <2>1. PICK u \in Seq(Announced) : u = Put(q, e) /\ Len(u) = n + 1 /\ u[n + 1] = e /\ \A i \in 1..n : u[i] = q[i]
    <3>1. Put(q, e) = Append(q, e)
      BY <1>1, <1>3 DEF Put
    <3> QED
      BY <1>1, <3>1, AppendFacts
  <2>2. ASSUME NEW m \in 0..(QueueCap - 2), EndWithin(q, m) PROVE EndWithin(u, m + 1)
    <3>1. PICK i \in 1..n : q[i] = "finished" /\ n - i <= m
      BY <1>1, <2>2 DEF EndWithin
    <3>2. i \in 1..Len(u) /\ u[i] = "finished" /\ Len(u) - i <= m + 1
      BY <2>1, <3>1
    <3> QED
      BY <3>2 DEF EndWithin
  <2> QED
    BY <1>2, <1>3, <2>1, <2>2
<1>4. CASE n = QueueCap
  <2>1. q # <<>>
    BY <1>1, <1>2, <1>4
  <2>2. PICK t \in Seq(Announced) : t = Tail(q) /\ Len(t) = n - 1 /\ \A i \in 1..(n - 1) : t[i] = q[i + 1]
    BY <1>1, <2>1, TailFacts
  <2>3. PICK u \in Seq(Announced) : u = Append(t, e) /\ Len(u) = n /\ u[n] = e /\ \A i \in 1..(n - 1) : u[i] = t[i]
    <3>1. Len(t) + 1 = n
      BY <1>1, <2>2
    <3>2. /\ Append(t, e) \in Seq(Announced) /\ Len(Append(t, e)) = Len(t) + 1
          /\ Append(t, e)[Len(t) + 1] = e /\ \A i \in 1..Len(t) : Append(t, e)[i] = t[i]
      BY AppendFacts
    <3> QED
      BY <2>2, <3>1, <3>2
  <2>4. u = Put(q, e)
    BY <1>1, <1>4, <2>2, <2>3 DEF Put
  <2>5. ASSUME NEW m \in 0..(QueueCap - 2), EndWithin(q, m) PROVE EndWithin(u, m + 1)
    <3>1. PICK i \in 1..n : q[i] = "finished" /\ n - i <= m
      BY <1>1, <2>5 DEF EndWithin
    <3>2. i - 1 \in 1..(n - 1)
      BY <1>2, <1>4, <3>1
    <3>3. u[i - 1] = "finished" /\ Len(u) - (i - 1) <= m + 1 /\ i - 1 \in 1..Len(u)
      BY <1>1, <2>2, <2>3, <3>1, <3>2
    <3> QED
      BY <3>3 DEF EndWithin
  <2> QED
    BY <1>2, <1>4, <2>3, <2>4, <2>5
<1> QED
  BY <1>1, <1>2, <1>3, <1>4

LEMMA PublishKeeps ==
    ASSUME SocketInv, NEW e \in Announced, Publish(e)
    PROVE  SocketInv'
<1>1. SUFFICES ASSUME NEW w \in Watchers PROVE SocketOK(socket'[w])
  BY DEF SocketInv, Publish
<1> DEFINE s == socket[w]
           l == IF e = "finished" THEN 0 ELSE IF s.late >= 0 THEN s.late + 1 ELSE s.late
           t == [s EXCEPT !.queue = Put(@, e), !.late = l]
<1>2. SocketOK(s)
  BY DEF SocketInv
<1>3. CASE s.phase # "subscribed"
  BY <1>2, <1>3 DEF Publish
<1>4. CASE s.phase = "subscribed"
  <2>1. socket'[w] = t
    BY <1>4 DEF Publish
  <2>2. PICK q \in Seq(Announced), n \in Int : s = [phase |-> "subscribed", queue |-> q, late |-> n] /\ n >= -1
    BY <1>2, <1>4 DEF SocketOK
  <2>3. Len(q) <= QueueCap /\ (n \in 0..(QueueCap - 1) => EndWithin(q, n))
    BY <1>2, <2>2 DEF SocketOK
  <2>4. PICK m \in Int : m = (IF e = "finished" THEN 0 ELSE IF n >= 0 THEN n + 1 ELSE n) /\ m >= -1
    BY <2>2
  <2>5. PICK u \in Seq(Announced) :
            /\ u = Put(q, e) /\ Len(u) \in 1..QueueCap /\ u[Len(u)] = e
            /\ \A k \in 0..(QueueCap - 2) : EndWithin(q, k) => EndWithin(u, k + 1)
    BY <2>3, PutFacts
  <2>6. t = [phase |-> "subscribed", queue |-> u, late |-> m]
    <3>1. s.queue = q /\ s.late = n
      BY <2>2
    <3>2. l = m /\ Put(s.queue, e) = u
      BY <2>4, <2>5, <3>1
    <3>3. [s EXCEPT !.queue = u, !.late = m] = [phase |-> "subscribed", queue |-> u, late |-> m]
      <4>1. PICK v : v = [phase |-> "subscribed", queue |-> u, late |-> n]
        OBVIOUS
      <4>2. [s EXCEPT !.queue = u] = v
        BY <2>2, <4>1
      <4>3. [v EXCEPT !.late = m] = [phase |-> "subscribed", queue |-> u, late |-> m]
        BY <4>1
      <4> QED
        BY <4>2, <4>3
    <3> QED
      BY <3>2, <3>3
  <2>7. QueueCap \in Nat \ {0}
    BY WatchersAssumption DEF WatchersAssumption
  <2>8. m \in 0..(QueueCap - 1) => EndWithin(u, m)
    <3>1. CASE e = "finished"
      BY <2>4, <2>5, <2>7, <3>1 DEF EndWithin
    <3>2. CASE e # "finished" /\ m \in 0..(QueueCap - 1)
      <4>1. n \in 0..(QueueCap - 2) /\ m = n + 1
        BY <2>4, <2>7, <3>2
      <4> QED
        BY <2>3, <2>5, <2>7, <4>1
    <3> QED
      BY <3>1, <3>2
  <2> HIDE DEF t
  <2>9. /\ t = [phase |-> t.phase, queue |-> t.queue, late |-> t.late]
        /\ t.queue = u /\ t.late = m /\ t.phase = "subscribed"
    BY <2>6
  <2> QED
    BY <2>1, <2>4, <2>5, <2>7, <2>8, <2>9 DEF SocketOK
<1> QED
  BY <1>3, <1>4

\* A step that gives one websocket another row.
LEMMA SocketReplaced ==
    ASSUME SocketInv, NEW w \in Watchers, NEW s, SocketOK(s), socket' = [socket EXCEPT ![w] = s]
    PROVE  SocketInv'
BY DEF SocketInv

\* A row in a phase without a queue.
LEMMA IdleOK ==
    ASSUME NEW s, SocketOK(s), s.phase # "subscribed", NEW p
    PROVE  SocketOK([s EXCEPT !.phase = p])
<1>1. s = [phase |-> s.phase, queue |-> <<>>, late |-> -1]
  BY DEF SocketOK
<1>2. PICK t : t = [phase |-> p, queue |-> <<>>, late |-> -1]
  OBVIOUS
<1>3. [s EXCEPT !.phase = p] = t
  BY <1>1, <1>2
<1>4. /\ t = [phase |-> t.phase, queue |-> t.queue, late |-> t.late]
      /\ t.queue = <<>> /\ t.late = -1
  BY <1>2
<1>5. t.queue \in Seq(Announced) /\ Len(t.queue) = 0
  BY <1>4
<1>6. SocketOK(t)
  BY <1>4, <1>5, WatchersAssumption DEF SocketOK, WatchersAssumption
<1> QED
  BY <1>3, <1>6

LEMMA ConnectKeeps ==
    ASSUME SocketInv, NEW w \in Watchers, Connect(w) \/ Accepted(w)
    PROVE  SocketInv'
<1>1. SocketOK(socket[w]) /\ socket[w].phase # "subscribed"
  BY DEF SocketInv, Connect, Accepted
<1>2. CASE Connect(w)
  <2> DEFINE p == IF ~There THEN "left" ELSE IF Ended THEN "replay" ELSE "accepting"
  <2>1. socket' = [socket EXCEPT ![w] = [socket[w] EXCEPT !.phase = p]]
    BY <1>2 DEF Connect
  <2> HIDE DEF p
  <2> QED
    BY <1>1, <2>1, IdleOK, SocketReplaced
<1>3. CASE Accepted(w)
  <2>1. socket' = [socket EXCEPT ![w] = [socket[w] EXCEPT !.phase = "subscribed"]]
    BY <1>3 DEF Accepted
  <2> QED
    BY <1>1, <2>1, IdleOK, SocketReplaced
<1> QED
  BY <1>2, <1>3

\* What is left of a NewSocket in another phase.
Told == [NewSocket EXCEPT !.phase = "told"]
Gone == [NewSocket EXCEPT !.phase = "left"]

LEMMA OtherPhaseOK == SocketOK(Told) /\ SocketOK(Gone)
<1>1. NewSocket.phase # "subscribed"
  BY DEF NewSocket
<1>2. \A p : SocketOK([NewSocket EXCEPT !.phase = p])
  BY <1>1, NewSocketOK, IdleOK
<1> QED
  BY <1>2 DEF Told, Gone

LEMMA ForwardKeeps == ASSUME SocketInv, NEW w \in Watchers, Forward(w) PROVE SocketInv'
<1> DEFINE s == socket[w]
<1>1. SocketOK(s)
  BY DEF SocketInv
<1>2. CASE socket' = [socket EXCEPT ![w] = Told]
  BY <1>2, OtherPhaseOK, SocketReplaced
<1>3. CASE /\ s.phase = "subscribed" /\ s.queue # <<>> /\ Head(s.queue) # "finished"
           /\ socket' = [socket EXCEPT ![w] = [s EXCEPT !.queue = Tail(s.queue)]]
  <2>1. PICK q \in Seq(Announced), n \in Int : s = [phase |-> "subscribed", queue |-> q, late |-> n] /\ n >= -1
    BY <1>1, <1>3 DEF SocketOK
  <2>2. q # <<>> /\ Head(q) # "finished" /\ Len(q) <= QueueCap /\ (n \in 0..(QueueCap - 1) => EndWithin(q, n))
    BY <1>1, <1>3, <2>1 DEF SocketOK
  <2>3. PICK t \in Seq(Announced) : t = Tail(q) /\ Len(t) = Len(q) - 1 /\ \A i \in 1..(Len(q) - 1) : t[i] = q[i + 1]
    BY <2>2, TailFacts
  <2>4. Head(q) = q[1] /\ Len(q) \in Nat \ {0}
    BY <2>2, TailFacts
  <2>5. EndWithin(q, n) => EndWithin(t, n)
    <3>1. SUFFICES ASSUME NEW i \in 1..Len(q), q[i] = "finished", Len(q) - i <= n
                   PROVE  \E j \in 1..Len(t) : t[j] = "finished" /\ Len(t) - j <= n
      BY DEF EndWithin
    <3>2. i # 1
      BY <2>2, <2>4, <3>1
    <3>3. i - 1 \in 1..Len(t) /\ t[i - 1] = "finished" /\ Len(t) - (i - 1) <= n
      BY <2>3, <2>4, <3>1, <3>2
    <3> QED
      BY <3>3
  <2>6. PICK u : u = [phase |-> "subscribed", queue |-> t, late |-> n]
    OBVIOUS
  <2>7. /\ u = [phase |-> u.phase, queue |-> u.queue, late |-> u.late]
        /\ u.queue = t /\ u.late = n /\ u.phase = "subscribed"
    BY <2>6
  <2>8. QueueCap \in Nat /\ Len(t) <= QueueCap
    BY <2>2, <2>3, <2>4, WatchersAssumption DEF WatchersAssumption
  <2>9. SocketOK(u)
    BY <2>1, <2>2, <2>5, <2>7, <2>8 DEF SocketOK
  <2>10. [s EXCEPT !.queue = Tail(s.queue)] = u
    <3>1. Tail(s.queue) = t
      BY <2>1, <2>3
    <3>2. [s EXCEPT !.queue = t] = u
      BY <2>1, <2>6
    <3> QED
      BY <3>1, <3>2
  <2> QED
    BY <1>3, <2>9, <2>10, SocketReplaced
<1> QED
  BY <1>2, <1>3 DEF Forward, Told

LEMMA RestartKeeps == ASSUME SocketInv, Restart PROVE SocketInv'
<1>1. socket' = [w \in Watchers |-> IF socket[w].phase = "new" THEN socket[w] ELSE Gone]
  BY DEF Restart, Gone
<1>2. \A w \in Watchers : SocketOK(socket'[w])
  BY <1>1, OtherPhaseOK DEF SocketInv
<1> QED
  BY <1>1, <1>2 DEF SocketInv

LEMMA LeaveKeeps == ASSUME SocketInv, NEW w \in Watchers, Leave(w) PROVE SocketInv'
<1>1. socket' = [socket EXCEPT ![w] = Gone]
  BY DEF Leave, Gone
<1> QED
  BY <1>1, OtherPhaseOK, SocketReplaced

LEMMA WatchersStep == SocketInv /\ [Next]_vars => SocketInv'
<1> SUFFICES ASSUME SocketInv, [Next]_vars PROVE SocketInv'
  OBVIOUS
<1>1. CASE \E e \in Announced : Publish(e)
  BY <1>1, PublishKeeps
<1>2. CASE UNCHANGED socket
  BY <1>2 DEF SocketInv
<1>3. ASSUME NEW a \in DOMAIN attempts, NEW n, Progress(a, n) PROVE SocketInv'
  BY <1>1, <1>3 DEF Progress, Announced
<1>4. ASSUME NEW work, Assign(work) PROVE SocketInv'
  BY <1>2, <1>4 DEF Assign
<1>5. CASE Succeed \/ Fail \/ Lose \/ Cancel \/ Delete \/ Poll
  BY <1>1, <1>2, <1>5 DEF Succeed, Fail, Lose, Cancel, Delete, Poll, Announced
<1>6. CASE UNCHANGED vars
  BY <1>2, <1>6 DEF vars
<1> QED
  BY <1>3, <1>4, <1>5, <1>6, ConnectKeeps, ForwardKeeps, LeaveKeeps, RestartKeeps DEF Next

LEMMA WatchersInitially == Init => SocketInv
<1>1. Init => socket = [w \in Watchers |-> NewSocket]
  BY DEF Init
<1> QED
  BY <1>1, NewSocketOK DEF SocketInv

LEMMA SocketsAlways == Spec => []SocketInv
BY WatchersInitially, WatchersStep, PTL DEF Spec

\* publish of scheduler/broadcast.py and task_ws of scheduler/api/ws.py: the end of
\* a task stays in a subscriber's queue until QueueCap events have followed it.
THEOREM EndStays == Spec => []EndNotDropped
<1>1. SocketInv => EndNotDropped
  BY DEF SocketInv, SocketOK, EndNotDropped, EndWithin, Contains
<1> QED
  BY <1>1, SocketsAlways, PTL

-----------------------------------------------------------------------------
(***************************************************************************)
(* The reader                                                              *)
(*                                                                         *)
(* Beginnings of a text, and what a reader has once it has yielded what is *)
(* beyond a beginning.                                                     *)
(***************************************************************************)
LEMMA PrefixFacts ==
    ASSUME NEW S, NEW t \in Seq(S), NEW n \in 0..Len(t)
    PROVE  /\ SubSeq(t, 1, n) \in Seq(S) /\ Len(SubSeq(t, 1, n)) = n
           /\ \A i \in 1..n : SubSeq(t, 1, n)[i] = t[i]
OBVIOUS

\* A beginning of t, element by element.
LEMMA PrefixIs ==
    ASSUME NEW S, NEW s \in Seq(S), NEW t \in Seq(S)
    PROVE  IsPrefix(s, t) <=> Len(s) <= Len(t) /\ \A i \in 1..Len(s) : s[i] = t[i]
<1>1. PICK n \in Nat : n = Len(s)
  OBVIOUS
<1>2. SubSeq(s, 1, n) = s
  BY <1>1
<1>3. ASSUME n <= Len(t) PROVE SubSeq(t, 1, n) = s <=> \A i \in 1..n : s[i] = t[i]
  <2>1. /\ SubSeq(t, 1, n) \in Seq(S) /\ Len(SubSeq(t, 1, n)) = n
        /\ \A i \in 1..n : SubSeq(t, 1, n)[i] = t[i]
    BY <1>3, PrefixFacts
  <2>2. PICK u \in Seq(S) : u = SubSeq(t, 1, n) /\ Len(u) = n /\ \A i \in 1..n : u[i] = t[i]
    BY <2>1
  <2>3. (\A i \in 1..n : s[i] = t[i]) => u = s
    BY <1>1, <2>2
  <2> QED
    BY <2>2, <2>3
<1> QED
  BY <1>1, <1>2, <1>3 DEF IsPrefix

LEMMA BeyondFacts ==
    ASSUME NEW S, NEW s \in Seq(S), NEW t \in Seq(S), IsPrefix(s, t)
    PROVE  s \o Beyond(t, Len(s)) = t
<1>1. PICK m \in Nat, n \in Nat : m = Len(s) /\ n = Len(t)
  OBVIOUS
<1>2. m <= n /\ \A i \in 1..m : s[i] = t[i]
  BY <1>1, PrefixIs
<1>3. PICK u \in Seq(S) : u = SubSeq(t, m + 1, n) /\ Len(u) = n - m /\ \A i \in 1..(n - m) : u[i] = t[m + i]
  <2>1. SubSeq(t, m + 1, n) \in Seq(S) /\ Len(SubSeq(t, m + 1, n)) = n - m
    BY <1>1, <1>2
  <2>2. \A i \in 1..(n - m) : SubSeq(t, m + 1, n)[i] = t[m + i]
    BY <1>1, <1>2
  <2> QED
    BY <2>1, <2>2
<1>4. PICK v \in Seq(S) : v = s \o u /\ Len(v) = n
          /\ \A i \in 1..n : v[i] = IF i <= m THEN s[i] ELSE u[i - m]
  <2>1. Len(u) = n - m /\ Len(s) = m /\ m + (n - m) = n
    BY <1>1, <1>2, <1>3
  <2>2. s \o u \in Seq(S) /\ Len(s \o u) = Len(s) + Len(u)
    OBVIOUS
  <2>3. \A i \in 1..(Len(s) + Len(u)) : (s \o u)[i] = IF i <= Len(s) THEN s[i] ELSE u[i - Len(s)]
    OBVIOUS
  <2> QED
    BY <2>1, <2>2, <2>3
<1>5. \A i \in 1..n : v[i] = t[i]
  <2>1. SUFFICES ASSUME NEW i \in 1..n PROVE v[i] = t[i]
    OBVIOUS
  <2>2. CASE i <= m
    BY <1>2, <1>4, <2>2
  <2>3. CASE ~(i <= m)
    <3>1. i - m \in 1..(n - m) /\ m + (i - m) = i
      BY <1>2, <2>3
    <3> QED
      BY <1>3, <1>4, <2>3, <3>1
  <2> QED
    BY <2>2, <2>3
<1>6. v = t
  <2>1. Len(v) = Len(t) /\ \A i \in 1..Len(t) : v[i] = t[i]
    BY <1>1, <1>4, <1>5
  <2> QED
    BY <2>1
<1> QED
  BY <1>1, <1>3, <1>4, <1>6 DEF Beyond

\* There is nothing beyond no text.
LEMMA BeyondNothing ==
    ASSUME NEW S, NEW s \in Seq(S), NEW n \in Nat
    PROVE  s \o Beyond(<<>>, n) = s
<1>1. Beyond(<<>>, n) = <<>>
  BY DEF Beyond
<1> QED
  BY <1>1

-----------------------------------------------------------------------------
(***************************************************************************)
(* Types                                                                   *)
(***************************************************************************)
Statuses == {"queued", "running", "succeeded", "failed", "cancelled", "gone"}
Attempt == [text : Seq(Chars), sent : Nat]
Places == {"dialing", "listening", "polling", "done", "raised"}

TableTypes ==
    /\ task \in [status : Statuses, family : Families, output : Seq(Chars)]
    /\ attempts \in Seq(Attempt) /\ \A a \in 1..Len(attempts) : attempts[a].sent <= Len(attempts[a].text)
    /\ Len(attempts) <= MaxAttempts
    /\ progress \in Seq(Chars)

Readers == [at : Places, inbox : Seq(Announced), shown : Nat,
            before : Seq(Chars), since : Seq(Chars), blanked : BOOLEAN]

ReaderTypes == reader \in Readers

\* What the steps do to the task, its attempts and its text.
TableKept == UNCHANGED <<task, attempts, progress>>

LEMMA AttemptFacts ==
    ASSUME TableTypes, NEW a \in 1..Len(attempts)
    PROVE  /\ attempts[a].text \in Seq(Chars) /\ attempts[a].sent \in 0..Len(attempts[a].text)
           /\ attempts[a] = [text |-> attempts[a].text, sent |-> attempts[a].sent]
<1>1. attempts[a] \in Attempt /\ attempts[a].sent <= Len(attempts[a].text)
  BY DEF TableTypes
<1> QED
  BY <1>1 DEF Attempt

LEMMA AssignFacts ==
    ASSUME TableTypes, NEW work, work \in Work[Current + 1], Current < MaxAttempts, Assign(work)
    PROVE  /\ TableTypes'
           /\ task.status = "queued" /\ task'.status = "running" /\ task'.output = task.output
           /\ Len(attempts') = Len(attempts) + 1 /\ progress' = progress /\ socket' = socket
           /\ attempts'[Len(attempts) + 1].sent = 0
<1>1. Current \in Nat /\ Current + 1 \in 1..MaxAttempts
  BY WatchersAssumption DEF Current, TableTypes, WatchersAssumption
<1>2. work \in [text : Seq(Chars), output : Seq(Chars), family : Families]
  BY <1>1, WatchersAssumption DEF WatchersAssumption
<1>3. PICK row \in Attempt : row = [text |-> work.text, sent |-> 0]
  BY <1>2 DEF Attempt
<1>4. attempts' = Append(attempts, row) /\ row.sent = 0 /\ row.text \in Seq(Chars)
  BY <1>2, <1>3 DEF Assign
<1>5. /\ attempts' \in Seq(Attempt) /\ Len(attempts') = Len(attempts) + 1 /\ Len(attempts) \in Nat
      /\ attempts'[Len(attempts) + 1] = row /\ \A i \in 1..Len(attempts) : attempts'[i] = attempts[i]
  BY <1>4, AppendFacts DEF TableTypes
<1>6. \A a \in 1..Len(attempts') : attempts'[a].sent <= Len(attempts'[a].text)
  <2>1. SUFFICES ASSUME NEW a \in 1..Len(attempts') PROVE attempts'[a].sent <= Len(attempts'[a].text)
    OBVIOUS
  <2>2. CASE a = Len(attempts) + 1
    BY <1>4, <1>5, <2>2
  <2>3. CASE a \in 1..Len(attempts)
    BY <1>5, <2>3 DEF TableTypes
  <2> QED
    BY <1>5, <2>2, <2>3
<1>7. task' \in [status : Statuses, family : Families, output : Seq(Chars)]
      /\ task'.status = "running" /\ task'.output = task.output
  BY <1>2 DEF Assign, TableTypes, Statuses
<1>8. task.status = "queued" /\ progress' = progress /\ socket' = socket
  BY DEF Assign
<1>10. Len(attempts') <= MaxAttempts
  BY <1>1, <1>5, WatchersAssumption DEF Current, WatchersAssumption
<1>9. TableTypes'
  BY <1>5, <1>6, <1>7, <1>8, <1>10 DEF TableTypes
<1> QED
  BY <1>4, <1>5, <1>7, <1>8, <1>9

LEMMA ProgressFacts ==
    ASSUME TableTypes, NEW a \in DOMAIN attempts,
           NEW n \in (attempts[a].sent + 1)..Len(attempts[a].text), Progress(a, n)
    PROVE  /\ TableTypes' /\ task' = task
           /\ Len(attempts') = Len(attempts) /\ a \in 1..Len(attempts)
           /\ attempts' = [attempts EXCEPT ![a] = [text |-> attempts[a].text, sent |-> n]]
           /\ progress' = progress \o SubSeq(attempts[a].text, attempts[a].sent + 1, n)
           /\ n \in Nat /\ n > attempts[a].sent /\ n <= Len(attempts[a].text)
           /\ Publish("progress")
<1>1. a \in 1..Len(attempts) /\ attempts \in Seq(Attempt)
  BY DEF TableTypes
<1>2. /\ attempts[a].text \in Seq(Chars) /\ attempts[a].sent \in 0..Len(attempts[a].text)
      /\ attempts[a] = [text |-> attempts[a].text, sent |-> attempts[a].sent]
  BY <1>1, AttemptFacts
<1>3. n \in Nat /\ n > attempts[a].sent /\ n <= Len(attempts[a].text)
  BY <1>2
<1>4. PICK row \in Attempt : row = [text |-> attempts[a].text, sent |-> n]
  BY <1>2, <1>3 DEF Attempt
<1>5. [attempts[a] EXCEPT !.sent = n] = row
  BY <1>2, <1>4
<1>6. attempts' = [attempts EXCEPT ![a] = row]
  BY <1>5 DEF Progress
<1>7. attempts' \in Seq(Attempt) /\ Len(attempts') = Len(attempts)
      /\ attempts'[a] = row /\ \A b \in 1..Len(attempts) : b # a => attempts'[b] = attempts[b]
  BY <1>1, <1>6
<1>8. \A b \in 1..Len(attempts') : attempts'[b].sent <= Len(attempts'[b].text)
  BY <1>3, <1>4, <1>7 DEF TableTypes
<1>9. SubSeq(attempts[a].text, attempts[a].sent + 1, n) \in Seq(Chars)
  BY <1>2, <1>3
<1>10. progress' \in Seq(Chars) /\ task' = task
  BY <1>9 DEF Progress, TableTypes
<1>11. TableTypes'
  BY <1>7, <1>8, <1>10 DEF TableTypes
<1> QED
  BY <1>1, <1>3, <1>4, <1>6, <1>7, <1>10, <1>11 DEF Progress

LEMMA FailFacts ==
    ASSUME TableTypes, Current > 0, Fail
    PROVE  /\ TableTypes' /\ task'.status \in {"queued", "failed"} /\ task'.output = task.output
           /\ Len(attempts') = Len(attempts)
           /\ attempts'[Current].sent = attempts[Current].sent
           /\ attempts'[Current].text = SubSeq(attempts[Current].text, 1, attempts[Current].sent)
           /\ Len(attempts'[Current].text) = attempts[Current].sent
           /\ progress' = progress \/ progress' = <<>>
           /\ task'.status = "queued" => progress' = progress
<1> DEFINE c == Current
<1>1. c \in 1..Len(attempts) /\ attempts \in Seq(Attempt)
  BY DEF TableTypes, Current
<1>2. /\ attempts[c].text \in Seq(Chars) /\ attempts[c].sent \in 0..Len(attempts[c].text)
      /\ attempts[c] = [text |-> attempts[c].text, sent |-> attempts[c].sent]
  BY <1>1, AttemptFacts
<1>3. PICK t \in Seq(Chars) : /\ t = SubSeq(attempts[c].text, 1, attempts[c].sent)
                              /\ Len(t) = attempts[c].sent
  BY <1>2, PrefixFacts
<1>4. PICK row \in Attempt : row = [text |-> t, sent |-> attempts[c].sent]
  <2>1. attempts[c].sent \in Nat
    BY <1>2
  <2> QED
    BY <2>1 DEF Attempt
<1>5. [attempts[c] EXCEPT !.text = t] = row
  BY <1>2, <1>4
<1>6. attempts' = [attempts EXCEPT ![c] = row]
  BY <1>3, <1>5 DEF Fail
<1> HIDE DEF c
<1>7. attempts' \in Seq(Attempt) /\ Len(attempts') = Len(attempts)
      /\ attempts'[c] = row /\ \A b \in 1..Len(attempts) : b # c => attempts'[b] = attempts[b]
  BY <1>1, <1>6
<1>8. row.text = t /\ row.sent = attempts[c].sent
  BY <1>4
<1>9. \A b \in 1..Len(attempts') : attempts'[b].sent <= Len(attempts'[b].text)
  <2>1. SUFFICES ASSUME NEW b \in 1..Len(attempts') PROVE attempts'[b].sent <= Len(attempts'[b].text)
    OBVIOUS
  <2>2. CASE b = c
    BY <1>2, <1>3, <1>7, <1>8, <2>2
  <2>3. CASE b # c
    BY <1>7, <2>1, <2>3 DEF TableTypes
  <2> QED
    BY <2>2, <2>3
<1>10. /\ task' \in [status : Statuses, family : Families, output : Seq(Chars)]
       /\ task'.status \in {"queued", "failed"} /\ task'.output = task.output
  BY DEF Fail, Requeued, TableTypes, Statuses, Families
<1>11. (progress' = progress \/ progress' = <<>>) /\ (task'.status = "queued" => progress' = progress)
  BY DEF Fail, TableTypes
<1>12. progress' \in Seq(Chars)
  <2>1. progress \in Seq(Chars) /\ <<>> \in Seq(Chars)
    BY DEF TableTypes
  <2> QED
    BY <1>11, <2>1
<1>13. TableTypes'
  BY <1>7, <1>9, <1>10, <1>12 DEF TableTypes
<1> QED
  BY <1>3, <1>7, <1>8, <1>10, <1>11, <1>13 DEF c

-----------------------------------------------------------------------------
(***************************************************************************)
(* The task, as a reader finds it                                          *)
(***************************************************************************)
\* Only a task that succeeded has an output, and all the text of the attempt was
\* sent before.
OutputTrue ==
    IF task.status = "succeeded"
    THEN attempts[Current].sent = Len(attempts[Current].text)
    ELSE task.output = <<>>

\* A task that runs or has succeeded has an attempt, and only an attempt makes text.
Attempted ==
    /\ task.status \in {"running", "succeeded"} => Current > 0
    /\ Current = 0 => progress = <<>>

TableInv == TableTypes /\ OutputTrue /\ Attempted

LEMMA TableInitially == Init => TableInv
<1>1. <<>> \in Seq(Chars) /\ <<>> \in Seq(Attempt) /\ Len(<<>>) = 0
  OBVIOUS
<1> QED
  BY <1>1, WatchersAssumption
  DEF Init, TableInv, TableTypes, OutputTrue, Attempted, Statuses, Families, Current, WatchersAssumption

LEMMA TableStep == TableInv /\ [Next]_vars => TableInv'
<1> SUFFICES ASSUME TableInv, [Next]_vars PROVE TableInv'
  OBVIOUS
<1> USE DEF TableInv, Current
<1>0. Len(attempts) \in Nat
  BY DEF TableTypes
<1>1. ASSUME NEW work, work \in Work[Current + 1], Current < MaxAttempts, Assign(work) PROVE TableInv'
  <2>1. /\ TableTypes'
        /\ task.status = "queued" /\ task'.status = "running" /\ task'.output = task.output
        /\ Len(attempts') = Len(attempts) + 1
    BY <1>1, AssignFacts
  <2> QED
    BY <1>0, <2>1 DEF OutputTrue, Attempted
<1>2. ASSUME NEW a \in DOMAIN attempts,
             NEW n \in (attempts[a].sent + 1)..Len(attempts[a].text), Progress(a, n)
      PROVE  TableInv'
  <2>1. /\ TableTypes' /\ task' = task
        /\ Len(attempts') = Len(attempts) /\ a \in 1..Len(attempts)
        /\ attempts' = [attempts EXCEPT ![a] = [text |-> attempts[a].text, sent |-> n]]
        /\ n \in Nat /\ n > attempts[a].sent /\ n <= Len(attempts[a].text)
    BY <1>2, ProgressFacts
  <2>2. OutputTrue'
    <3>1. CASE task.status # "succeeded"
      BY <2>1, <3>1 DEF OutputTrue
    <3>2. CASE task.status = "succeeded"
      <4>1. Len(attempts) \in 1..Len(attempts) /\ Len(attempts) # a
        BY <1>0, <2>1, <3>2, AttemptFacts DEF OutputTrue, Attempted
      <4>2. attempts'[Len(attempts')] = attempts[Len(attempts)]
        BY <2>1, <4>1 DEF TableTypes
      <4> QED
        BY <2>1, <3>2, <4>2 DEF OutputTrue
    <3> QED
      BY <3>1, <3>2
  <2> QED
    BY <1>0, <2>1, <2>2 DEF Attempted
<1>3. CASE Succeed
  <2>1. PICK work \in Work[Current] :
            /\ task' = [task EXCEPT !.status = "succeeded", !.output = work.output]
            /\ attempts' = attempts /\ progress' = <<>> /\ Current > 0
            /\ attempts[Current].sent = Len(attempts[Current].text)
    BY <1>3 DEF Succeed, Attempted
  <2>2. Current \in 1..MaxAttempts
    BY <1>0, <2>1, WatchersAssumption DEF TableTypes, WatchersAssumption
  <2>3. work.output \in Seq(Chars)
    BY <2>2, WatchersAssumption DEF WatchersAssumption
  <2>4. /\ task' \in [status : Statuses, family : Families, output : Seq(Chars)]
        /\ task'.status = "succeeded"
    BY <2>1, <2>3 DEF TableTypes, Statuses
  <2> QED
    BY <2>1, <2>4 DEF TableTypes, OutputTrue, Attempted
<1>4. CASE Fail
  <2>1. Current > 0 /\ task.output = <<>>
    BY <1>4 DEF Fail, Attempted, OutputTrue
  <2>2. /\ TableTypes' /\ task'.status \in {"queued", "failed"} /\ task'.output = task.output
        /\ Len(attempts') = Len(attempts)
    BY <1>4, <2>1, FailFacts
  <2> QED
    BY <1>0, <2>1, <2>2 DEF OutputTrue, Attempted
<1>5. CASE Lose \/ Cancel
  <2>1. /\ task' \in [status : Statuses, family : Families, output : Seq(Chars)]
        /\ task'.status \in {"queued", "failed", "cancelled"} /\ task'.output = task.output
        /\ task.status # "succeeded" /\ UNCHANGED <<attempts, progress>>
    BY <1>5 DEF Lose, Cancel, Requeued, TableTypes, Statuses, Families
  <2> QED
    BY <2>1 DEF TableTypes, OutputTrue, Attempted
<1>6. CASE Delete
  BY <1>6 DEF Delete, TableTypes, OutputTrue, Attempted, Statuses, Families
<1>7. CASE Restart
  BY <1>7 DEF Restart, TableTypes, OutputTrue, Attempted
<1>8. CASE TableKept
  BY <1>8 DEF TableKept, TableTypes, OutputTrue, Attempted
<1>9. CASE \/ Poll \/ UNCHANGED vars
           \/ \E w \in Watchers : Connect(w) \/ Accepted(w) \/ Forward(w) \/ Leave(w)
  BY <1>8, <1>9 DEF Poll, Connect, Accepted, Forward, Leave, vars, TableKept
<1> QED
  BY <1>1, <1>2, <1>3, <1>4, <1>5, <1>6, <1>7, <1>9 DEF Next

-----------------------------------------------------------------------------
(***************************************************************************)
(* What a reader has been told                                             *)
(***************************************************************************)
HasEnd(queue) == \E i \in 1..Len(queue) : queue[i] = "finished"

Finished == task.status \in {"succeeded", "failed", "cancelled", "gone"}

\* Nobody hears of the end before it is one.
EndTold ==
    HasEnd(reader.inbox) \/ HasEnd(socket[Socket].queue)
        \/ socket[Socket].phase = "replay" \/ reader.at = "done"
    => Finished

\* What the reader's step does to the server.
LEMMA ServerSteps == [ReaderNext]_readerVars => [Next]_vars \/ GiveUp
<1> SUFFICES ASSUME [ReaderNext]_readerVars PROVE [Next]_vars \/ GiveUp
  OBVIOUS
<1>1. Socket \in Watchers
  BY ReaderAssumption DEF ReaderAssumption
<1>2. CASE Delivered \/ Blanked
  BY <1>1, <1>2 DEF Delivered, Blanked, Next
<1>3. CASE Served
  BY <1>1, <1>3 DEF Served, Next
<1>4. CASE Answered \/ Receive \/ Look \/ TooLate \/ UNCHANGED readerVars
  BY <1>4 DEF Answered, Receive, Look, TooLate, readerVars
<1> QED
  BY <1>2, <1>3, <1>4 DEF ReaderNext

LEMMA ServerKept ==
    ASSUME SocketInv, TableInv, [ReaderNext]_readerVars
    PROVE  SocketInv' /\ TableInv'
<1>1. CASE [Next]_vars
  BY <1>1, WatchersStep, TableStep
<1>2. CASE GiveUp
  <2>2. socket' = [socket EXCEPT ![Socket] = Gone] /\ UNCHANGED <<task, attempts, progress>>
    BY <1>2 DEF GiveUp, Gone
  <2>3. SocketInv'
    BY <2>2, OtherPhaseOK, SocketReplaced, ReaderAssumption DEF ReaderAssumption
  <2> QED
    BY <2>2, <2>3 DEF TableInv, TableTypes, OutputTrue, Attempted, Current
<1> QED
  BY <1>1, <1>2, ServerSteps

\* The end of a task is for ever.
LEMMA FinishedStays ==
    ASSUME TableTypes, Finished, [ReaderNext]_readerVars
    PROVE  Finished'
<1>1. ASSUME NEW work, Assign(work) PROVE FALSE
  BY <1>1 DEF Assign, Finished
<1>2. CASE \/ Succeed \/ Fail \/ Lose \/ Cancel
  BY <1>2 DEF Succeed, Fail, Lose, Cancel, Finished
<1>3. CASE Delete
  BY <1>3 DEF Delete, Finished
<1>4. CASE task' = task
  BY <1>4 DEF Finished
<1>5. ASSUME NEW a, NEW n, Progress(a, n) PROVE task' = task
  BY <1>5 DEF Progress
<1>6. CASE \/ Poll \/ Restart \/ GiveUp \/ UNCHANGED vars
           \/ \E w \in Watchers : Connect(w) \/ Accepted(w) \/ Forward(w) \/ Leave(w)
  BY <1>4, <1>6 DEF Poll, Restart, GiveUp, Connect, Accepted, Forward, Leave, vars
<1> QED
  BY <1>1, <1>2, <1>3, <1>4, <1>5, <1>6, ServerSteps DEF Next

LEMMA PutElements ==
    ASSUME NEW q \in Seq(Announced), NEW e \in Announced, HasEnd(Put(q, e))
    PROVE  HasEnd(q) \/ e = "finished"
<1>1. PICK i \in 1..Len(Put(q, e)) : Put(q, e)[i] = "finished"
  BY DEF HasEnd
<1>2. PICK n \in Nat : n = Len(q)
  OBVIOUS
<1>3. CASE n < QueueCap
  <2>1. Put(q, e) = Append(q, e)
    BY <1>2, <1>3 DEF Put
  <2> QED
    BY <1>1, <1>2, <2>1, AppendFacts DEF HasEnd
<1>4. CASE ~(n < QueueCap)
  <2>1. Put(q, e) = Append(Tail(q), e)
    BY <1>2, <1>4 DEF Put
  <2>2. q # <<>> /\ n # 0
    BY <1>2, <1>4, WatchersAssumption DEF WatchersAssumption
  <2>3. PICK t \in Seq(Announced) : t = Tail(q) /\ Len(t) = n - 1 /\ \A j \in 1..(n - 1) : t[j] = q[j + 1]
    BY <1>2, <2>2, TailFacts
  <2>4. Put(q, e) = Append(t, e)
    BY <2>1, <2>3
  <2>5. /\ Len(Append(t, e)) = Len(t) + 1
        /\ Append(t, e)[Len(t) + 1] = e /\ \A j \in 1..Len(t) : Append(t, e)[j] = t[j]
    BY AppendFacts
  <2>6. CASE i = n
    BY <1>1, <2>3, <2>4, <2>5, <2>6
  <2>7. CASE i # n
    <3>1. i \in 1..(n - 1)
      BY <1>1, <1>2, <2>2, <2>3, <2>4, <2>5, <2>7
    <3>2. i + 1 \in 1..n /\ q[i + 1] = "finished"
      BY <1>1, <1>2, <2>3, <2>4, <2>5, <3>1
    <3> QED
      BY <1>2, <3>2 DEF HasEnd
  <2> QED
    BY <2>6, <2>7
<1> QED
  BY <1>3, <1>4

\* What a GET makes of a reader.
LEMMA FetchFacts ==
    ASSUME NEW r, NEW partial, NEW done \in BOOLEAN,
           r = [at |-> r.at, inbox |-> r.inbox, shown |-> r.shown,
                before |-> r.before, since |-> r.since, blanked |-> r.blanked]
    PROVE  LET f == Fetch(r, partial, done)
               more == r.since \o Beyond(partial, r.shown)
               shown == IF Len(partial) > r.shown THEN Len(partial) ELSE r.shown
           IN  /\ f.inbox = r.inbox /\ f.before = r.before /\ f.blanked = r.blanked
               /\ ~There => f.at = "raised" /\ f.since = r.since /\ f.shown = r.shown
               /\ There /\ done => f.at = "done" /\ f.since = more \o Beyond(task.output, shown) /\ f.shown = r.shown
               /\ There /\ ~done => f.at = r.at /\ f.since = more /\ f.shown = shown
               /\ f = [at |-> f.at, inbox |-> f.inbox, shown |-> f.shown,
                       before |-> f.before, since |-> f.since, blanked |-> f.blanked]
<1> DEFINE more == r.since \o Beyond(partial, r.shown)
           shown == IF Len(partial) > r.shown THEN Len(partial) ELSE r.shown
           all == more \o Beyond(task.output, shown)
<1>1. Fetch(r, partial, done) = IF ~There THEN [r EXCEPT !.at = "raised"]
                                ELSE IF done THEN [r EXCEPT !.at = "done", !.since = all]
                                ELSE [r EXCEPT !.since = more, !.shown = shown]
  BY DEF Fetch
<1> HIDE DEF more, shown, all
<1>2. PICK a, b, c, d, e, g : r = [at |-> a, inbox |-> b, shown |-> c, before |-> d, since |-> e, blanked |-> g]
  OBVIOUS
<1>3. [r EXCEPT !.at = "raised"] = [at |-> "raised", inbox |-> b, shown |-> c, before |-> d, since |-> e, blanked |-> g]
  BY <1>2
<1>4. [r EXCEPT !.at = "done", !.since = all]
          = [at |-> "done", inbox |-> b, shown |-> c, before |-> d, since |-> all, blanked |-> g]
  <2>1. PICK v : v = [at |-> "done", inbox |-> b, shown |-> c, before |-> d, since |-> e, blanked |-> g]
    OBVIOUS
  <2>2. [r EXCEPT !.at = "done"] = v
    BY <1>2, <2>1
  <2>3. [v EXCEPT !.since = all] = [at |-> "done", inbox |-> b, shown |-> c, before |-> d, since |-> all, blanked |-> g]
    BY <2>1
  <2> QED
    BY <2>2, <2>3
<1>5. [r EXCEPT !.since = more, !.shown = shown]
          = [at |-> a, inbox |-> b, shown |-> shown, before |-> d, since |-> more, blanked |-> g]
  <2>1. PICK v : v = [at |-> a, inbox |-> b, shown |-> c, before |-> d, since |-> more, blanked |-> g]
    OBVIOUS
  <2>2. [r EXCEPT !.since = more] = v
    BY <1>2, <2>1
  <2>3. [v EXCEPT !.shown = shown] = [at |-> a, inbox |-> b, shown |-> shown, before |-> d, since |-> more, blanked |-> g]
    BY <2>1
  <2> QED
    BY <2>2, <2>3
<1>6. /\ r.at = a /\ r.inbox = b /\ r.shown = c /\ r.before = d /\ r.since = e /\ r.blanked = g
  BY <1>2
<1>7. CASE ~There
  BY <1>1, <1>3, <1>6, <1>7
<1>8. CASE There /\ done
  BY <1>1, <1>4, <1>6, <1>8 DEF more, shown, all
<1>9. CASE There /\ ~done
  BY <1>1, <1>5, <1>6, <1>9 DEF more, shown
<1> QED
  BY <1>7, <1>8, <1>9

-----------------------------------------------------------------------------
(***************************************************************************)
(* What a reader has                                                       *)
(***************************************************************************)
\* What has been sent by the only attempt, if there has been one.
Sent == IF Current = 0 THEN <<>> ELSE SubSeq(attempts[1].text, 1, attempts[1].sent)

\* The text of the task is what was sent, or has been dropped at its end.
TextSent ==
    \/ progress = Sent
    \/ progress = <<>> /\ Current = 1 /\ attempts[1].sent = Len(attempts[1].text)

\* A reader has a beginning of what was sent, and knows how much of it.
Follows ==
    Current <= 1 /\ ~reader.blanked /\ There /\ AsSent =>
        /\ TextSent
        /\ IsPrefix(reader.before, Sent) /\ IsPrefix(reader.since, Sent)
        /\ Reading => reader.shown = Len(reader.since)
        /\ reader.at = "done" /\ task.status = "succeeded" => reader.since = Sent

ReaderInv == SocketInv /\ TableInv /\ ReaderTypes /\ EndTold /\ Follows

LEMMA PrefixChain ==
    ASSUME NEW S, NEW s \in Seq(S), NEW t \in Seq(S), NEW u \in Seq(S), IsPrefix(s, t), IsPrefix(t, u)
    PROVE  IsPrefix(s, u)
<1>1. PICK l \in Nat, m \in Nat, n \in Nat : l = Len(s) /\ m = Len(t) /\ n = Len(u)
  OBVIOUS
<1>2. l <= m /\ \A i \in 1..l : s[i] = t[i]
  BY <1>1, PrefixIs
<1>3. m <= n /\ \A i \in 1..m : t[i] = u[i]
  BY <1>1, PrefixIs
<1>4. l <= n /\ \A i \in 1..l : s[i] = u[i]
  BY <1>2, <1>3
<1> QED
  BY <1>1, <1>4, PrefixIs

LEMMA PrefixOfItself == ASSUME NEW S, NEW s \in Seq(S) PROVE IsPrefix(s, s) /\ IsPrefix(<<>>, s)
<1>1. <<>> \in Seq(S) /\ Len(<<>>) = 0 /\ Len(s) \in Nat
  OBVIOUS
<1>2. IsPrefix(s, s) <=> Len(s) <= Len(s) /\ \A i \in 1..Len(s) : s[i] = s[i]
  BY PrefixIs
<1>3. PICK e \in Seq(S) : e = <<>> /\ Len(e) = 0
  BY <1>1
<1>4. IsPrefix(e, s) <=> Len(e) <= Len(s) /\ \A i \in 1..Len(e) : e[i] = s[i]
  BY PrefixIs
<1>5. IsPrefix(e, s)
  BY <1>1, <1>3, <1>4
<1> QED
  BY <1>1, <1>2, <1>3, <1>5

\* Yielding what is beyond a beginning, of all the text or of none.
LEMMA YieldFacts ==
    ASSUME NEW S, NEW s \in Seq(S), NEW u \in Seq(S), IsPrefix(s, u), NEW p, p = u \/ p = <<>>
    PROVE  LET t == s \o Beyond(p, Len(s))
           IN  /\ t \in Seq(S) /\ IsPrefix(t, u) /\ (p = u => t = u)
               /\ Len(t) = IF Len(p) > Len(s) THEN Len(p) ELSE Len(s)
<1>1. PICK m \in Nat, n \in Nat : m = Len(s) /\ n = Len(u)
  OBVIOUS
<1>2. m <= n
  BY <1>1, PrefixIs
<1>3. CASE p = u
  <2>1. s \o Beyond(p, Len(s)) = u
    BY <1>3, BeyondFacts
  <2>2. n = IF n > m THEN n ELSE m
    BY <1>2
  <2> QED
    BY <1>1, <1>3, <2>1, <2>2, PrefixOfItself
<1>4. CASE p # u
  <2>1. p = <<>> /\ s \o Beyond(<<>>, m) = s
    BY <1>4, BeyondNothing
  <2>2. Len(<<>>) = 0
    OBVIOUS
  <2>3. m = IF Len(p) > m THEN Len(p) ELSE m
    BY <2>1, <2>2
  <2> QED
    BY <1>1, <1>4, <2>1, <2>3
<1> QED
  BY <1>3, <1>4

LEMMA SentFacts ==
    ASSUME TableInv, Current <= 1
    PROVE  /\ Sent \in Seq(Chars)
           /\ task.status = "succeeded" /\ AsSent => task.output = Sent
           /\ task.status # "succeeded" => task.output = <<>>
           /\ Current = 1 => /\ IsPrefix(Sent, attempts[1].text)
                             /\ attempts[1].sent = Len(attempts[1].text) => Sent = attempts[1].text
<1>1. Current \in Nat
  BY DEF Current, TableInv, TableTypes
<1>2. CASE Current = 0
  <2>1. <<>> \in Seq(Chars)
    OBVIOUS
  <2> QED
    BY <1>2, <2>1 DEF Sent, TableInv, OutputTrue, Attempted
<1>3. CASE Current = 1
  <2>0. attempts[1].text \in Seq(Chars) /\ attempts[1].sent \in 0..Len(attempts[1].text)
    BY <1>3, AttemptFacts DEF Current, TableInv
  <2>1. PICK t \in Seq(Chars), n \in Nat : t = attempts[1].text /\ n = attempts[1].sent /\ n \in 0..Len(t)
    BY <2>0
  <2>2. PICK u \in Seq(Chars) : u = SubSeq(t, 1, n) /\ Len(u) = n /\ \A i \in 1..n : u[i] = t[i]
    <3>1. n \in 0..Len(t)
      BY <2>1
    <3>2. /\ SubSeq(t, 1, n) \in Seq(Chars) /\ Len(SubSeq(t, 1, n)) = n
          /\ \A i \in 1..n : SubSeq(t, 1, n)[i] = t[i]
      BY <3>1, PrefixFacts
    <3> QED
      BY <3>2
  <2>3. PICK m \in Nat : m = Len(t) /\ n <= m
    BY <2>1
  <2>4. IsPrefix(u, t)
    <3>1. IsPrefix(u, t) <=> Len(u) <= Len(t) /\ \A i \in 1..Len(u) : u[i] = t[i]
      BY PrefixIs
    <3> QED
      BY <2>2, <2>3, <3>1
  <2>5. n = m => u = t
    BY <2>2, <2>3
  <2>6. Sent = u
    BY <1>3, <2>1, <2>2 DEF Sent
  <2> QED
    BY <1>3, <2>1, <2>3, <2>4, <2>5, <2>6 DEF TableInv, OutputTrue, AsSent
<1> QED
  BY <1>1, <1>2, <1>3

-----------------------------------------------------------------------------
(***************************************************************************)
(* A GET                                                                   *)
(***************************************************************************)
LEMMA BeyondTypes ==
    ASSUME NEW S, NEW t \in Seq(S), NEW n \in Nat
    PROVE  Beyond(t, n) \in Seq(S)
BY DEF Beyond

LEMMA FetchTypes ==
    ASSUME TableTypes, NEW r \in Readers, NEW partial \in Seq(Chars), NEW done \in BOOLEAN
    PROVE  Fetch(r, partial, done) \in Readers
<1> DEFINE f == Fetch(r, partial, done)
           more == r.since \o Beyond(partial, r.shown)
           shown == IF Len(partial) > r.shown THEN Len(partial) ELSE r.shown
<1>1. /\ r.at \in Places /\ r.inbox \in Seq(Announced) /\ r.shown \in Nat
      /\ r.before \in Seq(Chars) /\ r.since \in Seq(Chars) /\ r.blanked \in BOOLEAN
      /\ r = [at |-> r.at, inbox |-> r.inbox, shown |-> r.shown,
              before |-> r.before, since |-> r.since, blanked |-> r.blanked]
  BY DEF Readers
<1>2. /\ f.inbox = r.inbox /\ f.before = r.before /\ f.blanked = r.blanked
      /\ ~There => f.at = "raised" /\ f.since = r.since /\ f.shown = r.shown
      /\ There /\ done => f.at = "done" /\ f.since = more \o Beyond(task.output, shown) /\ f.shown = r.shown
      /\ There /\ ~done => f.at = r.at /\ f.since = more /\ f.shown = shown
      /\ f = [at |-> f.at, inbox |-> f.inbox, shown |-> f.shown,
              before |-> f.before, since |-> f.since, blanked |-> f.blanked]
  BY <1>1, FetchFacts
<1>3. Len(partial) \in Nat /\ shown \in Nat
  BY <1>1
<1>4. more \in Seq(Chars)
  <2>1. Beyond(partial, r.shown) \in Seq(Chars)
    BY <1>1, BeyondTypes
  <2> QED
    BY <1>1, <2>1
<1>5. more \o Beyond(task.output, shown) \in Seq(Chars)
  <2>1. task.output \in Seq(Chars)
    BY DEF TableTypes
  <2> HIDE DEF shown, more
  <2>2. Beyond(task.output, shown) \in Seq(Chars)
    BY <1>3, <2>1, BeyondTypes
  <2> QED
    BY <1>4, <2>2
<1> HIDE DEF f, more, shown
<1>6. f.at \in Places /\ f.since \in Seq(Chars) /\ f.shown \in Nat
  BY <1>1, <1>2, <1>3, <1>4, <1>5 DEF Places
<1> QED
  BY <1>1, <1>2, <1>6 DEF Readers, f

\* A GET lets a reader that has a beginning of what was sent yield the rest.
LEMMA FetchFollows ==
    ASSUME TableInv, Current <= 1, There, AsSent, NEW r \in Readers,
           IsPrefix(r.since, Sent), r.shown = Len(r.since),
           NEW partial, partial = Sent \/ partial = <<>>, NEW done \in BOOLEAN
    PROVE  LET f == Fetch(r, partial, done)
           IN  /\ IsPrefix(f.since, Sent)
               /\ ~done => f.shown = Len(f.since)
               /\ done /\ task.status = "succeeded" => f.since = Sent
<1> DEFINE f == Fetch(r, partial, done)
           more == r.since \o Beyond(partial, r.shown)
           shown == IF Len(partial) > r.shown THEN Len(partial) ELSE r.shown
           all == more \o Beyond(task.output, shown)
<1>1. /\ r.since \in Seq(Chars)
      /\ r = [at |-> r.at, inbox |-> r.inbox, shown |-> r.shown,
              before |-> r.before, since |-> r.since, blanked |-> r.blanked]
  BY DEF Readers
<1>2. /\ done => f.since = all
      /\ ~done => f.since = more /\ f.shown = shown
  <2>1. /\ f.inbox = r.inbox /\ f.before = r.before /\ f.blanked = r.blanked
        /\ ~There => f.at = "raised" /\ f.since = r.since /\ f.shown = r.shown
        /\ There /\ done => f.at = "done" /\ f.since = more \o Beyond(task.output, shown) /\ f.shown = r.shown
        /\ There /\ ~done => f.at = r.at /\ f.since = more /\ f.shown = shown
        /\ f = [at |-> f.at, inbox |-> f.inbox, shown |-> f.shown,
                before |-> f.before, since |-> f.since, blanked |-> f.blanked]
    BY <1>1, FetchFacts
  <2> QED
    BY <2>1
<1>3. Sent \in Seq(Chars) /\ (task.status = "succeeded" => task.output = Sent)
      /\ (task.output = Sent \/ task.output = <<>>)
  BY SentFacts
<1>4. more \in Seq(Chars) /\ IsPrefix(more, Sent) /\ Len(more) = shown
  BY <1>1, <1>3, YieldFacts
<1> HIDE DEF more, shown
<1>5. all \in Seq(Chars) /\ IsPrefix(all, Sent) /\ (task.output = Sent => all = Sent)
  BY <1>3, <1>4, YieldFacts
<1> HIDE DEF all, f
<1>6. IsPrefix(f.since, Sent) /\ (~done => f.shown = Len(f.since))
  BY <1>2, <1>4, <1>5
<1>7. done /\ task.status = "succeeded" => f.since = Sent
  BY <1>2, <1>3, <1>5
<1> QED
  BY <1>6, <1>7 DEF f

-----------------------------------------------------------------------------
(***************************************************************************)
(* The end is not told before it is one                                    *)
(***************************************************************************)
\* A websocket that has nothing to say of the end.
Silent(s) == ~HasEnd(s.queue) /\ s.phase # "replay"

LEMMA NewSocketSilent == Silent(Told) /\ Silent(Gone) /\ Silent(NewSocket)
<1>1. Told = [phase |-> "told", queue |-> <<>>, late |-> -1]
  BY DEF Told, NewSocket
<1>2. Gone = [phase |-> "left", queue |-> <<>>, late |-> -1]
  BY DEF Gone, NewSocket
<1>3. ~HasEnd(<<>>)
  BY DEF HasEnd
<1> QED
  BY <1>1, <1>2, <1>3 DEF Silent, NewSocket

LEMMA PublishSilent ==
    ASSUME SocketInv, Silent(socket[Socket]), Publish("progress")
    PROVE  Silent(socket'[Socket])
<1> DEFINE s == socket[Socket]
<1>1. Socket \in Watchers /\ SocketOK(s)
  BY ReaderAssumption DEF ReaderAssumption, SocketInv
<1>2. CASE s.phase # "subscribed"
  BY <1>1, <1>2 DEF Publish
<1>3. CASE s.phase = "subscribed"
  <2>1. PICK q \in Seq(Announced), n \in Int : s = [phase |-> "subscribed", queue |-> q, late |-> n]
    BY <1>1, <1>3 DEF SocketOK
  <2>2. PICK m : socket'[Socket] = [s EXCEPT !.queue = Put(s.queue, "progress"), !.late = m]
    BY <1>1, <1>3 DEF Publish
  <2>3. socket'[Socket].queue = Put(q, "progress") /\ socket'[Socket].phase = "subscribed"
    <3>1. s.queue = q
      BY <2>1
    <3>2. PICK v : v = [phase |-> "subscribed", queue |-> Put(q, "progress"), late |-> n]
      OBVIOUS
    <3>3. [s EXCEPT !.queue = Put(s.queue, "progress")] = v
      BY <2>1, <3>1, <3>2
    <3> QED
      BY <2>2, <3>2, <3>3
  <2>4. ~HasEnd(q)
    BY <2>1 DEF Silent
  <2>5. ~HasEnd(Put(q, "progress"))
    BY <2>4, PutElements DEF Announced
  <2> QED
    BY <2>3, <2>5 DEF Silent
<1> QED
  BY <1>2, <1>3

LEMMA TailSilent ==
    ASSUME NEW q \in Seq(Announced), q # <<>>, HasEnd(Tail(q))
    PROVE  HasEnd(q)
<1>1. PICK n \in Nat : n = Len(q)
  OBVIOUS
<1>2. PICK t \in Seq(Announced) : t = Tail(q) /\ Len(t) = n - 1 /\ \A j \in 1..(n - 1) : t[j] = q[j + 1]
  BY <1>1, TailFacts
<1>3. PICK i \in 1..(n - 1) : t[i] = "finished"
  BY <1>2 DEF HasEnd
<1>4. i + 1 \in 1..n /\ q[i + 1] = "finished"
  BY <1>2, <1>3
<1> QED
  BY <1>1, <1>4 DEF HasEnd

LEMMA ForwardSilent ==
    ASSUME SocketInv, Silent(socket[Socket]), NEW w \in Watchers, Forward(w)
    PROVE  Silent(socket'[Socket])
<1> DEFINE s == socket[w]
<1>1. Socket \in Watchers /\ SocketOK(s) /\ socket = [x \in Watchers |-> socket[x]]
  BY ReaderAssumption DEF ReaderAssumption, SocketInv
<1>2. CASE w # Socket
  BY <1>1, <1>2 DEF Forward
<1>3. CASE w = Socket /\ socket' = [socket EXCEPT ![w] = Told]
  BY <1>1, <1>3, NewSocketSilent
<1>4. CASE /\ w = Socket /\ s.phase = "subscribed" /\ s.queue # <<>>
           /\ socket' = [socket EXCEPT ![w] = [s EXCEPT !.queue = Tail(s.queue)]]
  <2>1. PICK q \in Seq(Announced), n \in Int : s = [phase |-> "subscribed", queue |-> q, late |-> n]
    BY <1>1, <1>4 DEF SocketOK
  <2>2. socket'[Socket] = [s EXCEPT !.queue = Tail(q)] /\ q # <<>>
    <3>1. s.queue = q
      BY <2>1
    <3> QED
      BY <1>1, <1>4, <3>1
  <2>3. socket'[Socket].queue = Tail(q) /\ socket'[Socket].phase = "subscribed"
    BY <2>1, <2>2
  <2>4. ~HasEnd(Tail(q))
    BY <1>4, <2>1, <2>2, TailSilent DEF Silent
  <2> QED
    BY <2>3, <2>4 DEF Silent
<1> QED
  BY <1>2, <1>3, <1>4 DEF Forward, Told

LEMMA StaysSilent ==
    ASSUME SocketInv, TableTypes, Silent(socket[Socket]), [ReaderNext]_readerVars, ~Finished'
    PROVE  Silent(socket'[Socket])
<1>1. Socket \in Watchers /\ socket = [x \in Watchers |-> socket[x]]
  BY ReaderAssumption DEF ReaderAssumption, SocketInv
<1>2. CASE UNCHANGED socket
  BY <1>2
<1>3. ASSUME NEW work, Assign(work) PROVE Silent(socket'[Socket])
  BY <1>2, <1>3 DEF Assign
<1>4. ASSUME NEW a, NEW n, Progress(a, n) PROVE Silent(socket'[Socket])
  BY <1>4, PublishSilent DEF Progress
<1>5. CASE Succeed \/ Fail \/ Cancel
  <2>1. UNCHANGED socket
    BY <1>5 DEF Succeed, Fail, Cancel, Finished, TableTypes
  <2> QED
    BY <2>1
<1>6. CASE Lose \/ Delete \/ Poll \/ UNCHANGED vars
  BY <1>2, <1>6 DEF Lose, Delete, Poll, vars
<1>7. ASSUME NEW w \in Watchers, Connect(w) \/ Accepted(w) PROVE Silent(socket'[Socket])
  <2>1. PICK p : socket' = [socket EXCEPT ![w] = [socket[w] EXCEPT !.phase = p]] /\ p # "replay"
    <3>1. ~Ended
      <4>1. task' = task
        BY <1>7 DEF Connect, Accepted
      <4> QED
        BY <4>1 DEF Finished, Ended
    <3>2. CASE Connect(w)
      <4> DEFINE p == IF ~There THEN "left" ELSE IF Ended THEN "replay" ELSE "accepting"
      <4>1. socket' = [socket EXCEPT ![w] = [socket[w] EXCEPT !.phase = p]] /\ p # "replay"
        BY <3>1, <3>2 DEF Connect
      <4> HIDE DEF p
      <4> QED
        BY <4>1
    <3>3. CASE Accepted(w)
      <4>1. PICK p : p = "subscribed" /\ p # "replay"
        OBVIOUS
      <4>2. socket' = [socket EXCEPT ![w] = [socket[w] EXCEPT !.phase = p]]
        BY <3>3, <4>1 DEF Accepted
      <4> QED
        BY <4>1, <4>2
    <3> QED
      BY <1>7, <3>2, <3>3
  <2>2. CASE w # Socket
    BY <1>1, <2>1, <2>2
  <2>3. CASE w = Socket
    <3>1. PICK q, n, o : socket[Socket] = [phase |-> o, queue |-> q, late |-> n]
      BY <1>1 DEF SocketInv, SocketOK
    <3>2. socket'[Socket] = [phase |-> p, queue |-> q, late |-> n]
      BY <1>1, <2>1, <2>3, <3>1
    <3> QED
      BY <2>1, <3>1, <3>2 DEF Silent
  <2> QED
    BY <2>2, <2>3
<1>8. ASSUME NEW w \in Watchers, Leave(w) PROVE Silent(socket'[Socket])
  <2>1. socket' = [socket EXCEPT ![w] = Gone]
    BY <1>8 DEF Leave, Gone
  <2> QED
    BY <1>1, <2>1, NewSocketSilent
<1>9. CASE Restart
  <2>1. socket' = [w \in Watchers |-> IF socket[w].phase = "new" THEN socket[w] ELSE Gone]
    BY <1>9 DEF Restart, Gone
  <2> QED
    BY <1>1, <2>1, NewSocketSilent
<1>10. CASE GiveUp
  <2>1. socket' = [socket EXCEPT ![Socket] = Gone]
    BY <1>10 DEF GiveUp, Gone
  <2> QED
    BY <1>1, <2>1, NewSocketSilent
<1> QED
  BY <1>3, <1>4, <1>5, <1>6, <1>7, <1>8, <1>9, <1>10, ServerSteps, ForwardSilent DEF Next

LEMMA DeliveredFacts ==
    ASSUME SocketInv, ReaderTypes, Delivered
    PROVE  /\ \E e \in Announced :
                 /\ reader' = [reader EXCEPT !.inbox = Append(reader.inbox, e)]
                 /\ Silent(socket[Socket]) => e # "finished"
           /\ UNCHANGED <<task, attempts, progress>>
<1> DEFINE s == socket[Socket]
<1>1. SocketOK(s)
  BY ReaderAssumption DEF ReaderAssumption, SocketInv
<1>2. CASE s.phase = "replay"
  <2>1. reader' = [reader EXCEPT !.inbox = Append(reader.inbox, "finished")]
    BY <1>2 DEF Delivered
  <2> QED
    BY <1>2, <2>1 DEF Delivered, Forward, Announced, Silent
<1>3. CASE s.phase # "replay"
  <2>1. PICK q \in Seq(Announced) : q = s.queue /\ q # <<>>
    BY <1>1, <1>3 DEF Delivered, Forward, SocketOK
  <2>2. Head(q) \in Announced /\ Head(q) = q[1] /\ Len(q) \in Nat \ {0}
    BY <2>1, TailFacts
  <2>3. reader' = [reader EXCEPT !.inbox = Append(reader.inbox, Head(q))]
    BY <1>3, <2>1 DEF Delivered
  <2>4. 1 \in 1..Len(q)
    BY <2>2
  <2>5. Silent(s) => Head(q) # "finished"
    BY <2>1, <2>2, <2>4 DEF Silent, HasEnd
  <2> HIDE DEF s
  <2>6. UNCHANGED <<task, attempts, progress>>
    BY DEF Delivered, Forward
  <2> QED
    BY <2>2, <2>3, <2>5, <2>6 DEF s
<1> QED
  BY <1>2, <1>3

\* The inbox without its first event.
LEMMA InboxTail ==
    ASSUME NEW r \in Readers, r.inbox # <<>>
    PROVE  /\ [r EXCEPT !.inbox = Tail(@)] \in Readers
           /\ [r EXCEPT !.inbox = Tail(@)].inbox = Tail(r.inbox)
           /\ [r EXCEPT !.inbox = Tail(@)].since = r.since
           /\ [r EXCEPT !.inbox = Tail(@)].before = r.before
           /\ [r EXCEPT !.inbox = Tail(@)].shown = r.shown
           /\ [r EXCEPT !.inbox = Tail(@)].at = r.at
           /\ [r EXCEPT !.inbox = Tail(@)].blanked = r.blanked
<1>1. PICK t \in Seq(Announced) : t = Tail(r.inbox)
  BY TailFacts DEF Readers
<1>2. [r EXCEPT !.inbox = Tail(@)] = [r EXCEPT !.inbox = t]
  BY <1>1
<1>3. PICK v : v = [r EXCEPT !.inbox = t]
  OBVIOUS
<1>4. /\ v \in Readers /\ v.inbox = t /\ v.since = r.since /\ v.before = r.before
      /\ v.shown = r.shown /\ v.at = r.at /\ v.blanked = r.blanked
  BY <1>3 DEF Readers
<1> QED
  BY <1>1, <1>2, <1>3, <1>4

\* A GET is the step of a reader that yields, with what is left of its inbox.
LEMMA FetchSteps ==
    ASSUME ReaderTypes, TableTypes, Receive \/ Look \/ TooLate
    PROVE  /\ UNCHANGED vars
           /\ \E r \in Readers, partial \in {progress, <<>>}, done \in BOOLEAN :
                 /\ r.since = reader.since /\ r.before = reader.before /\ r.shown = reader.shown
                 /\ r.at = reader.at /\ r.blanked = reader.blanked
                 /\ r.inbox = reader.inbox \/ (reader.inbox # <<>> /\ r.inbox = Tail(reader.inbox))
                 /\ done => Ended \/ HasEnd(reader.inbox)
                 /\ \/ reader' = Fetch(r, partial, done)
                    \/ ~done /\ reader' = [Fetch(r, partial, done) EXCEPT !.at = "raised"]
           /\ Reading
<1>1. CASE Receive
  <2> DEFINE r == [reader EXCEPT !.inbox = Tail(@)]
             finished == Head(reader.inbox) = "finished"
  <2>1. reader \in Readers /\ reader.inbox # <<>>
    BY <1>1 DEF Receive, ReaderTypes
  <2>2. /\ r \in Readers /\ r.inbox = Tail(reader.inbox) /\ r.since = reader.since
        /\ r.before = reader.before /\ r.shown = reader.shown /\ r.at = reader.at /\ r.blanked = reader.blanked
    BY <2>1, InboxTail
  <2>3. reader' = Fetch(r, IF finished THEN <<>> ELSE progress, finished)
    BY <1>1 DEF Receive
  <2>4. finished => HasEnd(reader.inbox)
    <3>1. reader.inbox \in Seq(Announced)
      BY <2>1 DEF Readers
    <3>2. Head(reader.inbox) = reader.inbox[1] /\ Len(reader.inbox) \in Nat \ {0}
      BY <2>1, <3>1, TailFacts
    <3>3. 1 \in 1..Len(reader.inbox)
      BY <3>2
    <3> QED
      BY <3>2, <3>3 DEF HasEnd
  <2> HIDE DEF r
  <2>5. finished \in BOOLEAN /\ (IF finished THEN <<>> ELSE progress) \in {progress, <<>>}
    OBVIOUS
  <2> HIDE DEF finished
  <2>6. UNCHANGED vars /\ Reading
    BY <1>1 DEF Receive, Reading
  <2> QED
    BY <2>1, <2>2, <2>3, <2>4, <2>5, <2>6
<1>2. CASE Look
  <2>1. UNCHANGED vars /\ Reading /\ reader \in Readers
    BY <1>2 DEF Look, Reading, ReaderTypes
  <2>2. reader' = Fetch(reader, progress, Ended) /\ Ended \in BOOLEAN
    BY <1>2 DEF Look, Ended
  <2> QED
    BY <2>1, <2>2
<1>3. CASE TooLate
  <2>1. UNCHANGED vars /\ Reading /\ reader \in Readers
    BY <1>3 DEF TooLate, Reading, ReaderTypes
  <2>2. reader' = [Fetch(reader, progress, FALSE) EXCEPT !.at = "raised"]
    BY <1>3 DEF TooLate
  <2> QED
    BY <2>1, <2>2
<1> QED
  BY <1>1, <1>2, <1>3

LEMMA RaisedFacts ==
    ASSUME NEW f \in Readers
    PROVE  LET g == [f EXCEPT !.at = "raised"]
           IN  /\ g \in Readers /\ g.at = "raised" /\ g.inbox = f.inbox /\ g.shown = f.shown
               /\ g.before = f.before /\ g.since = f.since /\ g.blanked = f.blanked
BY DEF Readers, Places

LEMMA GiveUpFacts ==
    ASSUME ReaderTypes, GiveUp
    PROVE  /\ reader' \in Readers /\ reader'.at = "polling" /\ reader'.inbox = <<>> /\ reader'.shown = 0
           /\ reader'.before = reader.since /\ reader'.since = <<>> /\ reader'.blanked = reader.blanked
           /\ UNCHANGED <<task, attempts, progress>>
<1>1. PICK a, b, c, d, e, g : reader = [at |-> a, inbox |-> b, shown |-> c, before |-> d, since |-> e, blanked |-> g]
  BY DEF ReaderTypes, Readers
<1>2. PICK r : r = [at |-> "polling", inbox |-> <<>>, shown |-> 0, before |-> e, since |-> <<>>, blanked |-> g]
  OBVIOUS
<1>3. reader' = r
  <2>1. reader' = [reader EXCEPT !.at = "polling", !.inbox = <<>>, !.shown = 0,
                                 !.before = reader.since, !.since = <<>>]
    BY DEF GiveUp
  <2>2. reader.since = e
    BY <1>1
  <2>3. PICK r1 : r1 = [at |-> "polling", inbox |-> b, shown |-> c, before |-> d, since |-> e, blanked |-> g]
    OBVIOUS
  <2>4. PICK r2 : r2 = [at |-> "polling", inbox |-> <<>>, shown |-> c, before |-> d, since |-> e, blanked |-> g]
    OBVIOUS
  <2>5. PICK r3 : r3 = [at |-> "polling", inbox |-> <<>>, shown |-> 0, before |-> d, since |-> e, blanked |-> g]
    OBVIOUS
  <2>6. PICK r4 : r4 = [at |-> "polling", inbox |-> <<>>, shown |-> 0, before |-> e, since |-> e, blanked |-> g]
    OBVIOUS
  <2>7. [reader EXCEPT !.at = "polling"] = r1
    BY <1>1, <2>3
  <2>8. [r1 EXCEPT !.inbox = <<>>] = r2
    BY <2>3, <2>4
  <2>9. [r2 EXCEPT !.shown = 0] = r3
    BY <2>4, <2>5
  <2>10. [r3 EXCEPT !.before = e] = r4
    BY <2>5, <2>6
  <2>11. [r4 EXCEPT !.since = <<>>] = r
    BY <1>2, <2>6
  <2> QED
    BY <2>1, <2>2, <2>7, <2>8, <2>9, <2>10, <2>11
<1>4. /\ r.at = "polling" /\ r.inbox = <<>> /\ r.shown = 0
      /\ r.before = e /\ r.since = <<>> /\ r.blanked = g
  BY <1>2
<1>5. e \in Seq(Chars) /\ g \in BOOLEAN /\ reader.since = e /\ reader.blanked = g
  BY <1>1 DEF ReaderTypes, Readers
<1>6. <<>> \in Seq(Chars) /\ <<>> \in Seq(Announced) /\ "polling" \in Places
  BY DEF Places
<1>7. r \in Readers
  BY <1>2, <1>5, <1>6 DEF Readers
<1> QED
  BY <1>3, <1>4, <1>5, <1>7 DEF GiveUp

\* Of the reader and what it is told of the end.
LEMMA ToldStep ==
    ASSUME ReaderInv, [ReaderNext]_readerVars
    PROVE  ReaderTypes' /\ EndTold'
<1> USE DEF ReaderInv
<1>1. TableTypes /\ reader \in Readers /\ (Finished => Finished')
  BY FinishedStays DEF TableInv, ReaderTypes
<1>2. ~Finished => Silent(socket[Socket]) /\ ~HasEnd(reader.inbox) /\ reader.at # "done"
  BY DEF EndTold, Silent
<1>3. ~Finished' => Silent(socket'[Socket])
  BY <1>1, <1>2, StaysSilent
<1>4. SUFFICES ReaderTypes' /\ (~Finished' => ~HasEnd(reader'.inbox) /\ reader'.at # "done")
  BY <1>3 DEF EndTold, Silent
<1>5. CASE Delivered
  <2>1. PICK e \in Announced : /\ reader' = [reader EXCEPT !.inbox = Append(reader.inbox, e)]
                               /\ Silent(socket[Socket]) => e # "finished"
    BY <1>5, DeliveredFacts
  <2>2. PICK q \in Seq(Announced) : q = reader.inbox
    BY <1>1 DEF Readers
  <2>3. /\ Append(q, e) \in Seq(Announced) /\ Len(Append(q, e)) = Len(q) + 1 /\ Len(q) \in Nat
        /\ Append(q, e)[Len(q) + 1] = e /\ \A i \in 1..Len(q) : Append(q, e)[i] = q[i]
    BY AppendFacts
  <2>4. HasEnd(Append(q, e)) => HasEnd(q) \/ e = "finished"
    BY <2>3 DEF HasEnd
  <2>5. PICK u \in Seq(Announced) : u = Append(q, e)
    BY <2>3
  <2>6. reader' = [reader EXCEPT !.inbox = u]
    BY <2>1, <2>2, <2>5
  <2>7. reader' \in Readers /\ reader'.inbox = u /\ reader'.at = reader.at
    BY <1>1, <2>6 DEF Readers
  <2> QED
    BY <1>1, <1>2, <2>1, <2>2, <2>4, <2>5, <2>7 DEF ReaderTypes
<1>6. CASE Blanked
  <2>1. reader' \in Readers /\ reader'.inbox = reader.inbox /\ reader'.at = reader.at
    BY <1>1, <1>6 DEF Blanked, Readers
  <2> QED
    BY <1>1, <1>2, <2>1 DEF ReaderTypes
<1>7. CASE UNCHANGED reader
  BY <1>1, <1>2, <1>7 DEF ReaderTypes
<1>8. CASE Answered
  <2>1. reader' \in Readers /\ reader'.inbox = reader.inbox /\ reader'.at = "listening"
    BY <1>1, <1>8 DEF Answered, Readers, Places
  <2> QED
    BY <1>1, <1>2, <2>1 DEF ReaderTypes
<1>9. CASE Receive \/ Look \/ TooLate
  <2>1. UNCHANGED vars
    BY <1>1, <1>9, FetchSteps DEF ReaderTypes
  <2>2. PICK r \in Readers, partial \in {progress, <<>>}, done \in BOOLEAN :
            /\ r.since = reader.since /\ r.before = reader.before /\ r.shown = reader.shown
            /\ r.at = reader.at /\ r.blanked = reader.blanked
            /\ r.inbox = reader.inbox \/ (reader.inbox # <<>> /\ r.inbox = Tail(reader.inbox))
            /\ done => Ended \/ HasEnd(reader.inbox)
            /\ \/ reader' = Fetch(r, partial, done)
               \/ ~done /\ reader' = [Fetch(r, partial, done) EXCEPT !.at = "raised"]
    BY <1>1, <1>9, FetchSteps DEF ReaderTypes
  <2>3. partial \in Seq(Chars)
    <3>1. progress \in Seq(Chars) /\ <<>> \in Seq(Chars)
      BY <1>1 DEF TableTypes
    <3> QED
      BY <2>2, <3>1
  <2>4. PICK f \in Readers : f = Fetch(r, partial, done)
    BY <1>1, <2>3, FetchTypes
  <2>5. f.inbox = r.inbox /\ (f.at = "done" => done \/ r.at = "done")
    <3>1. r = [at |-> r.at, inbox |-> r.inbox, shown |-> r.shown,
               before |-> r.before, since |-> r.since, blanked |-> r.blanked]
      BY DEF Readers
    <3>2. /\ f.inbox = r.inbox /\ (~There => f.at = "raised") /\ (There /\ ~done => f.at = r.at)
      BY <2>4, <3>1, FetchFacts
    <3> QED
      BY <3>2
  <2>6. reader' \in Readers /\ reader'.inbox = r.inbox /\ (reader'.at = "done" => done \/ r.at = "done")
    <3>1. CASE reader' = f
      BY <2>5, <3>1
    <3>2. CASE reader' = [f EXCEPT !.at = "raised"]
      BY <2>5, <3>2, RaisedFacts
    <3> QED
      BY <2>2, <2>4, <3>1, <3>2
  <2>7. HasEnd(r.inbox) => HasEnd(reader.inbox)
    <3>1. reader.inbox \in Seq(Announced)
      BY <1>1 DEF Readers
    <3> QED
      BY <2>2, <3>1, TailSilent
  <2>8. Ended => Finished
    BY DEF Ended, Finished
  <2> QED
    BY <1>1, <1>2, <2>2, <2>6, <2>7, <2>8 DEF ReaderTypes
<1>10. CASE GiveUp
  <2>1. reader' \in Readers /\ reader'.at = "polling" /\ reader'.inbox = <<>>
    BY <1>1, <1>10, GiveUpFacts DEF ReaderTypes
  <2>2. ~HasEnd(<<>>)
    BY DEF HasEnd
  <2> QED
    BY <2>1, <2>2 DEF ReaderTypes
<1> QED
  BY <1>5, <1>6, <1>7, <1>8, <1>9, <1>10 DEF ReaderNext, Served, readerVars

-----------------------------------------------------------------------------
(***************************************************************************)
(* What was sent                                                           *)
(***************************************************************************)
\* A beginning of a text, and one that is longer.
LEMMA LongerPrefix ==
    ASSUME NEW S, NEW t \in Seq(S), NEW k \in Nat, NEW n \in Nat, k <= n, n <= Len(t)
    PROVE  /\ IsPrefix(SubSeq(t, 1, k), SubSeq(t, 1, n))
           /\ SubSeq(t, 1, k) \o SubSeq(t, k + 1, n) = SubSeq(t, 1, n)
<1>1. PICK m \in Nat : m = Len(t) /\ n <= m
  OBVIOUS
<1>2. PICK u \in Seq(S) : u = SubSeq(t, 1, k) /\ Len(u) = k /\ \A i \in 1..k : u[i] = t[i]
  <2>1. k \in 0..Len(t)
    BY <1>1
  <2>2. /\ SubSeq(t, 1, k) \in Seq(S) /\ Len(SubSeq(t, 1, k)) = k
        /\ \A i \in 1..k : SubSeq(t, 1, k)[i] = t[i]
    BY <2>1, PrefixFacts
  <2> QED
    BY <2>2
<1>3. PICK v \in Seq(S) : v = SubSeq(t, 1, n) /\ Len(v) = n /\ \A i \in 1..n : v[i] = t[i]
  <2>1. n \in 0..Len(t)
    BY <1>1
  <2>2. /\ SubSeq(t, 1, n) \in Seq(S) /\ Len(SubSeq(t, 1, n)) = n
        /\ \A i \in 1..n : SubSeq(t, 1, n)[i] = t[i]
    BY <2>1, PrefixFacts
  <2> QED
    BY <2>2
<1>4. IsPrefix(u, v)
  <2>1. IsPrefix(u, v) <=> Len(u) <= Len(v) /\ \A i \in 1..Len(u) : u[i] = v[i]
    BY PrefixIs
  <2>2. \A i \in 1..k : u[i] = v[i]
    BY <1>2, <1>3
  <2> QED
    BY <1>2, <1>3, <2>1, <2>2
<1>5. PICK x \in Seq(S) : /\ x = SubSeq(t, k + 1, n) /\ Len(x) = n - k
                          /\ \A i \in 1..(n - k) : x[i] = t[k + i]
  <2>1. SubSeq(t, k + 1, n) \in Seq(S) /\ Len(SubSeq(t, k + 1, n)) = n - k
    BY <1>1
  <2>2. \A i \in 1..(n - k) : SubSeq(t, k + 1, n)[i] = t[k + i]
    BY <1>1
  <2> QED
    BY <2>1, <2>2
<1>6. PICK y \in Seq(S) : /\ y = SubSeq(v, k + 1, n) /\ Len(y) = n - k
                          /\ \A i \in 1..(n - k) : y[i] = v[k + i]
  <2>1. SubSeq(v, k + 1, n) \in Seq(S) /\ Len(SubSeq(v, k + 1, n)) = n - k
    BY <1>3
  <2>2. \A i \in 1..(n - k) : SubSeq(v, k + 1, n)[i] = v[k + i]
    BY <1>3
  <2> QED
    BY <2>1, <2>2
<1>7. x = y
  <2>1. \A i \in 1..(n - k) : k + i \in 1..n
    OBVIOUS
  <2>2. \A i \in 1..(n - k) : x[i] = y[i]
    BY <1>3, <1>5, <1>6, <2>1
  <2>3. Len(x) = Len(y) /\ \A i \in 1..Len(x) : x[i] = y[i]
    BY <1>5, <1>6, <2>2
  <2> QED
    BY <2>3
<1>8. u \o x = v
  <2>1. u \o Beyond(v, k) = v
    BY <1>2, <1>4, BeyondFacts
  <2> QED
    BY <1>3, <1>6, <1>7, <2>1 DEF Beyond
<1> QED
  BY <1>2, <1>3, <1>4, <1>5, <1>8

\* What was sent only grows, and not any more when the task has succeeded.
LEMMA SentGrows ==
    ASSUME TableInv, Current <= 1, TextSent, Served, There', Current' <= 1
    PROVE  /\ There /\ TextSent' /\ IsPrefix(Sent, Sent')
           /\ task'.status = "succeeded" => task.status = "running" \/ (task.status = "succeeded" /\ Sent' = Sent)
<1> USE DEF Current
<1>1. Current \in Nat /\ TableTypes
  BY DEF TableInv, TableTypes
<1>0. Current = 0 \/ Current = 1
  BY <1>1
<1>2. Sent \in Seq(Chars) /\ IsPrefix(Sent, Sent) /\ IsPrefix(<<>>, Sent)
  BY SentFacts, PrefixOfItself
<1>3. ASSUME NEW work, work \in Work[Current + 1], Current < MaxAttempts, Assign(work)
      PROVE  Current = 0 /\ Sent' = <<>> /\ Sent = <<>> /\ progress' = <<>> /\ There /\ task.status = "queued"
  <2>1. /\ task.status = "queued" /\ Len(attempts') = Len(attempts) + 1 /\ progress' = progress
        /\ attempts'[Len(attempts) + 1].sent = 0 /\ TableTypes'
    BY <1>1, <1>3, AssignFacts
  <2>2. Current = 0 /\ Len(attempts') = 1
    BY <1>1, <2>1
  <2>3. PICK t : t = attempts'[1].text /\ attempts'[1].sent = 0
    BY <2>1, <2>2
  <2>4. attempts'[1].text \in Seq(Chars)
    <3>1. attempts' \in Seq(Attempt)
      BY <2>1 DEF TableTypes
    <3>2. attempts'[1] \in Attempt
      BY <2>2, <3>1
    <3> QED
      BY <3>2 DEF Attempt
  <2>5. SubSeq(t, 1, 0) = <<>>
    BY <2>3, <2>4
  <2>6. Sent' = <<>>
    BY <2>2, <2>3, <2>5 DEF Sent
  <2>7. progress' = <<>>
    BY <2>1, <2>2 DEF TableInv, Attempted
  <2> QED
    BY <2>1, <2>2, <2>6, <2>7 DEF There, Sent
<1>4. ASSUME NEW a \in DOMAIN attempts,
             NEW n \in (attempts[a].sent + 1)..Len(attempts[a].text), Progress(a, n)
      PROVE  /\ progress' = Sent' /\ IsPrefix(Sent, Sent') /\ task' = task
             /\ task.status # "succeeded"
  <2>1. /\ task' = task
        /\ Len(attempts') = Len(attempts) /\ a \in 1..Len(attempts)
        /\ attempts' = [attempts EXCEPT ![a] = [text |-> attempts[a].text, sent |-> n]]
        /\ progress' = progress \o SubSeq(attempts[a].text, attempts[a].sent + 1, n)
        /\ n \in Nat /\ n > attempts[a].sent /\ n <= Len(attempts[a].text)
    BY <1>1, <1>4, ProgressFacts
  <2>2. Current = 1 /\ a = 1
    BY <1>1, <2>1
  <2>3. attempts[1].text \in Seq(Chars) /\ attempts[1].sent \in 0..Len(attempts[1].text)
    BY <1>1, <2>1, <2>2, AttemptFacts
  <2>4. PICK t \in Seq(Chars), k \in Nat, m \in Nat :
            t = attempts[1].text /\ k = attempts[1].sent /\ m = Len(t) /\ k < n /\ n <= m
    <3>1. n > attempts[1].sent /\ n <= Len(attempts[1].text) /\ attempts[1].sent \in Nat
      BY <2>1, <2>2, <2>3
    <3>2. Len(attempts[1].text) \in Nat
      BY <2>3
    <3> QED
      BY <2>1, <2>3, <3>1, <3>2
  <2>5. attempts'[1] = [text |-> t, sent |-> n] /\ Len(attempts') = 1
    BY <1>1, <2>1, <2>2, <2>4 DEF TableTypes
  <2>6. attempts'[1].text = t /\ attempts'[1].sent = n
    BY <2>5
  <2>7. Sent' = SubSeq(t, 1, n)
    BY <2>5, <2>6 DEF Sent
  <2>8. Sent = SubSeq(t, 1, k) /\ progress = Sent
    BY <2>2, <2>4 DEF Sent, TextSent
  <2>9. k <= n /\ n \in Nat
    BY <2>1, <2>4
  <2>10. /\ IsPrefix(SubSeq(t, 1, k), SubSeq(t, 1, n))
         /\ SubSeq(t, 1, k) \o SubSeq(t, k + 1, n) = SubSeq(t, 1, n)
    BY <2>4, <2>9, LongerPrefix
  <2>11. progress' = Sent'
    BY <2>1, <2>2, <2>4, <2>7, <2>8, <2>10
  <2>14. task.status # "succeeded"
    BY <2>2, <2>3, <2>4 DEF TableInv, OutputTrue
  <2> QED
    BY <2>1, <2>7, <2>8, <2>10, <2>11, <2>14
<1>5. CASE Succeed
  <2>1. UNCHANGED attempts /\ progress' = <<>> /\ task.status = "running" /\ Current > 0
        /\ attempts[Current].sent = Len(attempts[Current].text)
    BY <1>5 DEF Succeed, TableInv, Attempted
  <2>2. Current = 1
    BY <1>0, <2>1
  <2>3. Sent' = Sent /\ TextSent'
    BY <2>1, <2>2 DEF Sent, TextSent
  <2> QED
    BY <1>2, <2>1, <2>3 DEF There
<1>6. CASE Fail
  <2>1. Current = 1 /\ task.status = "running"
    <3>1. task.status = "running" /\ Current > 0
      BY <1>6 DEF Fail, TableInv, Attempted
    <3> QED
      BY <1>0, <3>1
  <2>2. /\ task'.status \in {"queued", "failed"} /\ Len(attempts') = Len(attempts)
        /\ attempts'[Current].sent = attempts[Current].sent
        /\ attempts'[Current].text = SubSeq(attempts[Current].text, 1, attempts[Current].sent)
        /\ Len(attempts'[Current].text) = attempts[Current].sent
        /\ progress' = progress \/ progress' = <<>>
    <3>1. Current > 0
      BY <2>1
    <3> QED
      BY <1>1, <1>6, <3>1, FailFacts
  <2>3. PICK u : u = Sent /\ u = SubSeq(attempts[1].text, 1, attempts[1].sent)
    <3>1. Sent = SubSeq(attempts[1].text, 1, attempts[1].sent)
      BY <2>1 DEF Sent
    <3> QED
      BY <3>1
  <2>4. attempts'[1].sent = Len(u) /\ attempts'[1].text = u /\ Len(attempts') = 1
    BY <2>1, <2>2, <2>3
  <2>7. Sent' = SubSeq(u, 1, Len(u))
    BY <2>4 DEF Sent
  <2>5. Sent' = Sent
    BY <1>2, <2>3, <2>7
  <2>6. TextSent'
    BY <2>1, <2>2, <2>4, <2>5 DEF TextSent
  <2> QED
    BY <1>2, <2>1, <2>2, <2>5, <2>6 DEF There
<1>7. CASE Lose \/ Cancel \/ Connect(Socket) \/ Accepted(Socket)
  <2>1. UNCHANGED <<attempts, progress>> /\ There /\ (task'.status = "succeeded" => task.status = "succeeded")
    BY <1>7 DEF Lose, Cancel, Connect, Accepted, There, Requeued, TableInv, TableTypes
  <2>2. Sent' = Sent /\ TextSent'
    BY <2>1 DEF Sent, TextSent
  <2> QED
    BY <1>2, <2>1, <2>2
<1>8. CASE \E work \in Work[Current + 1] : Current < MaxAttempts /\ Assign(work)
  <2>1. Current = 0 /\ Sent' = <<>> /\ Sent = <<>> /\ progress' = <<>> /\ There /\ task.status = "queued"
    BY <1>3, <1>8
  <2>2. task'.status # "succeeded"
    BY <1>1, <1>8 DEF Assign, TableTypes
  <2> QED
    BY <1>2, <2>1, <2>2 DEF TextSent
<1>9. CASE \E a \in DOMAIN attempts : \E n \in (attempts[a].sent + 1)..Len(attempts[a].text) : Progress(a, n)
  <2>1. progress' = Sent' /\ IsPrefix(Sent, Sent') /\ task' = task /\ task.status # "succeeded"
    BY <1>4, <1>9
  <2> QED
    BY <2>1 DEF TextSent, There
<1>10. ~Delete
  BY DEF Delete, There
<1> QED
  BY <1>5, <1>6, <1>7, <1>8, <1>9, <1>10 DEF Served

LEMMA SentType ==
    ASSUME NEW rows \in Seq(Attempt), Len(rows) <= 1,
           \A a \in 1..Len(rows) : rows[a].sent <= Len(rows[a].text)
    PROVE  (IF Len(rows) = 0 THEN <<>> ELSE SubSeq(rows[1].text, 1, rows[1].sent)) \in Seq(Chars)
<1>1. CASE Len(rows) = 0
  BY <1>1
<1>2. CASE Len(rows) # 0
  <2>1. 1 \in 1..Len(rows) /\ rows[1] \in Attempt
    BY <1>2
  <2>2. rows[1].text \in Seq(Chars) /\ rows[1].sent \in 0..Len(rows[1].text)
    BY <2>1 DEF Attempt
  <2>3. SubSeq(rows[1].text, 1, rows[1].sent) \in Seq(Chars)
    BY <2>2, PrefixFacts
  <2> QED
    BY <1>2, <2>3
<1> QED
  BY <1>1, <1>2

\* Once the task has succeeded, nothing that is asked of its text changes.
LEMMA AsSentBefore ==
    ASSUME TableInv, Current <= 1, Served, There', AsSent'
    PROVE  AsSent
<1> SUFFICES ASSUME task.status = "succeeded" PROVE task.output = attempts[1].text
  BY DEF AsSent
<1>1. Current = 1 /\ attempts[1].sent = Len(attempts[1].text)
  <2>1. Current \in Nat
    BY DEF TableInv, TableTypes, Current
  <2>2. Current = 1
    BY <2>1 DEF TableInv, Attempted
  <2> QED
    BY <2>2 DEF TableInv, OutputTrue
<1>2. ASSUME NEW a \in DOMAIN attempts,
             NEW n \in (attempts[a].sent + 1)..Len(attempts[a].text)
      PROVE  FALSE
  <2>1. a = 1
    BY <1>1 DEF TableInv, TableTypes, Current
  <2>2. attempts[1].sent \in 0..Len(attempts[1].text)
    BY <1>1, <2>1, AttemptFacts DEF TableInv, Current
  <2> QED
    BY <1>1, <2>1, <2>2
<1>3. task' = task /\ attempts' = attempts
  BY <1>2 DEF Served, There, Delete, Assign, Succeed, Fail, Lose, Cancel, Connect, Accepted
<1> QED
  BY <1>3 DEF AsSent

LEMMA FollowsStep == ReaderInv /\ [ReaderNext]_readerVars => Follows'
<1> SUFFICES ASSUME ReaderInv, [ReaderNext]_readerVars, Current' <= 1, ~reader'.blanked, There', AsSent'
             PROVE  /\ TextSent'
                    /\ IsPrefix(reader'.before, Sent') /\ IsPrefix(reader'.since, Sent')
                    /\ Reading' => reader'.shown = Len(reader'.since)
                    /\ reader'.at = "done" /\ task'.status = "succeeded" => reader'.since = Sent'
  BY DEF Follows
<1>1. TableInv /\ TableTypes /\ reader \in Readers /\ SocketInv /\ TableInv'
  BY ServerKept DEF ReaderInv, TableInv, ReaderTypes
<1>2. reader.before \in Seq(Chars) /\ reader.since \in Seq(Chars)
  BY <1>1 DEF Readers
<1>3. ASSUME Current <= 1, ~reader.blanked, There, AsSent
      PROVE  /\ TextSent /\ Sent \in Seq(Chars)
             /\ IsPrefix(reader.before, Sent) /\ IsPrefix(reader.since, Sent)
             /\ Reading => reader.shown = Len(reader.since)
             /\ reader.at = "done" /\ task.status = "succeeded" => reader.since = Sent
  BY <1>1, <1>3, SentFacts DEF ReaderInv, Follows
\* Steps that leave the table as it is.
<1>4. ASSUME TableKept, ~reader.blanked
      PROVE  /\ Current <= 1 /\ There /\ AsSent /\ task' = task /\ Sent' = Sent /\ TextSent'
             /\ TextSent /\ Sent \in Seq(Chars)
             /\ IsPrefix(reader.before, Sent) /\ IsPrefix(reader.since, Sent)
             /\ Reading => reader.shown = Len(reader.since)
             /\ reader.at = "done" /\ task.status = "succeeded" => reader.since = Sent
  <2>1. Current <= 1 /\ There /\ AsSent /\ task' = task /\ Sent' = Sent
    BY <1>4 DEF TableKept, Current, There, AsSent, Sent
  <2>2. TextSent' <=> TextSent
    BY <1>4, <2>1 DEF TableKept, TextSent, Current
  <2> QED
    BY <1>3, <1>4, <2>1, <2>2
<1>5. CASE Delivered
  <2>1. PICK e \in Announced : reader' = [reader EXCEPT !.inbox = Append(reader.inbox, e)]
    BY <1>1, <1>5, DeliveredFacts DEF ReaderTypes
  <2>2. PICK q : q = Append(reader.inbox, e)
    OBVIOUS
  <2>3. /\ reader'.since = reader.since /\ reader'.before = reader.before /\ reader'.shown = reader.shown
        /\ reader'.at = reader.at /\ reader'.blanked = reader.blanked
    BY <1>1, <2>1, <2>2 DEF Readers
  <2>4. TableKept
    BY <1>5 DEF Delivered, Forward, TableKept
  <2> QED
    BY <1>4, <2>3, <2>4 DEF Reading
<1>6. ~Blanked
  BY <1>1 DEF Blanked, Readers
<1>7. CASE Served
  <2>1. reader' = reader /\ ~reader.blanked
    BY <1>7 DEF Served
  <2>2. Current <= 1
    <3>1. Len(attempts) \in Nat /\ Len(attempts') \in Nat /\ Len(attempts') >= Len(attempts)
      <4>1. attempts \in Seq(Attempt) /\ attempts' \in Seq(Attempt)
        BY <1>1 DEF TableInv, TableTypes
      <4>2. ASSUME NEW work, work \in Work[Current + 1], Current < MaxAttempts, Assign(work)
            PROVE  Len(attempts') = Len(attempts) + 1
        BY <1>1, <4>2, AssignFacts
      <4>3. ASSUME NEW a \in DOMAIN attempts,
                   NEW n \in (attempts[a].sent + 1)..Len(attempts[a].text), Progress(a, n)
            PROVE  Len(attempts') = Len(attempts)
        BY <1>1, <4>3, ProgressFacts
      <4>4. ASSUME Fail PROVE Len(attempts') = Len(attempts)
        BY <4>1, <4>4 DEF Fail
      <4>5. ASSUME Succeed \/ Lose \/ Cancel \/ Delete \/ Connect(Socket) \/ Accepted(Socket)
            PROVE  Len(attempts') = Len(attempts)
        BY <4>5 DEF Succeed, Lose, Cancel, Delete, Connect, Accepted
      <4>6. Len(attempts) \in Nat /\ Len(attempts') \in Nat
        BY <4>1
      <4>7. Len(attempts') = Len(attempts) \/ Len(attempts') = Len(attempts) + 1
        BY <1>7, <4>2, <4>3, <4>4, <4>5 DEF Served
      <4> QED
        BY <4>6, <4>7
    <3>2. Len(attempts') <= 1
      BY DEF Current
    <3> QED
      BY <3>1, <3>2 DEF Current
  <2>3. There
    BY <1>7 DEF Served, Delete, There, Assign, Progress, Succeed, Fail, Lose, Cancel, Connect, Accepted
  <2>4. /\ TextSent /\ Sent \in Seq(Chars)
        /\ IsPrefix(reader.before, Sent) /\ IsPrefix(reader.since, Sent)
        /\ Reading => reader.shown = Len(reader.since)
        /\ reader.at = "done" /\ task.status = "succeeded" => reader.since = Sent
    BY <1>1, <1>3, <1>7, <2>1, <2>2, <2>3, AsSentBefore
  <2>5. /\ TextSent' /\ IsPrefix(Sent, Sent')
        /\ task'.status = "succeeded" => task.status = "running" \/ (task.status = "succeeded" /\ Sent' = Sent)
    BY <1>1, <1>7, <2>2, <2>4, SentGrows
  <2>6. Sent' \in Seq(Chars)
    <3>1. /\ attempts' \in Seq(Attempt) /\ Len(attempts') <= 1
          /\ \A a \in 1..Len(attempts') : attempts'[a].sent <= Len(attempts'[a].text)
      BY <1>1 DEF TableInv, TableTypes, Current
    <3> QED
      BY <3>1, SentType DEF Sent, Current
  <2>7. IsPrefix(reader.before, Sent') /\ IsPrefix(reader.since, Sent')
    BY <1>2, <2>4, <2>5, <2>6, PrefixChain
  <2>8. reader.at = "done" => task.status # "running"
    BY DEF ReaderInv, EndTold, Finished
  <2> QED
    BY <2>1, <2>4, <2>5, <2>7, <2>8 DEF Reading
<1>8. CASE Answered
  <2>1. /\ reader'.since = reader.since /\ reader'.before = reader.before /\ reader'.shown = reader.shown
        /\ reader'.at = "listening" /\ reader'.blanked = reader.blanked /\ reader.at = "dialing"
    BY <1>1, <1>8 DEF Answered, Readers
  <2>2. TableKept
    BY <1>8 DEF Answered, vars, TableKept
  <2> QED
    BY <1>4, <2>1, <2>2 DEF Reading
<1>9. CASE Receive \/ Look \/ TooLate
  <2>1. TableKept /\ Reading
    BY <1>1, <1>9, FetchSteps DEF ReaderTypes, TableKept, vars
  <2>2. PICK r \in Readers, partial \in {progress, <<>>}, done \in BOOLEAN :
            /\ r.since = reader.since /\ r.before = reader.before /\ r.shown = reader.shown
            /\ r.at = reader.at /\ r.blanked = reader.blanked
            /\ \/ reader' = Fetch(r, partial, done)
               \/ ~done /\ reader' = [Fetch(r, partial, done) EXCEPT !.at = "raised"]
    BY <1>1, <1>9, FetchSteps DEF ReaderTypes
  <2>3. partial \in Seq(Chars)
    <3>1. progress \in Seq(Chars) /\ <<>> \in Seq(Chars)
      BY <1>1 DEF TableTypes
    <3> QED
      BY <2>2, <3>1
  <2>4. PICK f \in Readers : f = Fetch(r, partial, done)
    BY <1>1, <2>3, FetchTypes
  <2>5. f.before = r.before /\ f.blanked = r.blanked
        /\ (There /\ done => f.at = "done") /\ (There /\ ~done => f.at = r.at)
    <3>1. r = [at |-> r.at, inbox |-> r.inbox, shown |-> r.shown,
               before |-> r.before, since |-> r.since, blanked |-> r.blanked]
      BY DEF Readers
    <3> DEFINE more == r.since \o Beyond(partial, r.shown)
               shown == IF Len(partial) > r.shown THEN Len(partial) ELSE r.shown
               g == Fetch(r, partial, done)
    <3>2. /\ g.inbox = r.inbox /\ g.before = r.before /\ g.blanked = r.blanked
          /\ ~There => g.at = "raised" /\ g.since = r.since /\ g.shown = r.shown
          /\ There /\ done => g.at = "done" /\ g.since = more \o Beyond(task.output, shown) /\ g.shown = r.shown
          /\ There /\ ~done => g.at = r.at /\ g.since = more /\ g.shown = shown
          /\ g = [at |-> g.at, inbox |-> g.inbox, shown |-> g.shown,
                  before |-> g.before, since |-> g.since, blanked |-> g.blanked]
      BY <3>1, FetchFacts
    <3>3. f = g
      BY <2>4
    <3> HIDE DEF g, more, shown
    <3> QED
      BY <3>2, <3>3
  <2>6. /\ reader'.before = f.before /\ reader'.blanked = f.blanked /\ reader'.since = f.since
        /\ reader'.shown = f.shown
        /\ reader'.at = f.at \/ (~done /\ reader'.at = "raised")
    <3>1. CASE reader' = f
      BY <3>1
    <3>2. CASE ~done /\ reader' = [f EXCEPT !.at = "raised"]
      BY <3>2, RaisedFacts
    <3> QED
      BY <2>2, <2>4, <3>1, <3>2
  <2>7. ~reader.blanked
    BY <2>2, <2>5, <2>6
  <2>8. /\ Current <= 1 /\ There /\ AsSent /\ task' = task /\ Sent' = Sent /\ TextSent'
        /\ TextSent /\ IsPrefix(reader.before, Sent) /\ IsPrefix(r.since, Sent) /\ r.shown = Len(r.since)
    BY <1>4, <2>1, <2>2, <2>7
  <2>9. partial = Sent \/ partial = <<>>
    BY <2>2, <2>8 DEF TextSent
  <2>10. /\ IsPrefix(f.since, Sent)
         /\ ~done => f.shown = Len(f.since)
         /\ done /\ task.status = "succeeded" => f.since = Sent
    BY <1>1, <2>4, <2>8, <2>9, FetchFollows
  <2>11. Reading' => ~done
    BY <2>5, <2>6, <2>8 DEF Reading
  <2>12. reader'.at = "done" => done
    <3>1. r.at # "done"
      BY <2>1, <2>2 DEF Reading
    <3> QED
      BY <2>5, <2>6, <2>8, <3>1
  <2> QED
    BY <2>2, <2>5, <2>6, <2>8, <2>10, <2>11, <2>12
<1>10. CASE GiveUp
  <2>1. /\ reader'.at = "polling" /\ reader'.shown = 0
        /\ reader'.before = reader.since /\ reader'.since = <<>> /\ reader'.blanked = reader.blanked
        /\ TableKept
    BY <1>1, <1>10, GiveUpFacts DEF ReaderTypes, TableKept
  <2>2. /\ Sent' = Sent /\ TextSent' /\ Sent \in Seq(Chars) /\ IsPrefix(reader.since, Sent)
    BY <1>4, <2>1
  <2>3. IsPrefix(<<>>, Sent) /\ Len(<<>>) = 0
    BY <2>2, PrefixOfItself
  <2> QED
    BY <2>1, <2>2, <2>3
<1>11. CASE UNCHANGED readerVars
  <2>1. reader' = reader /\ TableKept
    BY <1>11 DEF readerVars, vars, TableKept
  <2> QED
    BY <1>4, <2>1 DEF Reading
<1> QED
  BY <1>5, <1>6, <1>7, <1>8, <1>9, <1>10, <1>11 DEF ReaderNext

LEMMA ReaderInitially == ReaderInit => ReaderInv
<1> SUFFICES ASSUME ReaderInit PROVE ReaderInv
  OBVIOUS
<1>1. SocketInv /\ TableInv
  BY WatchersInitially, TableInitially DEF ReaderInit
<1>2. /\ reader.at = "dialing" /\ reader.inbox = <<>> /\ reader.shown = 0
      /\ reader.before = <<>> /\ reader.since = <<>> /\ reader.blanked = FALSE
  BY DEF ReaderInit, NewReader
<1>3. ReaderTypes
  <2>1. <<>> \in Seq(Chars) /\ <<>> \in Seq(Announced) /\ "dialing" \in Places
    BY DEF Places
  <2> QED
    BY <2>1 DEF ReaderInit, NewReader, ReaderTypes, Readers
<1>4. EndTold
  <2>1. socket[Socket] = NewSocket
    BY ReaderAssumption DEF ReaderInit, Init, ReaderAssumption
  <2>2. Silent(socket[Socket])
    BY <2>1, NewSocketSilent
  <2>3. ~HasEnd(<<>>)
    BY DEF HasEnd
  <2> QED
    BY <1>2, <2>2, <2>3 DEF EndTold, Silent
<1>5. Follows
  <2>1. Current = 0 /\ progress = <<>> /\ task.status = "queued"
    BY DEF ReaderInit, Init, Current
  <2>2. Sent = <<>> /\ TextSent
    BY <2>1 DEF Sent, TextSent
  <2>3. IsPrefix(<<>>, <<>>) /\ Len(<<>>) = 0
    <3>1. PICK e \in Seq(Chars) : e = <<>>
      <4>1. <<>> \in Seq(Chars)
        OBVIOUS
      <4> QED
        BY <4>1
    <3>2. IsPrefix(e, e)
      BY PrefixOfItself
    <3> QED
      BY <3>1, <3>2
  <2> QED
    BY <1>2, <2>1, <2>2, <2>3 DEF Follows
<1> QED
  BY <1>1, <1>3, <1>4, <1>5 DEF ReaderInv

\* stream_ws and stream of client/sdk.py: what a reader yields is a beginning of the
\* text of a task that was sent what is its output, and all of it when it is told that
\* the task succeeded.
THEOREM ReaderHolds == ReaderSpec => []ReaderTrue
<1>1. ReaderInv /\ [ReaderNext]_readerVars => ReaderInv'
  BY ServerKept, ToldStep, FollowsStep DEF ReaderInv
<1>2. ReaderInv => ReaderTrue
  <2> SUFFICES ASSUME ReaderInv, Current = 1, ~reader.blanked, There, AsSent
               PROVE  /\ IsPrefix(reader.since, attempts[1].text)
                      /\ IsPrefix(reader.before, attempts[1].text)
                      /\ reader.at = "done" /\ task.status = "succeeded" => reader.since = task.output
    BY DEF ReaderTrue
  <2>1. Current <= 1 /\ TableInv /\ 1 \in 1..Len(attempts)
    BY DEF ReaderInv, Current
  <2>2. /\ IsPrefix(reader.before, Sent) /\ IsPrefix(reader.since, Sent)
        /\ reader.at = "done" /\ task.status = "succeeded" => reader.since = Sent
    BY <2>1 DEF ReaderInv, Follows
  <2>3. /\ Sent \in Seq(Chars) /\ IsPrefix(Sent, attempts[1].text)
        /\ task.status = "succeeded" => task.output = Sent
    BY <2>1, SentFacts
  <2>4. attempts[1].text \in Seq(Chars)
    BY <2>1, AttemptFacts DEF TableInv
  <2>5. reader.before \in Seq(Chars) /\ reader.since \in Seq(Chars)
    BY DEF ReaderInv, ReaderTypes, Readers
  <2>6. IsPrefix(reader.before, attempts[1].text) /\ IsPrefix(reader.since, attempts[1].text)
    BY <2>2, <2>3, <2>4, <2>5, PrefixChain
  <2> QED
    BY <2>2, <2>3, <2>6
<1> QED
  BY <1>1, <1>2, ReaderInitially, PTL DEF ReaderSpec

-----------------------------------------------------------------------------
(***************************************************************************)
(* Texts, and what stripping and tags are about                            *)
(***************************************************************************)
Texts == Seq(Chars)

\* d characters of S lead the text s.
Leads(s, S, d) ==
    /\ d \in 0..Len(s) /\ \A i \in 1..d : s[i] \in S
    /\ d < Len(s) => s[d + 1] \notin S

LEMMA CharFacts ==
    /\ Newline \in Chars /\ " " \in Chars /\ "<" \in Chars /\ "t" \in Chars /\ "/" \in Chars
    /\ "end" \notin Blanks /\ "end" # Newline /\ "<" \notin Blanks
    /\ Blanks \subseteq Chars
  BY DEF Chars, Newline, Blanks

\* The part of a text from one place to another.
LEMMA PartFacts ==
    ASSUME NEW S, NEW s \in Seq(S), NEW i \in Nat \ {0}, NEW j \in Nat, j <= Len(s), i <= j + 1
    PROVE  /\ SubSeq(s, i, j) \in Seq(S) /\ Len(SubSeq(s, i, j)) = j + 1 - i
           /\ \A k \in 1..(j + 1 - i) : SubSeq(s, i, j)[k] = s[i + k - 1]
  OBVIOUS

\* What stripping takes off.
LEMMA StripIs ==
    ASSUME NEW s \in Texts, NEW S \in SUBSET Blanks
    PROVE  \E d \in 0..Len(s) : Leads(s, S, d) /\ StripLeft(s, S) = Drop(s, d)
<1> DEFINE t == Append(s, "end")
           I == {i \in 1..Len(t) : t[i] \notin S}
<1>1. PICK n \in Nat : n = Len(s)
  BY DEF Texts
<1>2. Len(t) = n + 1 /\ t[n + 1] = "end" /\ \A i \in 1..n : t[i] = s[i]
  BY <1>1 DEF Texts
<1> HIDE DEF t
<1>3. n + 1 \in I /\ I \in SUBSET Nat
  <2>1. t[n + 1] \notin S
    BY <1>2, CharFacts
  <2>2. n + 1 \in 1..Len(t)
    BY <1>2
  <2> QED
    BY <1>2, <2>1, <2>2
<1>4. PICK m \in I : m = Min(I) /\ \A i \in I : m <= i
  <2>1. I # {}
    BY <1>3
  <2> HIDE DEF I
  <2> QED
    BY <1>3, <2>1, MinIs
<1>5. m \in 1..(n + 1) /\ m - 1 \in 0..n
  BY <1>2, <1>4
<1>6. SelectInSeq(t, LAMBDA c : c \notin S) = m
  <2>1. I # {}
    BY <1>3
  <2> QED
    BY <1>4, <2>1 DEF SelectInSeq
<1>7. StripLeft(s, S) = Drop(s, m - 1)
  BY <1>6 DEF StripLeft, t
<1>8. Leads(s, S, m - 1)
  <2>1. \A i \in 1..(m - 1) : s[i] \in S
    BY <1>2, <1>4, <1>5
  <2>2. m - 1 < n => s[(m - 1) + 1] \notin S
    BY <1>2, <1>4, <1>5
  <2> QED
    BY <1>1, <1>5, <2>1, <2>2 DEF Leads
<1> QED
  BY <1>1, <1>5, <1>7, <1>8

LEMMA LeadsOnce ==
    ASSUME NEW s \in Texts, NEW S, NEW d, Leads(s, S, d), NEW e, Leads(s, S, e)
    PROVE  d = e
<1>1. PICK n \in Nat : n = Len(s)
  BY DEF Texts
<1>2. d \in 0..n /\ e \in 0..n
  BY <1>1 DEF Leads
<1>3. ~(d < e)
  <2>1. SUFFICES ASSUME d < e PROVE FALSE
    OBVIOUS
  <2>2. d + 1 \in 1..e /\ d < n
    BY <1>2, <2>1
  <2> QED
    BY <1>1, <2>2 DEF Leads
<1>4. ~(e < d)
  <2>1. SUFFICES ASSUME e < d PROVE FALSE
    OBVIOUS
  <2>2. e + 1 \in 1..d /\ e < n
    BY <1>2, <2>1
  <2> QED
    BY <1>1, <2>2 DEF Leads
<1> QED
  BY <1>2, <1>3, <1>4

LEMMA StripOf ==
    ASSUME NEW s \in Texts, NEW S \in SUBSET Blanks, NEW d, Leads(s, S, d)
    PROVE  StripLeft(s, S) = Drop(s, d)
  BY StripIs, LeadsOnce

LEMMA StripType ==
    ASSUME NEW s \in Texts, NEW S \in SUBSET Blanks
    PROVE  StripLeft(s, S) \in Texts
<1>1. PICK d \in 0..Len(s) : StripLeft(s, S) = Drop(s, d)
  BY StripIs
<1>2. d \in Nat /\ Len(s) \in Nat /\ d <= Len(s)
  BY DEF Texts
<1>3. SubSeq(s, d + 1, Len(s)) \in Seq(Chars)
  BY <1>2, PartFacts DEF Texts
<1> QED
  BY <1>1, <1>3 DEF Drop, Texts

-----------------------------------------------------------------------------
\* A part of a part.
LEMMA PartOfPart ==
    ASSUME NEW S, NEW s \in Seq(S), NEW i \in Nat \ {0}, NEW j \in Nat, j <= Len(s), i <= j + 1,
           NEW a \in Nat \ {0}, NEW b \in Nat, i + b - 1 <= j, a <= b + 1
    PROVE  SubSeq(SubSeq(s, i, j), a, b) = SubSeq(s, i + a - 1, i + b - 1)
  OBVIOUS

\* Behind the end there is nothing.
LEMMA EmptyPart ==
    ASSUME NEW S, NEW s \in Seq(S), NEW i \in Int, NEW j \in Int, j < i
    PROVE  SubSeq(s, i, j) = <<>>
  OBVIOUS

\* What is new of a longer beginning.
LEMMA Grown ==
    ASSUME NEW S, NEW s \in Seq(S), NEW i \in Nat, NEW j \in Nat, i <= j, j <= Len(s)
    PROVE  SubSeq(s, 1, i) \o Drop(SubSeq(s, 1, j), i) = SubSeq(s, 1, j)
<1> DEFINE t == SubSeq(s, 1, j)
<1>1. t \in Seq(S) /\ Len(t) = j /\ SubSeq(t, 1, i) = SubSeq(s, 1, i)
  OBVIOUS
<1>2. SubSeq(t, 1, i) \o SubSeq(t, i + 1, Len(t)) = t
  <2> HIDE DEF t
  <2> QED
    BY <1>1
<1> QED
  BY <1>1, <1>2 DEF Drop

\* Stripping a beginning.
LEMMA StripBeginning ==
    ASSUME NEW s \in Texts, NEW S \in SUBSET Blanks, NEW d, Leads(s, S, d),
           NEW n \in 0..Len(s)
    PROVE  /\ n <= d => StripLeft(SubSeq(s, 1, n), S) = <<>>
           /\ d <= n => StripLeft(SubSeq(s, 1, n), S) = SubSeq(s, d + 1, n)
<1> DEFINE t == SubSeq(s, 1, n)
<1>1. PICK k \in Nat : k = Len(s)
  BY DEF Texts
<1>2. t \in Texts /\ Len(t) = n /\ (\A i \in 1..n : t[i] = s[i]) /\ n \in Nat /\ n <= k /\ d \in 0..k
  BY <1>1, PartFacts DEF Texts, Leads
<1>3. ASSUME n <= d PROVE StripLeft(t, S) = <<>>
  <2>1. Leads(t, S, n)
    BY <1>1, <1>2, <1>3 DEF Leads
  <2>2. Drop(t, n) = <<>>
    BY <1>2 DEF Drop, Texts
  <2> QED
    BY <1>2, <2>1, <2>2, StripOf
<1>4. ASSUME d <= n PROVE StripLeft(t, S) = SubSeq(s, d + 1, n)
  <2>1. Leads(t, S, d)
    BY <1>1, <1>2, <1>4 DEF Leads
  <2>2. Drop(t, d) = SubSeq(s, d + 1, n)
    <3>1. d \in Nat /\ SubSeq(t, d + 1, n) = SubSeq(s, d + 1, n)
      BY <1>1, <1>2, <1>4 DEF Texts
    <3> QED
      BY <1>2, <3>1 DEF Drop
  <2> QED
    BY <1>2, <2>1, <2>2, StripOf
<1> QED
  BY <1>3, <1>4

\* Where a tag occurs in a beginning.
LEMMA AtBeginning ==
    ASSUME NEW s \in Texts, NEW n \in 0..Len(s), NEW tag \in Texts, tag # <<>>
    PROVE  At(tag, SubSeq(s, 1, n)) = {i \in At(tag, s) : i + Len(tag) - 1 <= n}
<1> DEFINE t == SubSeq(s, 1, n)
<1>1. PICK k \in Nat, l \in Nat \ {0} : k = Len(s) /\ l = Len(tag)
  BY DEF Texts
<1>2. Len(t) = n /\ n \in Nat /\ n <= k
  BY <1>1 DEF Texts
<1>3. ASSUME NEW i \in Nat \ {0}, i + l - 1 <= n PROVE SubSeq(t, i, i + l - 1) = SubSeq(s, i, i + l - 1)
  BY <1>1, <1>2, <1>3 DEF Texts
<1>4. At(tag, s) = {i \in 1..(k - l + 1) : SubSeq(s, i, i + l - 1) = tag}
  BY <1>1 DEF At
<1>5. At(tag, t) = {i \in 1..(n - l + 1) : SubSeq(t, i, i + l - 1) = tag}
  BY <1>1, <1>2 DEF At
<1> HIDE DEF t
<1>6. ASSUME NEW i \in At(tag, t) PROVE i \in At(tag, s) /\ i + l - 1 <= n
  <2>1. i \in 1..(n - l + 1) /\ SubSeq(t, i, i + l - 1) = tag
    BY <1>5, <1>6
  <2>2. i \in Nat \ {0} /\ i + l - 1 <= n /\ i \in 1..(k - l + 1)
    BY <1>2, <2>1
  <2> QED
    BY <1>3, <1>4, <2>1, <2>2
<1>7. ASSUME NEW i \in At(tag, s), i + l - 1 <= n PROVE i \in At(tag, t)
  <2>1. i \in 1..(k - l + 1) /\ SubSeq(s, i, i + l - 1) = tag
    BY <1>4
  <2>2. i \in Nat \ {0} /\ i \in 1..(n - l + 1)
    BY <1>2, <1>7, <2>1
  <2> QED
    BY <1>3, <1>5, <1>7, <2>1, <2>2
<1> QED
  BY <1>1, <1>6, <1>7 DEF t

LEMMA TagFacts ==
    /\ OpenTag \in Texts /\ CloseTag \in Texts /\ Len(OpenTag) = 2 /\ Len(CloseTag) = 3 /\ Hold = 2
    /\ OpenTag # <<>> /\ CloseTag # <<>> /\ SubSeq(OpenTag, 1, Len(OpenTag)) = OpenTag
<1>1. OpenTag \in Texts /\ CloseTag \in Texts
  <2>1. \A x, y, z \in Chars : <<x, y>> \in Seq(Chars) /\ <<x, y, z>> \in Seq(Chars)
    OBVIOUS
  <2>2. <<"<", "t">> \in Seq(Chars)
    BY <2>1, CharFacts
  <2>3. <<"<", "/", "t">> \in Seq(Chars)
    BY <2>1, CharFacts
  <2> QED
    BY <2>2, <2>3 DEF OpenTag, CloseTag, Texts
<1>2. Len(OpenTag) = 2 /\ Len(CloseTag) = 3 /\ OpenTag # <<>> /\ CloseTag # <<>>
  BY DEF OpenTag, CloseTag
<1>3. Hold = 2
  BY <1>2 DEF Hold
<1>4. SubSeq(OpenTag, 1, Len(OpenTag)) = OpenTag
  BY <1>1, SubSeqAll DEF Texts
<1> QED
  BY <1>1, <1>2, <1>3, <1>4

\* A text opens with a tag that is behind its blanks.
LEMMA OpensIs ==
    ASSUME NEW s \in Texts, NEW d, Leads(s, Blanks, d)
    PROVE  Opens(s) <=> d + 1 \in At(OpenTag, s)
<1>1. PICK k \in Nat : k = Len(s)
  BY DEF Texts
<1>2. d \in 0..k /\ StripLeft(s, Blanks) = Drop(s, d)
  BY <1>1, StripOf DEF Leads
<1>3. PICK u \in Texts : u = Drop(s, d) /\ Len(u) = k - d
  BY <1>1, <1>2 DEF Drop, Texts
<1>4. 2 <= k - d => SubSeq(u, 1, 2) = SubSeq(s, d + 1, d + 2)
  BY <1>1, <1>2, <1>3 DEF Drop, Texts
<1>5. Opens(s) <=> 2 <= k - d /\ OpenTag = SubSeq(u, 1, 2)
  BY <1>2, <1>3, TagFacts DEF Opens, IsPrefix
<1>6. d + 1 \in At(OpenTag, s) <=> d + 1 \in 1..(k - 2 + 1) /\ SubSeq(s, d + 1, d + 2) = OpenTag
  <2>1. d + 1 + 2 - 1 = d + 2
    BY <1>2
  <2> QED
    BY <1>1, <2>1, TagFacts DEF At
<1>7. d + 1 \in 1..(k - 2 + 1) <=> 2 <= k - d
  BY <1>2
<1> QED
  BY <1>4, <1>5, <1>6, <1>7

LEMMA OpensBeginning ==
    ASSUME NEW s \in Texts, NEW n \in 0..Len(s), Opens(SubSeq(s, 1, n))
    PROVE  Opens(s)
<1> DEFINE t == SubSeq(s, 1, n)
<1>1. PICK k \in Nat : k = Len(s)
  BY DEF Texts
<1>2. PICK d \in 0..k : Leads(s, Blanks, d)
  BY <1>1, StripIs
<1>3. t \in Texts /\ Len(t) = n /\ (\A i \in 1..n : t[i] = s[i]) /\ n \in Nat /\ n <= k
  BY <1>1, PartFacts DEF Texts
<1>4. CASE n <= d
  <2>1. StripLeft(t, Blanks) = <<>>
    BY <1>1, <1>2, <1>4, StripBeginning
  <2>2. ~(2 <= Len(<<>>))
    OBVIOUS
  <2> QED
    BY <2>1, <2>2, TagFacts DEF Opens, IsPrefix
<1>5. CASE ~(n <= d)
  <2>1. Leads(t, Blanks, d)
    BY <1>1, <1>2, <1>3, <1>5 DEF Leads
  <2>2. d + 1 \in At(OpenTag, t)
    BY <1>3, <2>1, OpensIs
  <2>3. d + 1 \in At(OpenTag, s)
    BY <2>2, AtBeginning, TagFacts
  <2> QED
    BY <1>2, <2>3, OpensIs
<1> QED
  BY <1>4, <1>5

\* Without the occurrences of a tag that does not occur.
LEMMA WithoutNone ==
    ASSUME NEW s \in Texts, NEW tag, At(tag, s) = {}
    PROVE  Without(tag, s) = s
<1>1. UNION {i..(i + Len(tag) - 1) : i \in At(tag, s)} = {}
  OBVIOUS
<1>2. Without(tag, s) = FlattenSeq([i \in DOMAIN s |-> IF i \in {} THEN <<>> ELSE <<s[i]>>])
  BY <1>1 DEF Without
<1>3. [i \in DOMAIN s |-> IF i \in {} THEN <<>> ELSE <<s[i]>>] = [i \in DOMAIN s |-> <<s[i]>>]
  OBVIOUS
<1>4. FlattenSeq([i \in DOMAIN s |-> <<s[i]>>]) = s
  BY FlatSingles DEF Texts
<1> QED
  BY <1>2, <1>3, <1>4

-----------------------------------------------------------------------------
(***************************************************************************)
(* What is solid of a text                                                 *)
(***************************************************************************)
\* What is solid of a character.
Bit(c) == IF c \in Blanks THEN <<>> ELSE <<c>>
Bits(s) == [i \in 1..Len(s) |-> Bit(s[i])]

LEMMA BitsFacts ==
    ASSUME NEW s \in Texts
    PROVE  /\ Solid(s) = FlattenSeq(Bits(s)) /\ Bits(s) \in Seq(Texts) /\ Len(Bits(s)) = Len(s)
           /\ \A i \in 1..Len(s) : Bits(s)[i] = Bit(s[i])
<1>1. DOMAIN s = 1..Len(s) /\ Len(s) \in Nat /\ \A i \in 1..Len(s) : s[i] \in Chars
  BY DEF Texts
<1>2. Solid(s) = FlattenSeq(Bits(s))
  BY <1>1 DEF Solid, Bits, Bit
<1>3. \A c \in Chars : Bit(c) \in Texts
  BY DEF Bit, Texts
<1>4. Bits(s) \in [1..Len(s) -> Texts]
  BY <1>1, <1>3 DEF Bits
<1>5. Bits(s) \in Seq(Texts) /\ Len(Bits(s)) = Len(s)
  <2> HIDE DEF Texts
  <2> QED
    BY <1>1, <1>4
<1> QED
  BY <1>1, <1>2, <1>5 DEF Bits

LEMMA SolidCat ==
    ASSUME NEW a \in Texts, NEW b \in Texts
    PROVE  a \o b \in Texts /\ Solid(a \o b) = Solid(a) \o Solid(b)
<1>1. PICK m \in Nat, n \in Nat : m = Len(a) /\ n = Len(b)
  BY DEF Texts
<1>2. /\ a \o b \in Texts /\ Len(a \o b) = m + n
      /\ \A i \in 1..m : (a \o b)[i] = a[i]
      /\ \A i \in 1..n : (a \o b)[m + i] = b[i]
  BY <1>1 DEF Texts
<1>3. PICK c \in Texts : c = a \o b
  BY <1>2
<1>4. PICK x \in Seq(Texts) : x = Bits(a) /\ Len(x) = m /\ \A i \in 1..m : x[i] = Bit(a[i])
  BY <1>1, BitsFacts
<1>5. PICK y \in Seq(Texts) : y = Bits(b) /\ Len(y) = n /\ \A i \in 1..n : y[i] = Bit(b[i])
  BY <1>1, BitsFacts
<1>6. PICK z \in Seq(Texts) : z = Bits(c) /\ Len(z) = m + n /\ \A i \in 1..(m + n) : z[i] = Bit(c[i])
  BY <1>2, <1>3, BitsFacts
<1>7. z = x \o y
  <2>1. /\ Len(x \o y) = m + n /\ x \o y \in Seq(Texts)
        /\ \A i \in 1..m : (x \o y)[i] = x[i]
        /\ \A i \in 1..n : (x \o y)[m + i] = y[i]
    BY <1>4, <1>5
  <2>2. ASSUME NEW i \in 1..(m + n) PROVE z[i] = (x \o y)[i]
    <3>1. CASE i <= m
      <4>1. i \in 1..m
        BY <3>1
      <4>2. z[i] = Bit(c[i]) /\ c[i] = a[i]
        BY <1>2, <1>3, <1>6, <4>1
      <4>3. (x \o y)[i] = x[i] /\ x[i] = Bit(a[i])
        BY <1>4, <2>1, <4>1
      <4> QED
        BY <4>2, <4>3
    <3>2. CASE ~(i <= m)
      <4>1. PICK j \in 1..n : i = m + j
        <5>1. i - m \in 1..n /\ i = m + (i - m)
          BY <3>2
        <5> QED
          BY <5>1
      <4> QED
        <5>1. z[i] = Bit(c[i]) /\ c[i] = b[j]
          BY <1>2, <1>3, <1>6, <4>1
        <5>2. (x \o y)[i] = y[j] /\ y[j] = Bit(b[j])
          BY <1>5, <2>1, <4>1
        <5> QED
          BY <5>1, <5>2
    <3> QED
      BY <3>1, <3>2
  <2> QED
    BY <1>6, <2>1, <2>2
<1>8. FlattenSeq(x \o y) = FlattenSeq(x) \o FlattenSeq(y)
  BY <1>4, <1>5, FlatCat DEF Texts
<1> QED
  BY <1>2, <1>3, <1>4, <1>5, <1>6, <1>7, <1>8, BitsFacts

LEMMA SolidBlanks ==
    ASSUME NEW s \in Texts, \A i \in 1..Len(s) : s[i] \in Blanks
    PROVE  Solid(s) = <<>>
<1>1. \A i \in 1..Len(Bits(s)) : Bits(s)[i] = <<>>
  BY BitsFacts DEF Bit
<1> QED
  BY <1>1, BitsFacts, FlatNone DEF Texts

LEMMA SolidType == ASSUME NEW s \in Texts PROVE Solid(s) \in Texts
  BY BitsFacts, FlatType DEF Texts

\* Two sequences, one behind the other, and sequences that are the same.
LEMMA CatElements ==
    ASSUME NEW S, NEW a \in Seq(S), NEW b \in Seq(S), NEW m \in Nat, m = Len(a), NEW n \in Nat, n = Len(b)
    PROVE  /\ a \o b \in Seq(S) /\ Len(a \o b) = m + n
           /\ \A i \in 1..m : (a \o b)[i] = a[i]
           /\ \A i \in 1..n : (a \o b)[m + i] = b[i]
  OBVIOUS

LEMMA SameElements ==
    ASSUME NEW S, NEW a \in Seq(S), NEW b \in Seq(S), Len(a) = Len(b), \A i \in 1..Len(a) : a[i] = b[i]
    PROVE  a = b
  OBVIOUS

\* A text in two parts.
LEMMA Parts ==
    ASSUME NEW s \in Texts, NEW n \in 0..Len(s)
    PROVE  /\ SubSeq(s, 1, n) \in Texts /\ SubSeq(s, n + 1, Len(s)) \in Texts
           /\ s = SubSeq(s, 1, n) \o SubSeq(s, n + 1, Len(s))
           /\ Len(SubSeq(s, 1, n)) = n /\ Len(SubSeq(s, n + 1, Len(s))) = Len(s) - n
           /\ \A i \in 1..n : SubSeq(s, 1, n)[i] = s[i]
           /\ \A i \in 1..(Len(s) - n) : SubSeq(s, n + 1, Len(s))[i] = s[n + i]
<1>1. PICK k \in Nat : k = Len(s) /\ n <= k /\ n \in Nat
  BY DEF Texts
<1>2. /\ SubSeq(s, 1, n) \in Seq(Chars) /\ Len(SubSeq(s, 1, n)) = n
      /\ \A i \in 1..n : SubSeq(s, 1, n)[i] = s[i]
  BY <1>1 DEF Texts
<1>3. /\ SubSeq(s, n + 1, k) \in Seq(Chars) /\ Len(SubSeq(s, n + 1, k)) = k - n
      /\ \A i \in 1..(k - n) : SubSeq(s, n + 1, k)[i] = s[n + i]
  BY <1>1 DEF Texts
<1>4. PICK l \in Nat : l = k - n
  <2>1. k - n \in Nat
    BY <1>1
  <2> QED
    BY <2>1
<1>5. n + l = k
  BY <1>1, <1>4
<1>6. s = SubSeq(s, 1, n) \o SubSeq(s, n + 1, k)
  <2>1. PICK a \in Seq(Chars), b \in Seq(Chars) :
           /\ a = SubSeq(s, 1, n) /\ Len(a) = n /\ b = SubSeq(s, n + 1, k) /\ Len(b) = l
           /\ \A i \in 1..n : a[i] = s[i]
           /\ \A i \in 1..l : b[i] = s[n + i]
    BY <1>2, <1>3, <1>4
  <2>2. /\ a \o b \in Seq(Chars) /\ Len(a \o b) = n + l
        /\ \A i \in 1..n : (a \o b)[i] = a[i]
        /\ \A i \in 1..l : (a \o b)[n + i] = b[i]
    <3>1. n \in Nat /\ n = Len(a) /\ l = Len(b)
      BY <1>1, <2>1
    <3> QED
      BY <3>1, CatElements
  <2>3. ASSUME NEW i \in 1..k PROVE (a \o b)[i] = s[i]
    <3>1. CASE i <= n
      <4>1. i \in 1..n
        BY <1>1, <3>1
      <4> QED
        BY <2>1, <2>2, <4>1
    <3>2. CASE ~(i <= n)
      <4>1. PICK j \in 1..l : i = n + j
        <5>1. i - n \in 1..l /\ i = n + (i - n)
          BY <1>1, <1>4, <3>2
        <5> QED
          BY <5>1
      <4> QED
        BY <2>1, <2>2, <4>1
    <3> QED
      BY <3>1, <3>2
  <2>4. a \o b = s
    BY <1>1, <1>5, <2>2, <2>3, SameElements DEF Texts
  <2> QED
    BY <2>1, <2>4
<1> QED
  BY <1>1, <1>2, <1>3, <1>6 DEF Texts

LEMMA CatEmpty == ASSUME NEW s \in Texts PROVE <<>> \o s = s /\ s \o <<>> = s
  BY DEF Texts

LEMMA SolidStrip ==
    ASSUME NEW s \in Texts, NEW S \in SUBSET Blanks
    PROVE  Solid(StripLeft(s, S)) = Solid(s)
<1>1. PICK d \in 0..Len(s) : Leads(s, S, d) /\ StripLeft(s, S) = Drop(s, d)
  BY StripIs
<1>2. PICK a \in Texts, b \in Texts : a = SubSeq(s, 1, d) /\ b = SubSeq(s, d + 1, Len(s)) /\ s = a \o b
                                      /\ Len(a) = d /\ \A i \in 1..d : a[i] = s[i]
  BY Parts
<1>3. Solid(a) = <<>>
  BY <1>1, <1>2, SolidBlanks DEF Leads
<1>4. Solid(b) \in Texts /\ <<>> \o Solid(b) = Solid(b)
  BY <1>2, SolidType, CatEmpty
<1>5. Solid(s) = Solid(a) \o Solid(b)
  BY <1>2, SolidCat
<1> QED
  BY <1>1, <1>2, <1>3, <1>4, <1>5 DEF Drop

LEMMA ReverseFacts ==
    ASSUME NEW s \in Texts
    PROVE  Reverse(s) \in Texts /\ Len(Reverse(s)) = Len(s)
           /\ \A i \in 1..Len(s) : Reverse(s)[i] = s[Len(s) - i + 1]
<1>1. PICK n \in Nat : n = Len(s)
  BY DEF Texts
<1>2. \A i \in 1..n : s[n - i + 1] \in Chars
  BY <1>1 DEF Texts
<1>3. Reverse(s) = [i \in 1..n |-> s[(n - i) + 1]]
  BY <1>1 DEF Reverse
<1>4. Reverse(s) \in [1..n -> Chars]
  BY <1>2, <1>3
<1> QED
  BY <1>1, <1>3, <1>4 DEF Texts

\* Stripping newlines at the end.
LEMMA SolidBack ==
    ASSUME NEW s \in Texts
    PROVE  Solid(Reverse(StripLeft(Reverse(s), {Newline}))) = Solid(s)
<1>1. PICK n \in Nat : n = Len(s)
  BY DEF Texts
<1>2. PICK r \in Texts : r = Reverse(s) /\ Len(r) = n /\ \A i \in 1..n : r[i] = s[n - i + 1]
  BY <1>1, ReverseFacts
<1>3. PICK d \in 0..n : Leads(r, {Newline}, d) /\ StripLeft(r, {Newline}) = Drop(r, d)
  BY <1>2, StripIs DEF Blanks
<1>6. PICK m \in Nat : m = n - d /\ m \in 0..n /\ n - m = d
  <2>1. n - d \in Nat /\ n - d \in 0..n /\ n - (n - d) = d
    BY <1>3
  <2> QED
    BY <2>1
<1>4. PICK u \in Texts : u = Drop(r, d) /\ Len(u) = m /\ \A i \in 1..m : u[i] = r[d + i]
  BY <1>2, <1>3, <1>6, Parts DEF Drop
<1>5. PICK v \in Texts : v = Reverse(u) /\ Len(v) = m /\ \A i \in 1..m : v[i] = u[m - i + 1]
  BY <1>4, ReverseFacts
<1>7. PICK a \in Texts, b \in Texts :
         /\ s = a \o b /\ Len(a) = m /\ Len(b) = d
         /\ \A i \in 1..m : a[i] = s[i]
         /\ \A i \in 1..d : b[i] = s[m + i]
  <2>1. m \in 0..Len(s) /\ Len(s) - m = d
    BY <1>1, <1>6
  <2> DEFINE a == SubSeq(s, 1, m)
             b == SubSeq(s, m + 1, Len(s))
  <2>2. /\ a \in Texts /\ b \in Texts /\ s = a \o b /\ Len(a) = m /\ Len(b) = Len(s) - m
        /\ \A i \in 1..m : a[i] = s[i]
        /\ \A i \in 1..(Len(s) - m) : b[i] = s[m + i]
    BY <2>1, Parts
  <2> QED
    BY <2>1, <2>2
<1>8. v = a
  <2>1. ASSUME NEW i \in 1..m PROVE v[i] = a[i]
    <3>1. m - i + 1 \in 1..m /\ d + (m - i + 1) = n - i + 1 /\ n - i + 1 \in 1..n
          /\ n - (n - i + 1) + 1 = i
      BY <1>3, <1>6
    <3>2. v[i] = u[m - i + 1]
      BY <1>5
    <3>3. u[m - i + 1] = r[n - i + 1]
      BY <1>4, <3>1
    <3>4. r[n - i + 1] = s[i]
      BY <1>2, <3>1
    <3> QED
      BY <1>7, <3>2, <3>3, <3>4
  <2> QED
    BY <1>5, <1>7, <2>1 DEF Texts
<1>9. Solid(b) = <<>>
  <2>1. ASSUME NEW i \in 1..Len(b) PROVE b[i] \in Blanks
    <3>1. i \in 1..d /\ m + i \in 1..n /\ d - i + 1 \in 1..d /\ n - (d - i + 1) + 1 = m + i
          /\ d - i + 1 \in 1..n /\ i \in 1..d
      BY <1>3, <1>6, <1>7
    <3>2. b[i] = s[m + i]
      BY <1>7, <3>1
    <3>3. r[d - i + 1] = s[m + i]
      BY <1>2, <3>1
    <3>4. r[d - i + 1] \in {Newline}
      BY <1>3, <3>1 DEF Leads
    <3> QED
      BY <3>2, <3>3, <3>4 DEF Blanks
  <2> QED
    BY <2>1, SolidBlanks
<1>10. Solid(a) \in Texts /\ Solid(a) \o <<>> = Solid(a)
  BY SolidType, CatEmpty
<1>11. Solid(s) = Solid(a) \o Solid(b)
  BY <1>7, SolidCat
<1>12. Reverse(StripLeft(Reverse(s), {Newline})) = v
  BY <1>2, <1>3, <1>4, <1>5
<1> QED
  BY <1>8, <1>9, <1>10, <1>11, <1>12

LEMMA SolidNewlines ==
    ASSUME NEW s \in Texts
    PROVE  Solid(StripNewlines(s)) = Solid(s)
<1>1. StripLeft(s, {Newline}) \in Texts /\ Solid(StripLeft(s, {Newline})) = Solid(s)
  BY StripType, SolidStrip DEF Blanks
<1> QED
  BY <1>1, SolidBack DEF StripNewlines

-----------------------------------------------------------------------------
(***************************************************************************)
(* What the splitter makes of a beginning                                  *)
(***************************************************************************)
\* Where the answer begins: behind the closing tag and the newlines there.
Behind(s, o) ==
    /\ Min(At(CloseTag, s)) + 2 <= o /\ o <= Len(s)
    /\ Leads(Drop(s, Min(At(CloseTag, s)) + 2), {Newline}, o - (Min(At(CloseTag, s)) + 2))

LEMMA CloseFacts ==
    ASSUME NEW s \in Texts, Closes(s)
    PROVE  \E k \in Nat \ {0} :
              /\ k = Min(At(CloseTag, s)) /\ k \in At(CloseTag, s) /\ k + 2 <= Len(s)
              /\ \A i \in At(CloseTag, s) : k <= i
              /\ BeforeClose(s) = SubSeq(s, 1, k - 1) /\ AfterClose(s) = Drop(s, k + 2)
<1> DEFINE A == At(CloseTag, s)
<1>1. PICK n \in Nat : n = Len(s)
  BY DEF Texts
<1>2. A \in SUBSET Nat /\ A # {} /\ A \subseteq 1..(n - 3 + 1)
  BY <1>1, TagFacts DEF At, Closes
<1>3. Min(A) \in A /\ \A i \in A : Min(A) <= i
  <2> HIDE DEF A
  <2> QED
    BY <1>2, MinIs
<1>4. PICK k \in Nat \ {0} : k = Min(A) /\ k + 2 <= n
  <2>1. Min(A) \in Nat \ {0} /\ Min(A) + 2 <= n
    BY <1>1, <1>2, <1>3
  <2> QED
    BY <2>1
<1>5. k + 3 - 1 = k + 2
  BY <1>4
<1> QED
  BY <1>1, <1>3, <1>4, <1>5, TagFacts DEF BeforeClose, AfterClose

LEMMA BehindIs ==
    ASSUME NEW s \in Texts, Closes(s)
    PROVE  \E o \in Nat : Behind(s, o) /\ StripLeft(AfterClose(s), {Newline}) = Drop(s, o)
<1>1. PICK n \in Nat : n = Len(s)
  BY DEF Texts
<1>2. PICK k \in Nat \ {0} : /\ k = Min(At(CloseTag, s)) /\ k + 2 <= n /\ AfterClose(s) = Drop(s, k + 2)
  BY <1>1, CloseFacts
<1>3. PICK c \in Nat : c = k + 2 /\ c <= n
  BY <1>2
<1>4. PICK a \in Texts : a = Drop(s, c) /\ Len(a) = n - c
  <2>1. c \in 0..Len(s)
    BY <1>1, <1>3
  <2> QED
    BY <1>1, <2>1, Parts DEF Drop
<1>5. PICK d \in 0..Len(a) : Leads(a, {Newline}, d) /\ StripLeft(a, {Newline}) = Drop(a, d)
  BY StripIs DEF Blanks
<1>6. c + d \in Nat /\ c + d <= n /\ c <= c + d /\ (c + d) - c = d /\ d \in Nat /\ d <= n - c
  BY <1>1, <1>3, <1>4, <1>5
<1>7. Drop(a, d) = Drop(s, c + d)
  <2>1. SubSeq(SubSeq(s, c + 1, n), d + 1, n - c) = SubSeq(s, c + d + 1, n)
    BY <1>1, <1>3, <1>6 DEF Texts
  <2> QED
    BY <1>1, <1>4, <2>1 DEF Drop
<1>8. Behind(s, c + d)
  BY <1>1, <1>2, <1>3, <1>4, <1>5, <1>6 DEF Behind
<1> QED
  BY <1>2, <1>3, <1>4, <1>5, <1>6, <1>7, <1>8

\* A beginning closes if it reaches the end of the first closing tag, and then
\* its reasoning and its answer are where those of the text are.
LEMMA Closed ==
    ASSUME NEW s \in Texts, Closes(s), NEW o \in Nat, Behind(s, o), NEW m \in 0..Len(s)
    PROVE  /\ Closes(SubSeq(s, 1, m)) <=> Min(At(CloseTag, s)) + 2 <= m
           /\ Closes(SubSeq(s, 1, m)) =>
                 /\ BeforeClose(SubSeq(s, 1, m)) = BeforeClose(s)
                 /\ o <= m => StripLeft(AfterClose(SubSeq(s, 1, m)), {Newline}) = SubSeq(s, o + 1, m)
                 /\ m <= o => StripLeft(AfterClose(SubSeq(s, 1, m)), {Newline}) = <<>>
<1>1. PICK n \in Nat : n = Len(s)
  BY DEF Texts
<1>2. PICK k \in Nat \ {0} :
         /\ k = Min(At(CloseTag, s)) /\ k \in At(CloseTag, s) /\ k + 2 <= n
         /\ \A i \in At(CloseTag, s) : k <= i
         /\ BeforeClose(s) = SubSeq(s, 1, k - 1)
  BY <1>1, CloseFacts
<1>3. PICK t \in Texts : t = SubSeq(s, 1, m) /\ Len(t) = m
  BY Parts
<1>4. At(CloseTag, t) = {i \in At(CloseTag, s) : i + 3 - 1 <= m}
  <2>1. At(CloseTag, SubSeq(s, 1, m)) = {i \in At(CloseTag, s) : i + Len(CloseTag) - 1 <= m}
    BY ONLY AtBeginning, TagFacts, s \in Texts, m \in 0..Len(s)
  <2>2. Len(CloseTag) = 3
    BY TagFacts
  <2> QED
    BY ONLY <1>3, <2>1, <2>2
<1>5. At(CloseTag, s) \subseteq Nat /\ m \in Nat /\ m <= n
  BY <1>1 DEF At
<1>6. Closes(t) <=> k + 2 <= m
  <2>1. ASSUME k + 2 <= m PROVE k \in At(CloseTag, t)
    BY <1>2, <1>4, <1>5, <2>1
  <2>2. ASSUME NEW i \in At(CloseTag, t) PROVE k + 2 <= m
    <3>1. i \in Nat /\ k <= i /\ i + 3 - 1 <= m
      BY <1>2, <1>4, <1>5
    <3> QED
      BY <1>5, <3>1
  <2> QED
    BY <2>1, <2>2 DEF Closes
<1>7. ASSUME Closes(t)
      PROVE  /\ BeforeClose(t) = BeforeClose(s)
             /\ o <= m => StripLeft(AfterClose(t), {Newline}) = SubSeq(s, o + 1, m)
             /\ m <= o => StripLeft(AfterClose(t), {Newline}) = <<>>
  <2>1. PICK j \in Nat \ {0} :
           /\ j = Min(At(CloseTag, t)) /\ j \in At(CloseTag, t) /\ j + 2 <= m
           /\ \A i \in At(CloseTag, t) : j <= i
           /\ BeforeClose(t) = SubSeq(t, 1, j - 1) /\ AfterClose(t) = Drop(t, j + 2)
    BY <1>3, <1>7, CloseFacts
  <2>2. j = k
    <3>1. k <= j
      BY <1>2, <1>4, <2>1
    <3>2. k \in At(CloseTag, t)
      BY <1>2, <1>4, <1>5, <1>6, <1>7
    <3> QED
      BY <1>2, <2>1, <3>1, <3>2
  <2>3. BeforeClose(t) = BeforeClose(s)
    <3>1. SubSeq(SubSeq(s, 1, m), 1, k - 1) = SubSeq(s, 1, k - 1)
      BY <1>1, <1>2, <1>5, <2>1, <2>2 DEF Texts
    <3> QED
      BY <1>2, <1>3, <2>1, <2>2, <3>1
  <2>4. PICK c \in Nat : c = k + 2 /\ c <= m /\ c <= n
    BY <1>2, <1>5, <1>6, <1>7
  <2>5. PICK a \in Texts : a = Drop(s, c) /\ Len(a) = n - c
    <3>1. c \in 0..Len(s)
      BY <1>1, <2>4
    <3> QED
      BY <1>1, <3>1, Parts DEF Drop
  <2>6. AfterClose(t) = SubSeq(a, 1, m - c)
    <3>1. SubSeq(SubSeq(s, 1, m), c + 1, m) = SubSeq(SubSeq(s, c + 1, n), 1, m - c)
      BY <1>1, <1>5, <2>4 DEF Texts
    <3> QED
      BY <1>1, <1>3, <2>1, <2>2, <2>4, <2>5, <3>1 DEF Drop
  <2>7. PICK d \in Nat : d = o - c /\ c + d = o /\ o <= n /\ Leads(a, {Newline}, d)
    <3>1. o - c \in Nat /\ c + (o - c) = o /\ o <= n
      BY <1>1, <1>2, <2>4 DEF Behind
    <3>2. Leads(a, {Newline}, o - c)
      BY <1>2, <2>4, <2>5 DEF Behind
    <3> QED
      BY <3>1, <3>2
  <2>8. m - c \in 0..Len(a)
    BY <1>5, <2>4, <2>5
  <2>9. /\ m - c <= d => StripLeft(SubSeq(a, 1, m - c), {Newline}) = <<>>
        /\ d <= m - c => StripLeft(SubSeq(a, 1, m - c), {Newline}) = SubSeq(a, d + 1, m - c)
    BY <2>7, <2>8, StripBeginning DEF Blanks
  <2>10. (m - c <= d <=> m <= o) /\ (d <= m - c <=> o <= m)
    BY <1>5, <2>4, <2>7
  <2>11. ASSUME o <= m PROVE SubSeq(a, d + 1, m - c) = SubSeq(s, o + 1, m)
    <3>1. SubSeq(SubSeq(s, c + 1, n), d + 1, m - c) = SubSeq(s, c + d + 1, m)
      BY <1>1, <1>5, <2>4, <2>7, <2>11 DEF Texts
    <3> QED
      BY <1>1, <2>5, <2>7, <3>1 DEF Drop
  <2> QED
    BY <2>3, <2>6, <2>9, <2>10, <2>11
<1> QED
  BY <1>2, <1>3, <1>6, <1>7

\* What the splitter may show of what has come.
LEMMA VisibleFacts ==
    ASSUME NEW S, NEW s \in Seq(S)
    PROVE  /\ Visible(s, TRUE) = s
           /\ Len(s) <= 2 => Visible(s, FALSE) = <<>>
           /\ 2 <= Len(s) => Visible(s, FALSE) = SubSeq(s, 1, Len(s) - 2)
<1>1. Visible(s, TRUE) = s /\ Visible(s, FALSE) = SubSeq(s, 1, Len(s) - 2)
  BY TagFacts DEF Visible
<1>2. Len(s) <= 2 => SubSeq(s, 1, Len(s) - 2) = <<>>
  <2>1. Len(s) - 2 \in Int /\ (Len(s) <= 2 => Len(s) - 2 < 1)
    OBVIOUS
  <2> QED
    BY <2>1, EmptyPart
<1> QED
  BY <1>1, <1>2

-----------------------------------------------------------------------------
(***************************************************************************)
(* One look at a text                                                      *)
(***************************************************************************)
Splitters == [mode : {"sniffing", "reasoning", "content"}, assume : Families, reasoned : Nat, answered : Nat]

\* What is new of one total, or of none.
LEMMA DeltaFacts ==
    ASSUME NEW x, NEW n
    PROVE  /\ Delta({x}, n) = Drop(x, n) /\ SentOf({x}, n) = Len(x)
           /\ Delta({}, n) = <<>> /\ SentOf({}, n) = n
<1>1. (CHOOSE s \in {x} : TRUE) = x
  OBVIOUS
<1>2. {x} # {}
  OBVIOUS
<1> QED
  BY <1>1, <1>2 DEF Delta, SentOf

\* What was emitted, and what is new of a longer beginning of the same text.
LEMMA Advance ==
    ASSUME NEW text \in Texts, NEW i \in Nat, NEW j \in Nat, i <= j, j <= Len(text)
    PROVE  /\ SubSeq(text, 1, i) \o Delta({SubSeq(text, 1, j)}, i) = SubSeq(text, 1, j)
           /\ SentOf({SubSeq(text, 1, j)}, i) = j
<1>1. SubSeq(text, 1, i) \o Drop(SubSeq(text, 1, j), i) = SubSeq(text, 1, j)
  BY Grown DEF Texts
<1>2. Len(SubSeq(text, 1, j)) = j
  BY DEF Texts
<1> QED
  BY <1>1, <1>2, DeltaFacts

\* The text that a family's texts are split into.
Thought(s, family) == IF family = "reasoning" THEN BeforeClose(s) ELSE <<>>
Said(s, family)    == IF family = "reasoning" THEN StripLeft(AfterClose(s), {Newline}) ELSE s

\* WellJudged, of any family.
Judged(s, family) ==
    IF family = "reasoning" THEN Closes(s) /\ ~Opens(s) ELSE ~Closes(s) /\ At(OpenTag, s) = {}

\* A splitter of a family's text: what it has emitted is a beginning.
Splits(sp, s, family, reasoning, content) ==
    /\ sp \in Splitters /\ sp.assume \in {"unknown", family}
    /\ sp.mode \in {"sniffing", IF family = "reasoning" THEN "reasoning" ELSE "content"}
    /\ sp.reasoned <= Len(Thought(s, family)) /\ reasoning = SubSeq(Thought(s, family), 1, sp.reasoned)
    /\ sp.answered <= Len(Said(s, family)) /\ content = SubSeq(Said(s, family), 1, sp.answered)

\* It has held back what may be a tag, of the first m characters.
HeldBack(sp, s, family, m) ==
    /\ sp.reasoned = 0 \/ sp.reasoned + 2 <= m
    /\ sp.answered = 0 \/ sp.answered + 2 + (Len(s) - Len(Said(s, family))) <= m

\* A splitter looks at the first m characters, which are all if the task is done.
Looks(sp, s, family, m, done, reasoning, content) ==
    /\ Judged(s, family) /\ (done => m = Len(s))
    /\ Splits(sp, s, family, reasoning, content) /\ HeldBack(sp, s, family, m)

\* It still holds back what it must, or has emitted all there is.
Shows(sp, s, family, m, done, reasoning, content) ==
    LET e == Emitted(Decided(sp, SubSeq(s, 1, m), done), SubSeq(s, 1, m), done)
    IN  /\ Splits(e.splitter, s, family, reasoning \o e.reasoning, content \o e.content)
        /\ ~done => HeldBack(e.splitter, s, family, m)
        /\ done => reasoning \o e.reasoning = Thought(s, family) /\ content \o e.content = Said(s, family)

\* A text of a family that reasons, told of the family.
LEMMA LookReasoning ==
    ASSUME NEW s \in Texts, NEW m \in 0..Len(s), NEW done \in BOOLEAN, NEW sp, NEW reasoning, NEW content,
           Looks(sp, s, "reasoning", m, done, reasoning, content), sp.mode = "sniffing" => sp.assume = "reasoning"
    PROVE  Shows(sp, s, "reasoning", m, done, reasoning, content)
<1> SUFFICES
    ASSUME Judged(s, "reasoning"), done => m = Len(s),
           Splits(sp, s, "reasoning", reasoning, content), HeldBack(sp, s, "reasoning", m),
           NEW e, e = Emitted(Decided(sp, SubSeq(s, 1, m), done), SubSeq(s, 1, m), done)
    PROVE  /\ Splits(e.splitter, s, "reasoning", reasoning \o e.reasoning, content \o e.content)
           /\ ~done => HeldBack(e.splitter, s, "reasoning", m)
           /\ done => /\ reasoning \o e.reasoning = BeforeClose(s)
                      /\ content \o e.content = StripLeft(AfterClose(s), {Newline})
  BY DEF Looks, Shows, Thought, Said
<1>1. PICK n \in Nat : n = Len(s)
  BY DEF Texts
<1>2. PICK t \in Texts : t = SubSeq(s, 1, m) /\ Len(t) = m
  BY Parts
<1>3. Closes(s) /\ ~Opens(s) /\ m \in Nat /\ m <= n
  BY <1>1 DEF Judged
<1>4. PICK k \in Nat \ {0} :
         /\ k = Min(At(CloseTag, s)) /\ k \in At(CloseTag, s) /\ k + 2 <= n
         /\ BeforeClose(s) = SubSeq(s, 1, k - 1)
  BY <1>1, <1>3, CloseFacts
<1>5. PICK o \in Nat : Behind(s, o) /\ StripLeft(AfterClose(s), {Newline}) = Drop(s, o)
  BY <1>3, BehindIs
<1>6. k + 2 <= o /\ o <= n
  BY <1>1, <1>4, <1>5 DEF Behind
<1>7. PICK v \in Texts : v = Said(s, "reasoning") /\ v = SubSeq(s, o + 1, n) /\ Len(v) = n - o
  <2>1. o \in 0..Len(s)
    BY <1>1, <1>6
  <2>2. SubSeq(s, o + 1, Len(s)) \in Texts /\ Len(SubSeq(s, o + 1, Len(s))) = Len(s) - o
    BY <2>1, Parts
  <2> QED
    BY <1>1, <1>5, <2>2 DEF Drop, Said
<1>8. PICK b \in Texts : b = Thought(s, "reasoning") /\ b = SubSeq(s, 1, k - 1) /\ Len(b) = k - 1
  <2>1. k - 1 \in 0..Len(s)
    BY <1>1, <1>4
  <2> QED
    BY <1>4, <2>1, Parts DEF Thought
<1>9. ~Opens(t)
  BY <1>2, <1>3, OpensBeginning
<1>10. Closes(t) <=> k + 2 <= m
  BY <1>2, <1>3, <1>4, <1>5, Closed
<1>11. done => Closes(t)
  BY <1>1, <1>4, <1>10
<1>12. \A x : ~Misjudged(x, t, done)
  BY <1>11 DEF Misjudged
<1>13. PICK d \in Splitters :
         /\ d = Decided(sp, t, done) /\ d.assume = sp.assume /\ d.reasoned = sp.reasoned /\ d.answered = sp.answered
         /\ d.mode \in {"sniffing", "reasoning"} /\ (done => d.mode = "reasoning")
  <2>1. /\ sp \in Splitters /\ sp.mode \in {"sniffing", "reasoning"} /\ sp.assume \in {"unknown", "reasoning"}
        /\ (sp.mode = "sniffing" => sp.assume = "reasoning")
    BY DEF Splits
  <2>2. PICK mode : /\ Decided(sp, t, done) = [sp EXCEPT !.mode = mode] /\ mode \in {"sniffing", "reasoning"}
                    /\ (done => mode = "reasoning")
    BY <2>1 DEF Decided
  <2>3. [sp EXCEPT !.mode = mode] \in Splitters
    BY <2>1, <2>2 DEF Splitters
  <2>4. /\ [sp EXCEPT !.mode = mode].mode = mode /\ [sp EXCEPT !.mode = mode].assume = sp.assume
        /\ [sp EXCEPT !.mode = mode].reasoned = sp.reasoned /\ [sp EXCEPT !.mode = mode].answered = sp.answered
    BY <2>1 DEF Splitters
  <2> QED
    BY <2>2, <2>3, <2>4
<1>14. PICK i \in Nat, j \in Nat :
         /\ i = sp.reasoned /\ j = sp.answered /\ i <= k - 1 /\ j <= n - o
         /\ reasoning = SubSeq(b, 1, i) /\ content = SubSeq(v, 1, j)
         /\ (i = 0 \/ i + 2 <= m) /\ (j = 0 \/ j + 2 + o <= m)
  <2>1. sp.reasoned \in Nat /\ sp.answered \in Nat
    BY DEF Splits, Splitters
  <2>2. Len(s) - Len(Said(s, "reasoning")) = o
    BY <1>1, <1>6, <1>7
  <2> QED
    BY <1>7, <1>8, <2>1, <2>2 DEF Splits, HeldBack
<1>15. reasoning \in Texts /\ content \in Texts
  <2>1. i \in 0..(k - 1) /\ j \in 0..(n - o)
    BY <1>14
  <2>2. i \in 0..Len(b) /\ j \in 0..Len(v)
    BY <1>7, <1>8, <2>1
  <2> QED
    BY <1>14, <2>2, Parts
<1> DEFINE R == ReasoningTotal(d, t, done)
           C == ContentTotal(d, t, done)
<1>16. PICK r \in Nat : /\ r <= k - 1 /\ (done => r = k - 1) /\ (done \/ r = 0 \/ r + 2 <= m)
                        /\ reasoning \o Delta(R, i) = SubSeq(b, 1, r) /\ SentOf(R, i) = r
  <2>1. CASE d.mode = "sniffing"
    <3>1. R = {}
      BY <2>1 DEF ReasoningTotal
    <3> QED
      BY <1>13, <1>14, <1>15, <2>1, <3>1, DeltaFacts, CatEmpty
  <2>2. CASE d.mode = "reasoning"
    <3> DEFINE part == IF Closes(t) THEN BeforeClose(t) ELSE Visible(t, done)
    <3>1. PICK r \in Nat : /\ r <= k - 1 /\ (done => r = k - 1) /\ (done \/ r = 0 \/ r + 2 <= m)
                           /\ i <= r /\ part = SubSeq(b, 1, r) /\ r <= n
      <4>1. CASE Closes(t)
        <5>1. BeforeClose(t) = b
          BY <1>2, <1>3, <1>5, <1>8, <4>1, Closed DEF Thought
        <5>2. SubSeq(b, 1, k - 1) = b
          BY <1>8, SubSeqAll DEF Texts
        <5>3. k - 1 \in Nat /\ k - 1 + 2 <= m /\ k - 1 <= n
          BY <1>3, <1>4, <1>10, <4>1
        <5> QED
          BY <1>14, <4>1, <5>1, <5>2, <5>3
      <4>2. CASE ~Closes(t) /\ m <= 2
        <5>1. ~done /\ part = <<>>
          BY <1>2, <1>11, <4>2, VisibleFacts DEF Texts
        <5>2. SubSeq(b, 1, 0) = <<>> /\ i = 0
          BY <1>3, <1>14, <4>2, EmptyPart DEF Texts
        <5> HIDE DEF part
        <5>3. part = SubSeq(b, 1, 0)
          BY <5>1, <5>2
        <5>4. 0 <= k - 1 /\ 0 <= n /\ i <= 0 /\ 0 \in Nat
          BY <1>1, <1>4, <5>2
        <5> QED
          BY <5>1, <5>3, <5>4
      <4>3. CASE ~Closes(t) /\ ~(m <= 2)
        <5>1. ~done /\ part = SubSeq(t, 1, m - 2)
          <6>1. done = FALSE /\ part = Visible(t, done)
            BY <1>11, <4>3
          <6>2. t \in Seq(Chars) /\ 2 <= Len(t) /\ Len(t) - 2 = m - 2
            BY <1>2, <1>3, <4>3 DEF Texts
          <6>3. Visible(t, FALSE) = SubSeq(t, 1, m - 2)
            BY <6>2, VisibleFacts
          <6> QED
            BY <6>1, <6>3
        <5>2. m - 2 \in Nat /\ m - 2 <= k - 1 /\ i <= m - 2 /\ m - 2 + 2 <= m /\ m - 2 <= n
          <6>1. m \in Nat /\ n \in Nat /\ k \in Nat /\ i \in Nat /\ ~(k + 2 <= m) /\ ~(m <= 2) /\ m <= n
            BY <1>1, <1>3, <1>4, <1>10, <1>14, <4>3
          <6>2. i = 0 \/ i + 2 <= m
            BY <1>14
          <6> QED
            BY ONLY <6>1, <6>2
        <5>3. SubSeq(SubSeq(s, 1, m), 1, m - 2) = SubSeq(SubSeq(s, 1, k - 1), 1, m - 2)
          BY <1>1, <1>3, <1>4, <5>2 DEF Texts
        <5> QED
          BY <1>2, <1>8, <5>1, <5>2, <5>3
      <4> QED
        BY <4>1, <4>2, <4>3
    <3>2. part = SubSeq(s, 1, r)
      <4>1. SubSeq(SubSeq(s, 1, k - 1), 1, r) = SubSeq(s, 1, r)
        BY <1>1, <1>4, <3>1 DEF Texts
      <4> QED
        BY <1>8, <3>1, <4>1
    <3>3. ~Opens(part)
      <4>1. r \in 0..Len(s)
        BY <1>1, <3>1
      <4> QED
        BY <1>3, <3>2, <4>1, OpensBeginning
    <3>4. R = {StripOpen(part)}
      BY <1>12, <2>2 DEF ReasoningTotal
    <3>5. StripOpen(part) = part
      BY <3>3 DEF StripOpen
    <3>6. R = {SubSeq(b, 1, r)}
      BY <3>1, <3>4, <3>5
    <3>7. r <= Len(b)
      BY <1>8, <3>1
    <3>8. SubSeq(b, 1, i) \o Delta({SubSeq(b, 1, r)}, i) = SubSeq(b, 1, r) /\ SentOf({SubSeq(b, 1, r)}, i) = r
      BY <3>1, <3>7, Advance
    <3> HIDE DEF part, R
    <3> QED
      BY <1>14, <3>1, <3>6, <3>8
  <2> QED
    BY <1>13, <2>1, <2>2
<1>17. PICK c \in Nat : /\ c <= n - o /\ (done => c = n - o) /\ (done \/ c = 0 \/ c + 2 + o <= m)
                        /\ content \o Delta(C, j) = SubSeq(v, 1, c) /\ SentOf(C, j) = c
  <2>1. CASE d.mode = "sniffing" \/ ~Closes(t)
    <3>1. C = {} /\ ~done
      BY <1>11, <1>12, <1>13, <2>1 DEF ContentTotal
    <3> QED
      BY <1>14, <1>15, <3>1, DeltaFacts, CatEmpty
  <2>2. CASE d.mode = "reasoning" /\ Closes(t)
    <3> DEFINE part == Visible(StripLeft(AfterClose(t), {Newline}), done)
    <3>1. /\ o <= m => StripLeft(AfterClose(t), {Newline}) = SubSeq(s, o + 1, m)
          /\ m <= o => StripLeft(AfterClose(t), {Newline}) = <<>>
      BY <1>2, <1>3, <1>5, <2>2, Closed
    <3>2. PICK c \in Nat : /\ c <= n - o /\ (done => c = n - o) /\ (done \/ c = 0 \/ c + 2 + o <= m)
                           /\ j <= c /\ part = SubSeq(v, 1, c)
      <4>1. CASE done
        <5>1. m = n /\ o <= m
          BY <1>1, <1>6, <4>1
        <5>2. part = v
          BY <1>7, <3>1, <4>1, <5>1, VisibleFacts DEF Texts
        <5>3. SubSeq(v, 1, n - o) = v
          BY <1>7, SubSeqAll DEF Texts
        <5> HIDE DEF part
        <5>4. n - o \in Nat /\ n - o <= n - o /\ j <= n - o
          BY <1>6, <1>14
        <5>5. part = SubSeq(v, 1, n - o)
          BY <5>2, <5>3
        <5> QED
          BY <4>1, <5>4, <5>5
      <4>2. CASE ~done /\ m <= o + 2
        <5>1. part = <<>>
          <6>1. CASE o <= m
            <7>1. /\ SubSeq(s, o + 1, m) \in Seq(Chars)
                  /\ Len(SubSeq(s, o + 1, m)) = m - o
              BY <1>1, <1>3, <6>1 DEF Texts
            <7>2. m - o <= 2
              BY <1>3, <4>2
            <7> QED
              BY <3>1, <4>2, <6>1, <7>1, <7>2, VisibleFacts
          <6>2. CASE m <= o
            <7>1. <<>> \in Seq(Chars) /\ Len(<<>>) <= 2
              OBVIOUS
            <7> QED
              BY <3>1, <4>2, <6>2, <7>1, VisibleFacts
          <6> QED
            BY <1>3, <6>1, <6>2
        <5>2. SubSeq(v, 1, 0) = <<>> /\ j = 0
          <6>1. j = 0
            BY <1>3, <1>14, <4>2
          <6>2. SubSeq(v, 1, 0) = <<>>
            BY EmptyPart DEF Texts
          <6> QED
            BY <6>1, <6>2
        <5>3. 0 <= n - o
          BY <1>6
        <5> QED
          BY <4>2, <5>1, <5>2, <5>3
      <4>3. CASE ~done /\ ~(m <= o + 2)
        <5>1. PICK q \in Nat : q = m - o - 2 /\ q + 2 + o <= m /\ q <= n - o /\ j <= q /\ 2 <= m - o
          <6>1. m - o - 2 \in Nat /\ m - o - 2 + 2 + o <= m /\ m - o - 2 <= n - o /\ j <= m - o - 2 /\ 2 <= m - o
            BY <1>3, <1>6, <1>14, <4>3
          <6> QED
            BY <6>1
        <5>2. PICK u \in Seq(Chars) : u = SubSeq(s, o + 1, m) /\ Len(u) = m - o
          <6>1. SubSeq(s, o + 1, m) \in Seq(Chars) /\ Len(SubSeq(s, o + 1, m)) = m - o
            BY <1>1, <1>3, <4>3 DEF Texts
          <6> QED
            BY <6>1
        <5>3. part = SubSeq(u, 1, q)
          <6>1. StripLeft(AfterClose(t), {Newline}) = u
            <7>1. o <= m
              BY <1>3, <4>3
            <7> QED
              BY <3>1, <5>2, <7>1
          <6> QED
            BY <4>3, <5>1, <5>2, <6>1, VisibleFacts
        <5>4. SubSeq(SubSeq(s, o + 1, m), 1, q) = SubSeq(SubSeq(s, o + 1, n), 1, q)
          BY <1>1, <1>3, <1>6, <5>1 DEF Texts
        <5> HIDE DEF part
        <5> QED
          BY <1>7, <4>3, <5>1, <5>2, <5>3, <5>4
      <4> QED
        BY <4>1, <4>2, <4>3
    <3>3. C = {part}
      BY <1>12, <2>2 DEF ContentTotal
    <3>4. c <= Len(v)
      BY <1>7, <3>2
    <3>5. SubSeq(v, 1, j) \o Delta({SubSeq(v, 1, c)}, j) = SubSeq(v, 1, c) /\ SentOf({SubSeq(v, 1, c)}, j) = c
      BY <3>2, <3>4, Advance
    <3> HIDE DEF part, C
    <3> QED
      BY <1>14, <3>2, <3>3, <3>5
  <2> QED
    BY <1>13, <2>1, <2>2
<1>18. PICK x \in Splitters : /\ x = e.splitter /\ x.mode = d.mode /\ x.assume = d.assume
                              /\ x.reasoned = r /\ x.answered = c
  <2>1. e = Emitted(d, t, done)
    BY <1>2, <1>13
  <2>2. e.splitter = [d EXCEPT !.mode = d.mode, !.reasoned = r, !.answered = c]
    <3>1. Emitted(d, t, done).splitter =
            [d EXCEPT !.mode = IF Misjudged(d, t, done) THEN "content" ELSE d.mode,
                      !.reasoned = SentOf(R, d.reasoned), !.answered = SentOf(C, d.answered)]
      BY DEF Emitted
    <3>2. (IF Misjudged(d, t, done) THEN "content" ELSE d.mode) = d.mode
      BY <1>12
    <3> HIDE DEF R, C
    <3>3. SentOf(R, d.reasoned) = r /\ SentOf(C, d.answered) = c
      BY <1>13, <1>14, <1>16, <1>17
    <3> QED
      BY <2>1, <3>1, <3>2, <3>3
  <2>3. [d EXCEPT !.mode = d.mode, !.reasoned = r, !.answered = c] \in Splitters
    BY DEF Splitters
  <2> HIDE DEF R, C
  <2> QED
    BY <2>2, <2>3 DEF Splitters
<1>19. e.reasoning = Delta(R, i) /\ e.content = Delta(C, j)
  BY <1>2, <1>13, <1>14 DEF Emitted
<1>20. reasoning \o e.reasoning = SubSeq(b, 1, r) /\ content \o e.content = SubSeq(v, 1, c)
  <2> HIDE DEF R, C
  <2> QED
    BY <1>16, <1>17, <1>19
<1> HIDE DEF R, C
<1>21. Splits(e.splitter, s, "reasoning", reasoning \o e.reasoning, content \o e.content)
  <2>1. d.assume \in {"unknown", "reasoning"}
    BY <1>13 DEF Splits
  <2> QED
    BY <1>7, <1>8, <1>13, <1>16, <1>17, <1>18, <1>20, <2>1 DEF Splits
<1>22. ~done => HeldBack(e.splitter, s, "reasoning", m)
  <2>1. Len(s) - Len(Said(s, "reasoning")) = o
    BY <1>1, <1>6, <1>7
  <2> QED
    BY <1>16, <1>17, <1>18, <2>1 DEF HeldBack
<1>23. done => /\ reasoning \o e.reasoning = BeforeClose(s)
               /\ content \o e.content = StripLeft(AfterClose(s), {Newline})
  <2>1. SubSeq(b, 1, k - 1) = b /\ SubSeq(v, 1, n - o) = v
    BY <1>7, <1>8, SubSeqAll DEF Texts
  <2>2. b = BeforeClose(s) /\ v = StripLeft(AfterClose(s), {Newline})
    BY <1>7, <1>8 DEF Thought, Said
  <2> QED
    BY <1>16, <1>17, <1>20, <2>1, <2>2
<1> QED
  BY <1>21, <1>22, <1>23

\* A text without tags, of another family or of one that is not known.
LEMMA LookPlain ==
    ASSUME NEW s \in Texts, NEW family \in {"other", "unknown"}, NEW m \in 0..Len(s), NEW done \in BOOLEAN,
           NEW sp, NEW reasoning, NEW content, Looks(sp, s, family, m, done, reasoning, content)
    PROVE  Shows(sp, s, family, m, done, reasoning, content)
<1> SUFFICES
    ASSUME Judged(s, family), done => m = Len(s),
           Splits(sp, s, family, reasoning, content), HeldBack(sp, s, family, m),
           NEW e, e = Emitted(Decided(sp, SubSeq(s, 1, m), done), SubSeq(s, 1, m), done)
    PROVE  /\ Splits(e.splitter, s, family, reasoning \o e.reasoning, content \o e.content)
           /\ ~done => HeldBack(e.splitter, s, family, m)
           /\ done => reasoning \o e.reasoning = <<>> /\ content \o e.content = s
  BY DEF Looks, Shows, Thought, Said
<1>1. PICK n \in Nat : n = Len(s)
  BY DEF Texts
<1>2. PICK t \in Texts : t = SubSeq(s, 1, m) /\ Len(t) = m
  BY Parts
<1>3. ~Closes(s) /\ At(OpenTag, s) = {} /\ m \in Nat /\ m <= n
  BY <1>1 DEF Judged
<1>4. ASSUME NEW q \in 0..n
      PROVE  /\ ~Closes(SubSeq(s, 1, q)) /\ ~Opens(SubSeq(s, 1, q))
             /\ Without(CloseTag, Without(OpenTag, SubSeq(s, 1, q))) = SubSeq(s, 1, q)
  <2>1. At(CloseTag, SubSeq(s, 1, q)) = {} /\ At(OpenTag, SubSeq(s, 1, q)) = {}
    BY <1>1, <1>3, AtBeginning, TagFacts DEF Closes
  <2>2. SubSeq(s, 1, q) \in Texts
    BY <1>1, Parts
  <2>3. \E d : Leads(SubSeq(s, 1, q), Blanks, d)
    BY <2>2, StripIs
  <2> QED
    BY <2>1, <2>2, <2>3, WithoutNone, OpensIs DEF Closes
<1>5. ~Closes(t) /\ ~Opens(t)
  <2>1. m \in 0..n
    BY <1>1
  <2> QED
    BY <1>2, <1>4, <2>1
<1>6. Thought(s, family) = <<>> /\ Said(s, family) = s /\ Len(<<>>) = 0
  BY DEF Thought, Said
<1>7. PICK j \in Nat :
         /\ j = sp.answered /\ sp.reasoned = 0 /\ j <= n /\ reasoning = <<>> /\ content = SubSeq(s, 1, j)
         /\ (j = 0 \/ j + 2 <= m)
  <2>1. sp.reasoned \in Nat /\ sp.answered \in Nat /\ sp.reasoned <= 0
    BY <1>6 DEF Splits, Splitters
  <2>2. SubSeq(<<>>, 1, 0) = <<>>
    OBVIOUS
  <2>3. Len(s) - Len(Said(s, family)) = 0
    BY <1>1, <1>6
  <2>4. sp.answered = 0 \/ sp.answered + 2 <= m
    BY <2>1, <2>3 DEF HeldBack
  <2>5. sp.reasoned = 0
    BY <2>1
  <2> QED
    BY <1>1, <1>6, <2>1, <2>2, <2>4, <2>5 DEF Splits
<1>8. PICK d \in Splitters :
         /\ d = Decided(sp, t, done) /\ d.assume = sp.assume /\ d.reasoned = 0 /\ d.answered = j
         /\ d.mode \in {"sniffing", "content"} /\ (done => d.mode = "content")
  <2>1. sp \in Splitters /\ sp.mode \in {"sniffing", "content"} /\ sp.assume # "reasoning"
    BY DEF Splits
  <2>2. PICK mode : /\ Decided(sp, t, done) = [sp EXCEPT !.mode = mode] /\ mode \in {"sniffing", "content"}
                    /\ (done => mode = "content")
    BY <1>5, <2>1 DEF Decided
  <2>3. [sp EXCEPT !.mode = mode] \in Splitters
    BY <2>1, <2>2 DEF Splitters
  <2>4. /\ [sp EXCEPT !.mode = mode].mode = mode /\ [sp EXCEPT !.mode = mode].assume = sp.assume
        /\ [sp EXCEPT !.mode = mode].reasoned = sp.reasoned /\ [sp EXCEPT !.mode = mode].answered = sp.answered
    BY <2>1 DEF Splitters
  <2> QED
    BY <1>7, <2>2, <2>3, <2>4
<1> DEFINE R == ReasoningTotal(d, t, done)
           C == ContentTotal(d, t, done)
<1>9. R = {}
  BY <1>8 DEF ReasoningTotal
<1>10. content \in Texts
  <2>1. j \in 0..Len(s)
    BY <1>1, <1>7
  <2> QED
    BY <1>7, <2>1, Parts
<1>11. PICK c \in Nat : /\ c <= n /\ (done => c = n) /\ (done \/ c = 0 \/ c + 2 <= m)
                        /\ content \o Delta(C, j) = SubSeq(s, 1, c) /\ SentOf(C, j) = c
  <2>1. CASE d.mode = "sniffing"
    <3>1. C = {} /\ ~done
      BY <1>8, <2>1 DEF ContentTotal
    <3> QED
      BY <1>7, <1>10, <3>1, DeltaFacts, CatEmpty
  <2>2. CASE d.mode = "content"
    <3>1. PICK c \in Nat : /\ c <= n /\ (done => c = n) /\ (done \/ c = 0 \/ c + 2 <= m)
                           /\ j <= c /\ Visible(t, done) = SubSeq(s, 1, c)
      <4>1. CASE done
        <5>1. Visible(t, done) = t /\ m = n
          BY <1>1, <1>2, <4>1, VisibleFacts DEF Texts
        <5>2. Visible(t, done) = SubSeq(s, 1, n) /\ n <= n
          BY <1>2, <5>1
        <5> QED
          BY <1>7, <4>1, <5>2
      <4>2. CASE ~done /\ m <= 2
        <5>1. Visible(t, done) = <<>>
          BY <1>2, <4>2, VisibleFacts DEF Texts
        <5>2. SubSeq(s, 1, 0) = <<>>
          BY EmptyPart DEF Texts
        <5>3. j = 0
          BY <1>3, <1>7, <4>2
        <5> QED
          BY <1>1, <4>2, <5>1, <5>2, <5>3
      <4>3. CASE ~done /\ ~(m <= 2)
        <5>1. m - 2 \in Nat /\ m - 2 <= n /\ m - 2 + 2 <= m /\ j <= m - 2
          BY <1>3, <1>7, <4>3
        <5>2. Visible(t, done) = SubSeq(t, 1, m - 2)
          <6>1. t \in Seq(Chars) /\ 2 <= Len(t) /\ Len(t) - 2 = m - 2
            BY <1>2, <1>3, <4>3 DEF Texts
          <6> QED
            BY <4>3, <6>1, VisibleFacts
        <5>3. SubSeq(SubSeq(s, 1, m), 1, m - 2) = SubSeq(s, 1, m - 2)
          BY <1>1, <1>3, <5>1 DEF Texts
        <5> QED
          BY <1>2, <4>3, <5>1, <5>2, <5>3
      <4> QED
        BY <4>1, <4>2, <4>3
    <3>2. C = {Without(CloseTag, Without(OpenTag, Visible(t, done)))}
      BY <2>2 DEF ContentTotal
    <3>3. c \in 0..n
      BY <3>1
    <3>4. Without(CloseTag, Without(OpenTag, SubSeq(s, 1, c))) = SubSeq(s, 1, c)
      BY <1>4, <3>3
    <3>5. C = {SubSeq(s, 1, c)}
      BY <3>1, <3>2, <3>4
    <3>6. SubSeq(s, 1, j) \o Delta({SubSeq(s, 1, c)}, j) = SubSeq(s, 1, c) /\ SentOf({SubSeq(s, 1, c)}, j) = c
      BY <1>1, <3>1, Advance
    <3> HIDE DEF C
    <3> QED
      BY <1>7, <3>1, <3>5, <3>6
  <2> QED
    BY <1>8, <2>1, <2>2
<1>12. e = Emitted(d, t, done)
  BY <1>2, <1>8
<1>13. PICK x \in Splitters : /\ x = e.splitter /\ x.mode = d.mode /\ x.assume = d.assume
                              /\ x.reasoned = 0 /\ x.answered = c
  <2>1. e.splitter = [d EXCEPT !.mode = d.mode, !.reasoned = 0, !.answered = c]
    <3>1. Emitted(d, t, done).splitter =
            [d EXCEPT !.mode = IF Misjudged(d, t, done) THEN "content" ELSE d.mode,
                      !.reasoned = SentOf(R, d.reasoned), !.answered = SentOf(C, d.answered)]
      BY DEF Emitted
    <3>2. (IF Misjudged(d, t, done) THEN "content" ELSE d.mode) = d.mode
      BY <1>8 DEF Misjudged
    <3> HIDE DEF R, C
    <3>3. SentOf(R, d.reasoned) = 0 /\ SentOf(C, d.answered) = c
      BY <1>8, <1>9, <1>11, DeltaFacts
    <3> QED
      BY <1>12, <3>1, <3>2, <3>3
  <2>2. [d EXCEPT !.mode = d.mode, !.reasoned = 0, !.answered = c] \in Splitters
    BY DEF Splitters
  <2> HIDE DEF R, C
  <2> QED
    BY <2>1, <2>2 DEF Splitters
<1>14. e.reasoning = <<>> /\ e.content = Delta(C, j)
  <2>1. Emitted(d, t, done).reasoning = Delta(R, d.reasoned) /\ Emitted(d, t, done).content = Delta(C, d.answered)
    BY DEF Emitted
  <2> HIDE DEF R, C
  <2> QED
    BY <1>8, <1>9, <1>12, <2>1, DeltaFacts
<1> HIDE DEF R, C
<1>15. reasoning \o e.reasoning = <<>> /\ content \o e.content = SubSeq(s, 1, c)
  <2>1. <<>> \o <<>> = <<>>
    OBVIOUS
  <2> QED
    BY <1>7, <1>11, <1>14, <2>1
<1>16. Splits(e.splitter, s, family, reasoning \o e.reasoning, content \o e.content)
  <2>1. d.assume \in {"unknown", family}
    BY <1>8 DEF Splits
  <2>2. SubSeq(<<>>, 1, 0) = <<>> /\ 0 <= 0
    OBVIOUS
  <2>3. family # "reasoning"
    OBVIOUS
  <2> QED
    BY <1>1, <1>6, <1>8, <1>11, <1>13, <1>15, <2>1, <2>2, <2>3 DEF Splits
<1>17. ~done => HeldBack(e.splitter, s, family, m)
  <2>1. Len(s) - Len(Said(s, family)) = 0
    BY <1>1, <1>6
  <2> QED
    BY <1>11, <1>13, <2>1 DEF HeldBack
<1>18. done => content \o e.content = s
  <2>1. SubSeq(s, 1, n) = s
    BY <1>1, SubSeqAll DEF Texts
  <2> QED
    BY <1>11, <1>15, <2>1
<1> QED
  BY <1>15, <1>16, <1>17, <1>18

-----------------------------------------------------------------------------
(***************************************************************************)
(* What split_think makes of the whole                                     *)
(***************************************************************************)
LEMMA SplitIs ==
    ASSUME NEW s \in Texts, NEW family \in Families, Judged(s, family)
    PROVE  /\ Thought(s, family) \in Texts /\ Said(s, family) \in Texts
           /\ Solid(Split(s).reasoning) = Solid(Thought(s, family))
           /\ Split(s).content = Said(s, family)
<1>1. PICK n \in Nat : n = Len(s)
  BY DEF Texts
<1>2. CASE family = "reasoning"
  <2>1. Closes(s) /\ ~Opens(s)
    BY <1>2 DEF Judged
  <2>2. PICK k \in Nat \ {0} : k + 2 <= n /\ BeforeClose(s) = SubSeq(s, 1, k - 1) /\ AfterClose(s) = Drop(s, k + 2)
    BY <1>1, <2>1, CloseFacts
  <2>3. k - 1 \in 0..Len(s) /\ k + 2 \in 0..Len(s)
    BY <1>1, <2>2
  <2>4. PICK b \in Texts : b = BeforeClose(s) /\ ~Opens(b)
    BY <2>1, <2>2, <2>3, Parts, OpensBeginning
  <2>5. AfterClose(s) \in Texts
    <3>1. SubSeq(s, k + 2 + 1, Len(s)) \in Texts
      BY <2>3, Parts
    <3> QED
      BY <2>2, <3>1 DEF Drop
  <2>6. StripLeft(AfterClose(s), {Newline}) \in Texts
    BY <2>5, StripType DEF Blanks
  <2>7. Split(s).reasoning = StripNewlines(StripLeft(b, Blanks)) /\ Split(s).content = StripLeft(AfterClose(s), {Newline})
    BY <2>1, <2>4 DEF Split, Opened
  <2>8. StripLeft(b, Blanks) \in Texts /\ Solid(StripLeft(b, Blanks)) = Solid(b)
    BY StripType, SolidStrip
  <2> QED
    BY <1>2, <2>4, <2>6, <2>7, <2>8, SolidNewlines DEF Thought, Said
<1>3. CASE family # "reasoning"
  <2>1. ~Closes(s) /\ At(OpenTag, s) = {}
    BY <1>3 DEF Judged
  <2>2. ~Opens(s)
    BY <2>1, StripIs, OpensIs
  <2>3. <<>> \in Texts
    BY DEF Texts
  <2> QED
    BY <1>3, <2>1, <2>2, <2>3 DEF Split, Thought, Said
<1> QED
  BY <1>2, <1>3

\* A beginning is one without its blanks, too.
LEMMA SolidBeginning ==
    ASSUME NEW s \in Texts, NEW n \in 0..Len(s)
    PROVE  IsPrefix(Solid(SubSeq(s, 1, n)), Solid(s))
<1>1. PICK a \in Texts, b \in Texts : a = SubSeq(s, 1, n) /\ s = a \o b
  BY Parts
<1>2. Solid(s) = Solid(a) \o Solid(b) /\ Solid(a) \in Texts /\ Solid(b) \in Texts
  BY <1>1, SolidCat, SolidType
<1>3. PICK x \in Texts, y \in Texts : x = Solid(a) /\ y = Solid(b)
  BY <1>2
<1>4. IsPrefix(x, x \o y)
  BY DEF IsPrefix, Texts
<1> QED
  BY <1>1, <1>2, <1>3, <1>4

-----------------------------------------------------------------------------
(***************************************************************************)
(* The stream                                                              *)
(***************************************************************************)
\* A queued task that nobody has worked on has been shown as nothing.
Unseen ==
    Current = 0 /\ task.status = "queued" =>
        /\ task.family = "unknown" /\ stream.phase # "ended"
        /\ stream.splitter = NewSplitter /\ stream.reasoning = <<>> /\ stream.content = <<>>

\* The stream has emitted beginnings of what its task's text is split into, of
\* the text that has come.
Followed ==
    Current = 1 /\ task.status \in {"running", "succeeded"} /\ AsSent /\ Judged(attempts[1].text, task.family) =>
        /\ Splits(stream.splitter, attempts[1].text, task.family, stream.reasoning, stream.content)
        /\ stream.phase = "open" =>
               /\ HeldBack(stream.splitter, attempts[1].text, task.family, attempts[1].sent)
               /\ progress = IF task.status = "running" THEN SubSeq(attempts[1].text, 1, attempts[1].sent) ELSE <<>>
        /\ stream.phase = "ended" =>
               /\ task.status = "succeeded"
               /\ stream.reasoning = Thought(attempts[1].text, task.family)
               /\ stream.content = Said(attempts[1].text, task.family)

StreamShape ==
    stream = [phase |-> stream.phase, splitter |-> stream.splitter,
              reasoning |-> stream.reasoning, content |-> stream.content]

StreamInv == StreamShape /\ Unseen /\ Followed

LEMMA LookFacts ==
    ASSUME NEW s \in Texts, NEW family \in Families, NEW m \in 0..Len(s), NEW done \in BOOLEAN,
           NEW sp, NEW reasoning, NEW content, Looks(sp, s, family, m, done, reasoning, content)
    PROVE  Shows(WithFamily(sp, family), s, family, m, done, reasoning, content)
<1> USE DEF Looks
<1>1. sp \in Splitters /\ sp.assume \in {"unknown", family} /\ sp.mode \in {"sniffing", "reasoning", "content"}
  BY DEF Splits, Splitters
<1>2. PICK known \in Splitters :
         /\ known = WithFamily(sp, family) /\ known.mode = sp.mode /\ known.assume \in {"unknown", family}
         /\ known.reasoned = sp.reasoned /\ known.answered = sp.answered
         /\ sp.mode = "sniffing" => known.assume = family
  <2>1. CASE sp.mode = "sniffing" /\ sp.assume = "unknown"
    <3>1. WithFamily(sp, family) = [sp EXCEPT !.assume = family]
      BY <2>1 DEF WithFamily
    <3>2. [sp EXCEPT !.assume = family] \in Splitters
      BY <1>1 DEF Splitters
    <3>3. /\ [sp EXCEPT !.assume = family].mode = sp.mode /\ [sp EXCEPT !.assume = family].assume = family
          /\ [sp EXCEPT !.assume = family].reasoned = sp.reasoned /\ [sp EXCEPT !.assume = family].answered = sp.answered
      BY <1>1 DEF Splitters
    <3> QED
      BY <3>1, <3>2, <3>3
  <2>2. CASE ~(sp.mode = "sniffing" /\ sp.assume = "unknown")
    <3>1. WithFamily(sp, family) = sp
      BY <2>2 DEF WithFamily
    <3> QED
      BY <1>1, <2>2, <3>1
  <2> QED
    BY <2>1, <2>2
<1>3. Looks(known, s, family, m, done, reasoning, content)
  BY <1>2 DEF Splits, HeldBack
<1> HIDE DEF Looks
<1>4. Shows(known, s, family, m, done, reasoning, content)
  <2>1. CASE family = "reasoning"
    <3>1. known.mode = "sniffing" => known.assume = "reasoning"
      BY <1>2, <2>1
    <3> QED
      BY <1>3, <2>1, <3>1, LookReasoning
  <2>2. CASE family # "reasoning"
    <3>1. family \in {"other", "unknown"}
      BY <2>2 DEF Families
    <3> QED
      BY <1>3, <3>1, LookPlain
  <2> QED
    BY <2>1, <2>2
<1> QED
  BY <1>2, <1>4

\* A look at nothing shows nothing.
LEMMA LookAtNothing == Emitted(Decided(NewSplitter, <<>>, FALSE), <<>>, FALSE) =
                           [reasoning |-> <<>>, content |-> <<>>, splitter |-> NewSplitter]
<1>1. <<>> \in Texts /\ Len(<<>>) = 0
  BY DEF Texts
<1>2. At(OpenTag, <<>>) = {} /\ At(CloseTag, <<>>) = {}
  BY <1>1, TagFacts DEF At
<1>3. ~Opens(<<>>) /\ ~Closes(<<>>)
  BY <1>1, <1>2, StripIs, OpensIs DEF Closes
<1>4. ~(0 >= SniffChars)
  BY StreamSplitterAssumption DEF StreamSplitterAssumption
<1>5. Decided(NewSplitter, <<>>, FALSE) = [NewSplitter EXCEPT !.mode = "sniffing"]
  BY <1>1, <1>3, <1>4 DEF Decided, NewSplitter
<1>6. [NewSplitter EXCEPT !.mode = "sniffing"] = NewSplitter
  BY DEF NewSplitter
<1>7. ReasoningTotal(NewSplitter, <<>>, FALSE) = {} /\ ContentTotal(NewSplitter, <<>>, FALSE) = {}
  BY DEF ReasoningTotal, ContentTotal, NewSplitter
<1>8. ~Misjudged(NewSplitter, <<>>, FALSE)
  BY DEF Misjudged
<1>9. Emitted(NewSplitter, <<>>, FALSE) =
        [reasoning |-> Delta({}, 0), content |-> Delta({}, 0),
         splitter |-> [NewSplitter EXCEPT !.mode = "sniffing", !.reasoned = SentOf({}, 0), !.answered = SentOf({}, 0)]]
  BY <1>7, <1>8 DEF Emitted, NewSplitter
<1>10. [NewSplitter EXCEPT !.mode = "sniffing", !.reasoned = 0, !.answered = 0] = NewSplitter
  <2>1. NewSplitter = [mode |-> "sniffing", assume |-> "unknown", reasoned |-> 0, answered |-> 0]
    BY DEF NewSplitter
  <2>2. [NewSplitter EXCEPT !.mode = "sniffing"] = NewSplitter
    BY <2>1
  <2>3. [NewSplitter EXCEPT !.reasoned = 0] = NewSplitter
    BY <2>1
  <2>4. [NewSplitter EXCEPT !.answered = 0] = NewSplitter
    BY <2>1
  <2> QED
    BY <2>2, <2>3, <2>4
<1> QED
  BY <1>5, <1>6, <1>9, <1>10, DeltaFacts

LEMMA SplitsFresh ==
    ASSUME NEW s \in Texts, NEW family \in Families, Judged(s, family), NEW m \in Nat
    PROVE  Splits(NewSplitter, s, family, <<>>, <<>>) /\ HeldBack(NewSplitter, s, family, m)
<1>1. Thought(s, family) \in Seq(Chars) /\ Said(s, family) \in Seq(Chars)
  BY SplitIs DEF Texts
<1>2. /\ SubSeq(Thought(s, family), 1, 0) = <<>> /\ SubSeq(Said(s, family), 1, 0) = <<>>
      /\ 0 <= Len(Thought(s, family)) /\ 0 <= Len(Said(s, family))
  BY <1>1, EmptyPart
<1>3. /\ NewSplitter \in Splitters /\ NewSplitter.mode = "sniffing" /\ NewSplitter.assume = "unknown"
      /\ NewSplitter.reasoned = 0 /\ NewSplitter.answered = 0
  BY DEF NewSplitter, Splitters, Families
<1> QED
  BY <1>2, <1>3 DEF Splits, HeldBack

\* With more of the text there, what was held back still is.
LEMMA HeldLonger ==
    ASSUME NEW s \in Texts, NEW family \in Families, Judged(s, family), NEW m \in Nat, NEW n \in Nat, m <= n,
           NEW sp \in Splitters, HeldBack(sp, s, family, m)
    PROVE  HeldBack(sp, s, family, n)
<1>1. Said(s, family) \in Seq(Chars) /\ s \in Seq(Chars)
  BY SplitIs DEF Texts
<1>2. Len(s) - Len(Said(s, family)) \in Int
  BY <1>1
<1>3. sp.reasoned \in Nat /\ sp.answered \in Nat
  BY DEF Splitters
<1> QED
  BY <1>2, <1>3 DEF HeldBack

-----------------------------------------------------------------------------
LEMMA StreamInitially == Init => StreamInv
<1>1. Len(<<>>) = 0
  OBVIOUS
<1> QED
  BY <1>1 DEF Init, StreamInv, StreamShape, Unseen, Followed, Current, NewSplitter

LEMMA AssignStream ==
    ASSUME TableInv, StreamInv, NEW work, work \in Work[Current + 1], Current < MaxAttempts, Assign(work)
    PROVE  StreamInv'
<1>1. /\ TableTypes' /\ task.status = "queued" /\ task'.status = "running"
      /\ Len(attempts') = Len(attempts) + 1 /\ progress' = progress /\ attempts'[Len(attempts) + 1].sent = 0
  BY AssignFacts DEF TableInv
<1>2. stream' = stream /\ Len(attempts) \in Nat
  BY DEF Assign, TableInv, TableTypes
<1>3. StreamShape'
  BY <1>2 DEF StreamInv, StreamShape
<1>4. Unseen'
  BY <1>1 DEF Unseen
<1>5. Followed'
  <2> SUFFICES ASSUME Current' = 1, Judged(attempts'[1].text, task'.family)
               PROVE  /\ Splits(stream'.splitter, attempts'[1].text, task'.family, stream'.reasoning, stream'.content)
                      /\ stream'.phase = "open" =>
                             /\ HeldBack(stream'.splitter, attempts'[1].text, task'.family, attempts'[1].sent)
                             /\ progress' = SubSeq(attempts'[1].text, 1, attempts'[1].sent)
                      /\ stream'.phase # "ended"
    BY <1>1 DEF Followed
  <2>0. Len(attempts') = 1
    BY DEF Current
  <2>1. Current = 0
    <3>1. PICK k \in Nat : k = Len(attempts)
      BY <1>2
    <3>2. Len(attempts') = k + 1
      BY <1>1, <3>1
    <3>3. k = 0
      BY <2>0, <3>2
    <3> QED
      BY <3>1, <3>3 DEF Current
  <2>2. attempts'[1].sent = 0 /\ progress' = <<>>
    BY <1>1, <2>1 DEF Current, TableInv, Attempted
  <2>3. /\ stream'.splitter = NewSplitter /\ stream'.reasoning = <<>> /\ stream'.content = <<>>
        /\ stream'.phase # "ended"
    BY <1>1, <1>2, <2>1 DEF StreamInv, Unseen
  <2>4. attempts'[1].text \in Texts /\ task'.family \in Families
    <3>1. attempts' \in Seq(Attempt) /\ 1 \in 1..Len(attempts')
      BY <1>1, <2>0 DEF TableTypes
    <3>2. attempts'[1] \in Attempt
      BY <3>1
    <3> QED
      BY <1>1, <3>2 DEF TableTypes, Attempt, Texts
  <2>5. SubSeq(attempts'[1].text, 1, 0) = <<>>
    BY <2>4, EmptyPart DEF Texts
  <2> QED
    BY <2>2, <2>3, <2>4, <2>5, SplitsFresh
<1> QED
  BY <1>3, <1>4, <1>5 DEF StreamInv

\* The text and the family of the only attempt.
LEMMA OnlyAttempt ==
    ASSUME TableInv, Current = 1
    PROVE  /\ attempts[1].text \in Texts /\ task.family \in Families
           /\ attempts[1].sent \in 0..Len(attempts[1].text) /\ attempts[1].sent \in Nat
           /\ task.status = "succeeded" => attempts[1].sent = Len(attempts[1].text)
<1>1. 1 \in 1..Len(attempts)
  BY DEF Current
<1>2. attempts[1].text \in Seq(Chars) /\ attempts[1].sent \in 0..Len(attempts[1].text)
  BY <1>1, AttemptFacts DEF TableInv
<1>3. attempts[1].sent \in Nat
  BY <1>2
<1> QED
  BY <1>2, <1>3 DEF Texts, TableInv, TableTypes, OutputTrue

LEMMA ProgressStream ==
    ASSUME TableInv, StreamInv, NEW a \in DOMAIN attempts,
           NEW n \in (attempts[a].sent + 1)..Len(attempts[a].text), Progress(a, n)
    PROVE  StreamInv'
<1>1. /\ task' = task /\ Len(attempts') = Len(attempts) /\ a \in 1..Len(attempts)
      /\ attempts' = [attempts EXCEPT ![a] = [text |-> attempts[a].text, sent |-> n]]
      /\ progress' = progress \o SubSeq(attempts[a].text, attempts[a].sent + 1, n)
      /\ n \in Nat /\ n > attempts[a].sent /\ n <= Len(attempts[a].text)
  BY ProgressFacts DEF TableInv
<1>2. stream' = stream
  BY DEF Progress
<1>3. StreamShape'
  BY <1>2 DEF StreamInv, StreamShape
<1>4. Unseen'
  BY <1>1, <1>2 DEF StreamInv, Unseen, Current
<1>5. Followed'
  <2> SUFFICES ASSUME Current' = 1, task.status \in {"running", "succeeded"}, AsSent',
                      Judged(attempts'[1].text, task.family)
               PROVE  /\ Splits(stream.splitter, attempts'[1].text, task.family, stream.reasoning, stream.content)
                      /\ stream.phase = "open" =>
                             /\ HeldBack(stream.splitter, attempts'[1].text, task.family, attempts'[1].sent)
                             /\ progress' = SubSeq(attempts'[1].text, 1, attempts'[1].sent)
                      /\ task.status = "running" /\ stream.phase # "ended"
    BY <1>1, <1>2 DEF Followed
  <2>1. Current = 1 /\ a = 1
    BY <1>1 DEF Current
  <2>2. attempts'[1].text = attempts[1].text /\ attempts'[1].sent = n
    BY <1>1, <2>1 DEF TableInv, TableTypes
  <2>3. PICK s \in Texts : s = attempts[1].text /\ task.family \in Families /\ Judged(s, task.family)
    BY <2>1, <2>2, OnlyAttempt
  <2>4. PICK m \in Nat : m = attempts[1].sent /\ m <= n /\ m # Len(s)
    BY <1>1, <2>1, <2>3, OnlyAttempt DEF Texts
  <2>5. task.status = "running"
    BY <2>1, <2>3, <2>4, OnlyAttempt
  <2>6. /\ Splits(stream.splitter, s, task.family, stream.reasoning, stream.content)
        /\ stream.phase = "open" => /\ HeldBack(stream.splitter, s, task.family, m)
                                    /\ progress = SubSeq(s, 1, m)
        /\ stream.phase # "ended"
    BY <2>1, <2>3, <2>4, <2>5 DEF StreamInv, Followed, AsSent
  <2>7. stream.phase = "open" => HeldBack(stream.splitter, s, task.family, n)
    <3>1. stream.splitter \in Splitters
      BY <2>6 DEF Splits
    <3> QED
      BY <1>1, <2>3, <2>4, <2>6, <3>1, HeldLonger
  <2>8. SubSeq(s, 1, m) \o SubSeq(s, m + 1, n) = SubSeq(s, 1, n)
    <3>1. n <= Len(s)
      BY <1>1, <2>1, <2>3
    <3> QED
      BY <1>1, <2>4, <3>1, LongerPrefix DEF Texts
  <2> QED
    BY <1>1, <2>1, <2>2, <2>3, <2>4, <2>5, <2>6, <2>7, <2>8
<1> QED
  BY <1>3, <1>4, <1>5 DEF StreamInv

\* Nothing that is not followed happens when the task stops to run.
LEMMA StoppedStream ==
    ASSUME StreamInv, stream' = stream, task'.status \notin {"running", "succeeded"},
           task'.status = "queued" => Current' > 0, Current' \in Nat
    PROVE  StreamInv'
<1>1. StreamShape'
  BY DEF StreamInv, StreamShape
<1>2. Unseen' /\ Followed'
  BY DEF Unseen, Followed
<1> QED
  BY <1>1, <1>2 DEF StreamInv

LEMMA SucceedStream == ASSUME TableInv, StreamInv, Succeed PROVE StreamInv'
<1>1. /\ task.status = "running" /\ task'.status = "succeeded" /\ task'.family = task.family
      /\ attempts' = attempts /\ stream' = stream /\ progress' = <<>>
  BY DEF Succeed, TableInv, TableTypes
<1>2. StreamShape'
  BY <1>1 DEF StreamInv, StreamShape
<1>3. Unseen'
  BY <1>1 DEF Unseen
<1>4. Followed'
  BY <1>1 DEF StreamInv, Followed, Current, AsSent
<1> QED
  BY <1>2, <1>3, <1>4 DEF StreamInv

LEMMA RestartStream == ASSUME TableInv, StreamInv, Restart PROVE StreamInv'
<1>1. task' = task /\ attempts' = attempts
  BY DEF Restart
<1>2. PICK phase : /\ stream' = [stream EXCEPT !.phase = phase] /\ phase # "open"
                   /\ (phase = "ended" <=> stream.phase = "ended")
  <2>1. CASE stream.phase = "open"
    <3>1. stream' = [stream EXCEPT !.phase = "broken"]
      BY <2>1 DEF Restart
    <3>2. "broken" # "open" /\ ("broken" = "ended" <=> stream.phase = "ended")
      BY <2>1
    <3> QED
      BY <3>1, <3>2
  <2>2. CASE stream.phase # "open"
    <3>1. [stream EXCEPT !.phase = stream.phase] = stream
      BY DEF StreamInv, StreamShape
    <3> QED
      BY <2>2, <3>1 DEF Restart
  <2> QED
    BY <2>1, <2>2
<1>3. stream' = [phase |-> phase, splitter |-> stream.splitter,
                 reasoning |-> stream.reasoning, content |-> stream.content]
  BY <1>2 DEF StreamInv, StreamShape
<1>4. /\ stream'.phase = phase /\ stream'.splitter = stream.splitter
      /\ stream'.reasoning = stream.reasoning /\ stream'.content = stream.content
  BY <1>3
<1>5. StreamShape'
  BY <1>3, <1>4 DEF StreamShape
<1>6. Unseen'
  BY <1>1, <1>2, <1>4 DEF StreamInv, Unseen, Current
<1>7. Followed'
  BY <1>1, <1>2, <1>4 DEF StreamInv, Followed, Current, AsSent
<1> QED
  BY <1>5, <1>6, <1>7 DEF StreamInv

\* A round of sse: a look at the text.
LEMMA PollStream == ASSUME TableInv, StreamInv, Poll PROVE StreamInv'
<1> DEFINE known == IF There THEN WithFamily(stream.splitter, task.family) ELSE stream.splitter
           fed   == Emitted(Decided(known, Partial, Done), Partial, Done)
<1>1. /\ stream.phase = "open" /\ task' = task /\ attempts' = attempts /\ progress' = progress
      /\ stream' = [phase |-> IF Done THEN "ended" ELSE "open", splitter |-> fed.splitter,
                    reasoning |-> stream.reasoning \o fed.reasoning, content |-> stream.content \o fed.content]
  BY DEF Poll
<1>2. PICK e : e = fed
  OBVIOUS
<1>3. /\ stream'.phase = (IF Done THEN "ended" ELSE "open") /\ stream'.splitter = e.splitter
      /\ stream'.reasoning = stream.reasoning \o e.reasoning /\ stream'.content = stream.content \o e.content
  <2> HIDE DEF fed
  <2> QED
    BY <1>1, <1>2
<1>4. StreamShape'
  <2> HIDE DEF fed
  <2> QED
    BY <1>1, <1>3 DEF StreamShape
<1>5. Unseen'
  <2> SUFFICES ASSUME Current = 0, task.status = "queued"
               PROVE  /\ task.family = "unknown" /\ stream'.phase # "ended" /\ stream'.splitter = NewSplitter
                      /\ stream'.reasoning = <<>> /\ stream'.content = <<>>
    BY <1>1 DEF Unseen, Current
  <2>1. /\ task.family = "unknown" /\ stream.splitter = NewSplitter
        /\ stream.reasoning = <<>> /\ stream.content = <<>> /\ progress = <<>>
    BY DEF StreamInv, Unseen, TableInv, Attempted
  <2>2. Done = FALSE /\ Partial = <<>>
    BY <2>1 DEF Done, Ended, Partial
  <2>3. known = NewSplitter
    <3>1. [NewSplitter EXCEPT !.assume = "unknown"] = NewSplitter
      BY DEF NewSplitter
    <3> QED
      BY <2>1, <3>1 DEF WithFamily
  <2>4. e = [reasoning |-> <<>>, content |-> <<>>, splitter |-> NewSplitter]
    <3> HIDE DEF known
    <3> QED
      BY <1>2, <2>2, <2>3, LookAtNothing
  <2>5. <<>> \o <<>> = <<>>
    OBVIOUS
  <2> HIDE DEF fed
  <2> QED
    BY <1>3, <2>1, <2>2, <2>4, <2>5
<1>6. Followed'
  <2> SUFFICES ASSUME Current = 1, task.status \in {"running", "succeeded"}, AsSent,
                      Judged(attempts[1].text, task.family)
               PROVE  /\ Splits(stream'.splitter, attempts[1].text, task.family, stream'.reasoning, stream'.content)
                      /\ stream'.phase = "open" =>
                             /\ HeldBack(stream'.splitter, attempts[1].text, task.family, attempts[1].sent)
                             /\ progress = IF task.status = "running" THEN SubSeq(attempts[1].text, 1, attempts[1].sent) ELSE <<>>
                      /\ stream'.phase = "ended" =>
                             /\ task.status = "succeeded"
                             /\ stream'.reasoning = Thought(attempts[1].text, task.family)
                             /\ stream'.content = Said(attempts[1].text, task.family)
    BY <1>1 DEF Followed, Current, AsSent
  <2>1. PICK s \in Texts : s = attempts[1].text /\ task.family \in Families /\ Judged(s, task.family)
    BY OnlyAttempt
  <2>2. PICK m \in 0..Len(s) : /\ m = attempts[1].sent
                               /\ task.status = "succeeded" => m = Len(s) /\ task.output = s
    BY <2>1, OnlyAttempt DEF AsSent
  <2>3. /\ Splits(stream.splitter, s, task.family, stream.reasoning, stream.content)
        /\ HeldBack(stream.splitter, s, task.family, m)
        /\ progress = IF task.status = "running" THEN SubSeq(s, 1, m) ELSE <<>>
    BY <1>1, <2>1, <2>2 DEF StreamInv, Followed
  <2>4. Done = (task.status = "succeeded") /\ There /\ Done \in BOOLEAN
    BY DEF Done, Ended, There
  <2>5. SubSeq(s, 1, Len(s)) = s
    BY SubSeqAll DEF Texts
  <2>6. Partial = SubSeq(s, 1, m)
    <3>1. CASE task.status = "running"
      BY <2>3, <3>1 DEF Partial
    <3>2. CASE task.status = "succeeded"
      BY <2>2, <2>3, <2>5, <3>2 DEF Partial
    <3> QED
      BY <3>1, <3>2
  <2>7. e = Emitted(Decided(WithFamily(stream.splitter, task.family), SubSeq(s, 1, m), Done), SubSeq(s, 1, m), Done)
    BY <1>2, <2>4, <2>6
  <2>8. PICK done \in BOOLEAN : done = Done /\ (done => m = Len(s))
    BY <2>2, <2>4
  <2>9. PICK sp, reasoning, content : sp = stream.splitter /\ reasoning = stream.reasoning /\ content = stream.content
    OBVIOUS
  <2>10. PICK family \in Families : family = task.family
    BY <2>1
  <2> HIDE DEF fed, known
  <2>11. Looks(sp, s, family, m, done, reasoning, content)
    BY <2>1, <2>3, <2>8, <2>9, <2>10 DEF Looks
  <2>12. Shows(WithFamily(sp, family), s, family, m, done, reasoning, content)
    BY <2>11, LookFacts
  <2>13. e = Emitted(Decided(WithFamily(sp, family), SubSeq(s, 1, m), done), SubSeq(s, 1, m), done)
    BY <2>7, <2>8, <2>9, <2>10
  <2>14. /\ Splits(e.splitter, s, family, reasoning \o e.reasoning, content \o e.content)
         /\ ~done => HeldBack(e.splitter, s, family, m)
         /\ done => reasoning \o e.reasoning = Thought(s, family) /\ content \o e.content = Said(s, family)
    BY <2>12, <2>13 DEF Shows
  <2> QED
    BY <1>3, <2>1, <2>2, <2>3, <2>4, <2>8, <2>9, <2>10, <2>14
<1> QED
  BY <1>4, <1>5, <1>6 DEF StreamInv

LEMMA StreamStep == TableInv /\ StreamInv /\ [Next]_vars => StreamInv'
<1> SUFFICES ASSUME TableInv, StreamInv, [Next]_vars PROVE StreamInv'
  OBVIOUS
<1>0. Current \in Nat
  BY DEF TableInv, TableTypes, Current
<1>1. CASE Fail
  <2>1. Current > 0
    BY <1>1 DEF Fail, TableInv, Attempted
  <2>2. task'.status \in {"queued", "failed"} /\ Len(attempts') = Len(attempts)
    BY <1>1, <2>1, FailFacts DEF TableInv
  <2>3. stream' = stream /\ Current' = Current
    BY <1>1, <2>2 DEF Fail, Current
  <2> QED
    BY <1>0, <2>1, <2>2, <2>3, StoppedStream
<1>2. CASE Lose \/ Cancel \/ Delete
  <2>1. /\ task'.status \in {"queued", "failed", "cancelled", "gone"} /\ stream' = stream /\ attempts' = attempts
        /\ task'.status = "queued" => Current > 0
    <3>1. task = [status |-> task.status, family |-> task.family, output |-> task.output]
      BY DEF TableInv, TableTypes
    <3>2. CASE Lose
      <4>1. task.status = "running" /\ Current > 0
        BY <3>2 DEF Lose, TableInv, Attempted
      <4>2. Requeued.status = "queued" /\ [task EXCEPT !.status = "failed"].status = "failed"
        BY <3>1 DEF Requeued
      <4> QED
        BY <3>2, <4>1, <4>2 DEF Lose
    <3>3. CASE Cancel
      <4>1. [task EXCEPT !.status = "cancelled"].status = "cancelled"
        BY <3>1
      <4> QED
        BY <3>3, <4>1 DEF Cancel
    <3>4. CASE Delete
      BY <3>4 DEF Delete
    <3> QED
      BY <1>2, <3>2, <3>3, <3>4
  <2>2. Current' = Current
    BY <2>1 DEF Current
  <2> QED
    BY <1>0, <2>1, <2>2, StoppedStream
<1>3. ASSUME UNCHANGED <<task, attempts, progress, stream>> PROVE StreamInv'
  <2>1. StreamShape'
    BY <1>3 DEF StreamInv, StreamShape
  <2>2. Unseen' /\ Followed'
    BY <1>3 DEF StreamInv, Unseen, Followed, Current, AsSent
  <2> QED
    BY <2>1, <2>2 DEF StreamInv
<1>4. CASE UNCHANGED vars \/ \E w \in Watchers : Connect(w) \/ Accepted(w) \/ Forward(w) \/ Leave(w)
  BY <1>3, <1>4 DEF Connect, Accepted, Forward, Leave, vars
<1> QED
  BY <1>1, <1>2, <1>4, AssignStream, ProgressStream, SucceedStream, PollStream, RestartStream DEF Next

\* What has been emitted of a text that is followed is true to split_think.
LEMMA StreamIsTrue == TableInv /\ StreamInv => StreamTrue
<1> SUFFICES ASSUME TableInv, StreamInv, Current = 1, task.status \in {"running", "succeeded"},
                    WellJudged(attempts[1].text), AsSent
             PROVE  /\ IsPrefix(Solid(stream.reasoning), Solid(Split(attempts[1].text).reasoning))
                    /\ IsPrefix(stream.content, Split(attempts[1].text).content)
                    /\ stream.phase = "ended" =>
                          /\ Solid(stream.reasoning) = Solid(Split(attempts[1].text).reasoning)
                          /\ stream.content = Split(attempts[1].text).content
  BY DEF StreamTrue
<1>1. PICK s \in Texts, family \in Families : s = attempts[1].text /\ family = task.family
  BY OnlyAttempt
<1>2. Judged(s, family)
  BY <1>1 DEF WellJudged, Judged
<1>3. PICK b \in Texts, v \in Texts :
         /\ b = Thought(s, family) /\ v = Said(s, family)
         /\ Solid(Split(s).reasoning) = Solid(b) /\ Split(s).content = v
  BY <1>2, SplitIs
<1>4. /\ Splits(stream.splitter, s, family, stream.reasoning, stream.content)
      /\ stream.phase = "ended" => stream.reasoning = b /\ stream.content = v
  BY <1>1, <1>2, <1>3 DEF StreamInv, Followed
<1>5. PICK i \in Nat, j \in Nat :
         /\ i <= Len(b) /\ stream.reasoning = SubSeq(b, 1, i)
         /\ j <= Len(v) /\ stream.content = SubSeq(v, 1, j)
  BY <1>3, <1>4 DEF Splits, Splitters
<1>6. i \in 0..Len(b) /\ j \in 0..Len(v)
  BY <1>5 DEF Texts
<1>7. IsPrefix(Solid(stream.reasoning), Solid(b))
  BY <1>5, <1>6, SolidBeginning
<1>8. IsPrefix(stream.content, v)
  <2>1. PICK a \in Texts : a = SubSeq(v, 1, j) /\ Len(a) = j /\ \A k \in 1..j : a[k] = v[k]
    BY <1>6, Parts
  <2>2. Len(a) <= Len(v) /\ \A k \in 1..Len(a) : a[k] = v[k]
    BY <1>5, <2>1
  <2>3. a \in Seq(Chars) /\ v \in Seq(Chars)
    BY DEF Texts
  <2>4. IsPrefix(a, v)
    BY <2>2, <2>3, PrefixIs
  <2> QED
    BY <1>5, <2>1, <2>4
<1> QED
  BY <1>1, <1>3, <1>4, <1>7, <1>8

\* The splitter of common/think.py in the loop of sse (scheduler/api/rest.py): however
\* the text of a task that one attempt ran, and whose output is that text, was cut, and
\* whenever the stream looked, it has emitted beginnings of the reasoning and of the answer that split_think finds in
\* the whole, and has emitted all of both when it has ended.
THEOREM StreamHolds == Spec => []StreamTrue
<1>1. Init => TableInv /\ StreamInv
  BY TableInitially, StreamInitially
<1>2. TableInv /\ StreamInv /\ [Next]_vars => (TableInv /\ StreamInv)'
  BY TableStep, StreamStep
<1> QED
  BY <1>1, <1>2, StreamIsTrue, PTL DEF Spec
=============================================================================
