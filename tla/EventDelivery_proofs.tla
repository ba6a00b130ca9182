------------------------ MODULE EventDelivery_proofs ------------------------
(***************************************************************************)
(* Proofs about EventDelivery for every set of clients, every queue size   *)
(* and any number of disconnections and crashes.                           *)
(***************************************************************************)
EXTENDS EventDelivery, TLAPS

-----------------------------------------------------------------------------
(* Sequences. *)

\* Appending one element: the length, and what is where.
LEMMA AppendFacts ==
  ASSUME NEW S, NEW s \in Seq(S), NEW x \in S
  PROVE  /\ Append(s, x) \in Seq(S)
         /\ Append(s, x) # <<>>
         /\ Len(s) \in Nat /\ DOMAIN s = 1..Len(s)
         /\ Len(Append(s, x)) = Len(s) + 1
         /\ \A i \in 1..Len(s) : Append(s, x)[i] = s[i]
         /\ Append(s, x)[Len(s) + 1] = x
OBVIOUS

\* Removing the first element: the length, and what is where.
LEMMA TailFacts ==
  ASSUME NEW S, NEW s \in Seq(S), s # <<>>
  PROVE  /\ Head(s) \in S /\ Head(s) = s[1]
         /\ Tail(s) \in Seq(S)
         /\ Len(s) \in Nat /\ Len(s) >= 1 /\ DOMAIN s = 1..Len(s)
         /\ Len(Tail(s)) = Len(s) - 1
         /\ \A i \in 1..(Len(s) - 1) : Tail(s)[i] = s[i + 1]
OBVIOUS

\* Consecutive numbers from k + 1 on, what the next one appended makes of them, and
\* what is left when the first one is removed.
Consecutive(s, k) == \A i \in DOMAIN s : s[i] = k + i

\* The next number appended keeps a sequence consecutive.
LEMMA ConsecutiveAppend ==
  ASSUME NEW s \in Seq(Nat), NEW k \in Nat, Consecutive(s, k)
  PROVE  Consecutive(Append(s, k + Len(s) + 1), k)
<1>1. Len(s) \in Nat /\ k + Len(s) + 1 \in Nat
  OBVIOUS
<1>2. /\ DOMAIN Append(s, k + Len(s) + 1) = 1..(Len(s) + 1)
      /\ \A i \in 1..Len(s) : Append(s, k + Len(s) + 1)[i] = s[i]
      /\ Append(s, k + Len(s) + 1)[Len(s) + 1] = k + Len(s) + 1
      /\ DOMAIN s = 1..Len(s)
  BY <1>1, AppendFacts
<1> QED BY <1>1, <1>2 DEF Consecutive

\* A consecutive sequence without its first number is consecutive one later.
LEMMA ConsecutiveTail ==
  ASSUME NEW s \in Seq(Nat), s # <<>>, NEW k \in Nat, Consecutive(s, k)
  PROVE  Head(s) = k + 1 /\ Consecutive(Tail(s), k + 1)
<1>1. Head(s) = k + 1
  BY TailFacts DEF Consecutive
<1>2. ASSUME NEW i \in DOMAIN Tail(s) PROVE Tail(s)[i] = (k + 1) + i
  <2>1. i \in 1..(Len(s) - 1) /\ Len(s) \in Nat /\ DOMAIN s = 1..Len(s) /\ Tail(s)[i] = s[i + 1]
    BY <1>2, TailFacts
  <2>2. i + 1 \in DOMAIN s /\ i \in Nat
    BY <2>1
  <2>3. s[i + 1] = k + (i + 1)
    BY <2>2 DEF Consecutive
  <2> QED BY <2>1, <2>2, <2>3
<1> QED BY <1>1, <1>2 DEF Consecutive

\* Removing the first of several elements leaves the last one.
LEMMA TailLast ==
  ASSUME NEW s \in Seq(Nat), s # <<>>, NEW n \in Nat, s[Len(s)] >= n, s[1] < n
  PROVE  Tail(s) # <<>> /\ Tail(s)[Len(Tail(s))] >= n
<1>1. /\ Len(s) \in Nat /\ Len(s) >= 1 /\ Tail(s) \in Seq(Nat) /\ Len(Tail(s)) = Len(s) - 1
      /\ \A i \in 1..(Len(s) - 1) : Tail(s)[i] = s[i + 1]
      /\ s[1] \in Nat
  BY TailFacts
<1>2. Len(s) # 1
  BY <1>1
<1>3. Len(Tail(s)) \in 1..(Len(s) - 1) /\ Len(Tail(s)) + 1 = Len(s)
  BY <1>1, <1>2
<1>4. Tail(s)[Len(Tail(s))] = s[Len(s)]
  BY <1>1, <1>3
<1>5. Tail(s) # <<>>
  <2>1. Len(Tail(s)) # 0
    BY <1>3
  <2>2. \A t : t = <<>> => Len(t) = 0
    OBVIOUS
  <2> QED BY <2>1, <2>2
<1> QED BY <1>4, <1>5

\* Numbers up to a bound, and what appending and removing make of them.
Within(s, n) == \A i \in DOMAIN s : s[i] <= n

\* Removing the first number keeps the others within the bound.
LEMMA WithinTail ==
  ASSUME NEW s \in Seq(Nat), s # <<>>, NEW n \in Nat, Within(s, n)
  PROVE  Head(s) <= n /\ Head(s) \in Nat /\ Within(Tail(s), n)
<1>1. Head(s) <= n /\ Head(s) \in Nat
  BY TailFacts DEF Within
<1>2. ASSUME NEW i \in DOMAIN Tail(s) PROVE Tail(s)[i] <= n
  <2>1. i \in 1..(Len(s) - 1) /\ Len(s) \in Nat /\ DOMAIN s = 1..Len(s) /\ Tail(s)[i] = s[i + 1]
    BY <1>2, TailFacts
  <2>2. i + 1 \in DOMAIN s
    BY <2>1
  <2> QED BY <2>1, <2>2 DEF Within
<1> QED BY <1>1, <1>2 DEF Within

\* Appending the new bound keeps all within it.
LEMMA WithinAppend ==
  ASSUME NEW s \in Seq(Nat), NEW n \in Nat, NEW m \in Nat, m < n, Within(s, m)
  PROVE  Within(s, n) /\ Within(Append(s, n), n)
<1>1. Within(s, n)
  <2>1. \A i \in DOMAIN s : s[i] \in Nat
    OBVIOUS
  <2> QED BY <2>1 DEF Within
<1>2. ASSUME NEW i \in DOMAIN Append(s, n) PROVE Append(s, n)[i] <= n
  <2>1. i \in 1..(Len(s) + 1) /\ Len(s) \in Nat /\ DOMAIN s = 1..Len(s)
    BY <1>2, AppendFacts
  <2>2. CASE i = Len(s) + 1
    BY <2>2, AppendFacts
  <2>3. CASE i # Len(s) + 1
    <3>1. i \in 1..Len(s)
      BY <2>1, <2>3
    <3> QED BY <1>1, <2>1, <3>1, AppendFacts DEF Within
  <2> QED BY <2>2, <2>3
<1> QED BY <1>1, <1>2 DEF Within

\* A full or a roomy queue: the bound holds, nothing is queued that is not in the
\* log, and the last event queued is the new one unless that was dropped, which
\* only telemetry is.
LEMMA OfferedFacts ==
  ASSUME NEW q \in Seq(Nat), NEW kind \in Kind, NEW n \in Nat, NEW m \in Nat, m < n,
         Len(q) <= MaxQueue, Within(q, m)
  PROVE  /\ Offered(q, kind, n) \in Seq(Nat)
         /\ Len(Offered(q, kind, n)) <= MaxQueue
         /\ Within(Offered(q, kind, n), n)
         /\ \/ Offered(q, kind, n) = q /\ kind \notin Protected
            \/ /\ Offered(q, kind, n) # <<>>
               /\ Offered(q, kind, n)[Len(Offered(q, kind, n))] = n
<1>1. CASE Len(q) < MaxQueue
  <2>1. Offered(q, kind, n) = Append(q, n)
    BY <1>1 DEF Offered
  <2> QED BY <1>1, <2>1, AppendFacts, WithinAppend, QueueAssumption
<1>2. CASE Len(q) = MaxQueue /\ kind \in Protected
  <2>1. q # <<>> /\ Offered(q, kind, n) = Append(Tail(q), n)
    BY <1>2, QueueAssumption DEF Offered
  <2>2. Tail(q) \in Seq(Nat) /\ Len(Tail(q)) = Len(q) - 1 /\ Len(q) \in Nat /\ Within(Tail(q), m)
    BY <2>1, TailFacts, WithinTail
  <2>3. /\ Append(Tail(q), n) \in Seq(Nat) /\ Append(Tail(q), n) # <<>>
        /\ Len(Append(Tail(q), n)) = Len(Tail(q)) + 1
        /\ Append(Tail(q), n)[Len(Tail(q)) + 1] = n
    <3>1. \A t \in Seq(Nat) : /\ Append(t, n) \in Seq(Nat) /\ Append(t, n) # <<>>
                               /\ Len(Append(t, n)) = Len(t) + 1
                               /\ Append(t, n)[Len(t) + 1] = n
      BY AppendFacts
    <3> QED BY <2>2, <3>1
  <2>4. Within(Append(Tail(q), n), n)
    BY <2>2, WithinAppend
  <2> QED BY <1>2, <2>1, <2>2, <2>3, <2>4
<1>3. CASE Len(q) = MaxQueue /\ kind \notin Protected
  BY <1>3, WithinAppend, QueueAssumption DEF Offered
<1> QED BY <1>1, <1>2, <1>3, QueueAssumption

-----------------------------------------------------------------------------
(* One client at a time. *)

\* How many events the client has, and how many are under way to it.
Got(c)   == Len(seen[c])
Under(c) == Len(outbox[c])

\* The part of IInv that speaks of client c.
ClientType(c) ==
  /\ queue[c] \in Seq(Nat) /\ at[c] \in Place
  /\ after[c] \in Nat /\ upto[c] \in Nat
  /\ outbox[c] \in Seq(Nat) /\ seen[c] \in Seq(Nat)
ClientCursor(c) ==
  Connected(c) => /\ after[c] <= upto[c] /\ upto[c] <= Len(log)
                  /\ after[c] = Got(c) + Under(c)
ClientEvents(c) ==
  /\ Consecutive(outbox[c], Got(c)) /\ Consecutive(seen[c], 0)
  /\ Connected(c) \/ outbox[c] = <<>>
  /\ Got(c) <= Len(log)
ClientQueue(c) == Len(queue[c]) <= MaxQueue /\ Within(queue[c], Len(log))
ClientReach(c) ==
  at[c] = "open" =>
    \A n \in DOMAIN log : log[n] \in Protected /\ n > upto[c] =>
      queue[c] # <<>> /\ queue[c][Len(queue[c])] >= n

ClientInv(c) ==
  ClientType(c) /\ ClientCursor(c) /\ ClientEvents(c) /\ ClientQueue(c) /\ ClientReach(c)

\* The variables are functions on the clients, the log a nonempty sequence.
Shape ==
  /\ log \in Seq(Kind) /\ log # <<>>
  /\ queue = [c \in Clients |-> queue[c]]
  /\ at = [c \in Clients |-> at[c]]
  /\ after = [c \in Clients |-> after[c]]
  /\ upto = [c \in Clients |-> upto[c]]
  /\ outbox = [c \in Clients |-> outbox[c]]
  /\ seen = [c \in Clients |-> seen[c]]
  /\ breaks \in Nat

\* IInv is a statement about each client.
LEMMA ByClient == IInv <=> Shape /\ \A c \in Clients : ClientInv(c)
<1> USE DEF ClientInv, ClientType, ClientCursor, ClientEvents, ClientQueue, ClientReach,
            Consecutive, Within, Got, Under
<1>1. IInv => Shape
  BY DEF IInv, TypeOK, Shape
<1>2. ASSUME IInv, NEW c \in Clients PROVE ClientInv(c)
  <2>1. ClientType(c)
    BY <1>2 DEF IInv, TypeOK
  <2>2. ClientCursor(c) /\ ClientQueue(c) /\ ClientReach(c)
    BY <1>2 DEF IInv, CursorInv, QueueInv, ProtectedWithinReach
  <2>3. ClientEvents(c)
    BY <1>2, <2>1 DEF IInv, OutboxInv, DeliversInOrder
  <2> QED BY <2>1, <2>2, <2>3
<1>3. ASSUME Shape, \A c \in Clients : ClientInv(c) PROVE IInv
  <2>1. TypeOK
    BY <1>3 DEF Shape, TypeOK
  <2>2. CursorInv /\ QueueInv /\ ProtectedWithinReach
    BY <1>3 DEF CursorInv, QueueInv, ProtectedWithinReach
  <2>3. OutboxInv
    BY <1>3 DEF OutboxInv
  <2>4. ASSUME NEW c \in Clients, NEW i \in DOMAIN seen[c] PROVE seen[c][i] = i
    <3>1. seen[c] \in Seq(Nat) /\ seen[c][i] = 0 + i
      BY <1>3, <2>4
    <3> QED BY <3>1
  <2>5. DeliversInOrder
    BY <2>4 DEF DeliversInOrder
  <2> QED BY <2>1, <2>2, <2>3, <2>5 DEF IInv
<1> QED BY <1>1, <1>2, <1>3

\* What a client has received and what is under way to it are counted in Nat.
LEMMA Counts ==
  ASSUME NEW c \in Clients, ClientInv(c)
  PROVE  Got(c) \in Nat /\ Under(c) \in Nat
BY DEF ClientInv, ClientType, Got, Under

\* A client none of whose variables changes keeps its part of the invariant.
LEMMA Untouched ==
  ASSUME NEW d \in Clients, ClientInv(d), log' = log,
         queue'[d] = queue[d], at'[d] = at[d], after'[d] = after[d], upto'[d] = upto[d],
         outbox'[d] = outbox[d], seen'[d] = seen[d]
  PROVE  ClientInv(d)'
BY DEF ClientInv, ClientType, ClientCursor, ClientEvents, ClientQueue, ClientReach, Connected,
       Consecutive, Within, Got, Under

-----------------------------------------------------------------------------
(* One lemma per action: what it does to the client it is about. *)

\* The client receives the event that follows the last one it has.
LEMMA Receiving ==
  ASSUME NEW c \in Clients, Shape, ClientInv(c), Receive(c)
  PROVE  /\ ClientInv(c)'
         /\ seen' = [seen EXCEPT ![c] = Append(@, Len(@) + 1)]
         /\ Got(c) < Len(log)
<1>1. /\ outbox[c] \in Seq(Nat) /\ outbox[c] # <<>> /\ seen[c] \in Seq(Nat) /\ Connected(c)
      /\ Consecutive(outbox[c], Got(c)) /\ Consecutive(seen[c], 0)
      /\ Got(c) \in Nat /\ Under(c) \in Nat
  BY Counts DEF Receive, ClientInv, ClientType, ClientEvents
<1>2. Head(outbox[c]) = Got(c) + 1 /\ Consecutive(Tail(outbox[c]), Got(c) + 1)
  BY <1>1, ConsecutiveTail
<1>3. Tail(outbox[c]) \in Seq(Nat) /\ Under(c) >= 1 /\ Len(Tail(outbox[c])) = Under(c) - 1
  BY <1>1, TailFacts DEF Under
<1>4. Got(c) < Len(log)
  BY <1>1, <1>3 DEF ClientInv, ClientType, ClientCursor, Shape
<1>5. /\ outbox'[c] = Tail(outbox[c]) /\ seen'[c] = Append(seen[c], Got(c) + 1)
      /\ seen' = [seen EXCEPT ![c] = Append(@, Got(c) + 1)]
      /\ log' = log /\ queue' = queue /\ at' = at /\ after' = after /\ upto' = upto
  BY <1>2 DEF Receive, Shape
<1>6. seen'[c] \in Seq(Nat) /\ Got(c)' = Got(c) + 1 /\ Consecutive(seen'[c], 0)
  <2>1. Got(c) + 1 = 0 + Len(seen[c]) + 1 /\ Got(c) + 1 \in Nat
    BY <1>1 DEF Got
  <2>2. Consecutive(Append(seen[c], Got(c) + 1), 0)
    BY <1>1, <2>1, ConsecutiveAppend
  <2>3. seen'[c] \in Seq(Nat) /\ Len(Append(seen[c], Got(c) + 1)) = Len(seen[c]) + 1
    BY <1>1, <1>5, <2>1, AppendFacts
  <2> QED BY <1>5, <2>2, <2>3 DEF Got
<1>7. Under(c)' = Under(c) - 1
  BY <1>3, <1>5 DEF Under
<1>8. ClientType(c)'
  BY <1>3, <1>5, <1>6 DEF ClientInv, ClientType
<1>9. ClientCursor(c)'
  BY <1>1, <1>5, <1>6, <1>7 DEF ClientInv, ClientType, ClientCursor, Connected
<1>10. ClientEvents(c)'
  <2>1. Consecutive(outbox'[c], Got(c)') /\ Connected(c)'
    BY <1>1, <1>2, <1>5, <1>6 DEF Connected
  <2>2. Got(c)' <= Len(log')
    BY <1>1, <1>4, <1>5, <1>6 DEF Shape
  <2> QED BY <1>6, <2>1, <2>2 DEF ClientEvents
<1>11. ClientQueue(c)' /\ ClientReach(c)'
  BY <1>5 DEF ClientInv, ClientQueue, ClientReach, Within
<1>12. seen' = [seen EXCEPT ![c] = Append(@, Len(@) + 1)]
  BY <1>5 DEF Got
<1> QED BY <1>4, <1>8, <1>9, <1>10, <1>11, <1>12 DEF ClientInv

\* A new subscription continues where the client is, and has the log before it.
LEMMA Connecting ==
  ASSUME NEW c \in Clients, Shape, ClientInv(c), Connect(c)
  PROVE  ClientInv(c)'
<1>1. outbox[c] = <<>> /\ seen[c] \in Seq(Nat) /\ Got(c) <= Len(log) /\ Got(c) \in Nat /\ Under(c) = 0
  BY Counts DEF Connect, ClientInv, ClientType, ClientEvents, Connected, Under
<1>2. LastSeen(c) = Got(c)
  <2>1. CASE seen[c] = <<>>
    BY <2>1 DEF LastSeen, Got
  <2>2. CASE seen[c] # <<>>
    <3>1. Len(seen[c]) \in DOMAIN seen[c] /\ Len(seen[c]) \in Nat
      BY <1>1, <2>2
    <3> QED BY <2>2, <3>1 DEF LastSeen, ClientInv, ClientEvents, Consecutive, Got
  <2> QED BY <2>1, <2>2
<1>3. log' = log /\ queue' = queue /\ outbox' = outbox /\ seen' = seen
  BY DEF Connect
<1>4. Got(c)' = Got(c) /\ Under(c)' = Under(c)
  BY <1>3 DEF Got, Under
<1>5. ClientEvents(c)' /\ ClientQueue(c)'
  BY <1>1, <1>3, <1>4 DEF ClientInv, ClientEvents, ClientQueue, Consecutive, Within
<1>6. CASE LastSeen(c) >= Len(log) /\ Ended
  <2>1. at'[c] = "finished" /\ after' = after /\ upto' = upto
    BY <1>6 DEF Connect, Shape
  <2> QED BY <1>3, <1>5, <2>1 DEF ClientInv, ClientType, ClientCursor, ClientReach, Connected, Place
<1>7. CASE ~(LastSeen(c) >= Len(log) /\ Ended)
  <2>1. at'[c] = "open" /\ after'[c] = Got(c) /\ upto'[c] = Len(log)
    BY <1>2, <1>7 DEF Connect, Shape
  <2>2. DOMAIN log = 1..Len(log) /\ Len(log) \in Nat
    BY DEF Shape
  <2>3. ClientType(c)'
    BY <1>1, <1>3, <2>1, <2>2 DEF ClientInv, ClientType, Place
  <2>4. ClientCursor(c)'
    BY <1>1, <1>3, <1>4, <2>1, <2>2 DEF ClientCursor
  <2>5. ClientReach(c)'
    BY <1>3, <2>1, <2>2 DEF ClientReach
  <2> QED BY <1>5, <2>3, <2>4, <2>5 DEF ClientInv
<1> QED BY <1>6, <1>7

\* What is yielded is the next event.
LEMMA Yielding ==
  ASSUME NEW c \in Clients, Shape, ClientInv(c), Yield(c)
  PROVE  ClientInv(c)'
<1>1. /\ Connected(c) /\ outbox[c] \in Seq(Nat) /\ seen[c] \in Seq(Nat) /\ after[c] \in Nat
      /\ upto[c] \in Nat /\ after[c] < upto[c] /\ upto[c] <= Len(log)
      /\ after[c] = Got(c) + Under(c)
      /\ Consecutive(outbox[c], Got(c))
      /\ Got(c) \in Nat /\ Under(c) \in Nat
  BY Counts DEF Yield, ClientInv, ClientType, ClientCursor, ClientEvents, Connected
<1>2. /\ outbox'[c] = Append(outbox[c], after[c] + 1) /\ after'[c] = after[c] + 1
      /\ log' = log /\ queue' = queue /\ upto' = upto /\ seen' = seen
      /\ at'[c] \in {"open", "closing"} /\ at[c] = "open"
  BY DEF Yield, Shape
<1>3. Got(c)' = Got(c)
  BY <1>2 DEF Got
<1>4. outbox'[c] \in Seq(Nat) /\ Under(c)' = Under(c) + 1 /\ Consecutive(outbox'[c], Got(c))
  <2>1. after[c] + 1 \in Nat /\ after[c] + 1 = Got(c) + Len(outbox[c]) + 1
    BY <1>1 DEF Under
  <2>2. Consecutive(Append(outbox[c], after[c] + 1), Got(c))
    BY <1>1, <2>1, ConsecutiveAppend
  <2>3. outbox'[c] \in Seq(Nat) /\ Len(Append(outbox[c], after[c] + 1)) = Len(outbox[c]) + 1
    BY <1>1, <1>2, <2>1, AppendFacts
  <2> QED BY <1>2, <2>2, <2>3 DEF Under
<1>5. ClientType(c)' /\ Connected(c)'
  BY <1>1, <1>2, <1>4 DEF ClientInv, ClientType, Place, Connected
<1>6. ClientCursor(c)'
  BY <1>1, <1>2, <1>3, <1>4 DEF ClientCursor
<1>7. ClientEvents(c)' /\ ClientQueue(c)' /\ ClientReach(c)'
  BY <1>2, <1>3, <1>4, <1>5 DEF ClientInv, ClientEvents, ClientQueue, ClientReach, Within
<1> QED BY <1>5, <1>6, <1>7 DEF ClientInv

\* What is taken from the queue moves the subscription's horizon to it.
LEMMA Taking ==
  ASSUME NEW c \in Clients, Shape, ClientInv(c), Take(c)
  PROVE  ClientInv(c)'
<1>1. /\ queue[c] \in Seq(Nat) /\ queue[c] # <<>> /\ at[c] = "open" /\ Connected(c)
      /\ upto[c] \in Nat /\ upto[c] <= Len(log) /\ Within(queue[c], Len(log)) /\ Len(log) \in Nat
      /\ Len(queue[c]) <= MaxQueue /\ after[c] \in Nat /\ after[c] <= upto[c]
      /\ after[c] = Got(c) + Under(c)
  BY DEF Take, ClientInv, ClientType, ClientCursor, ClientQueue, Connected, Shape
<1>2. /\ queue'[c] = Tail(queue[c]) /\ log' = log /\ at' = at /\ after' = after
      /\ outbox' = outbox /\ seen' = seen
      /\ upto'[c] = IF Head(queue[c]) > upto[c] THEN Head(queue[c]) ELSE upto[c]
  BY DEF Take, Shape
<1>3. Got(c)' = Got(c) /\ Under(c)' = Under(c)
  BY <1>2 DEF Got, Under
<1>4. /\ Head(queue[c]) \in Nat /\ Head(queue[c]) <= Len(log) /\ Within(Tail(queue[c]), Len(log))
      /\ Tail(queue[c]) \in Seq(Nat) /\ Len(Tail(queue[c])) = Len(queue[c]) - 1
      /\ Len(queue[c]) \in Nat /\ Head(queue[c]) = queue[c][1]
  BY <1>1, TailFacts, WithinTail
<1>5. /\ upto'[c] \in Nat /\ upto'[c] <= Len(log) /\ upto[c] <= upto'[c] /\ queue[c][1] <= upto'[c]
  BY <1>1, <1>2, <1>4
<1>6. ClientType(c)'
  BY <1>2, <1>4, <1>5 DEF ClientInv, ClientType
<1>7. ClientCursor(c)'
  <2>1. after[c] <= upto'[c]
    BY <1>1, <1>5
  <2> QED BY <1>1, <1>2, <1>3, <1>5, <2>1 DEF ClientCursor
<1>8. ClientEvents(c)'
  BY <1>2, <1>3 DEF ClientInv, ClientEvents, Connected, Consecutive
<1>9. ClientQueue(c)'
  <2>1. Len(queue'[c]) <= MaxQueue
    BY <1>1, <1>2, <1>4, QueueAssumption
  <2> QED BY <1>2, <1>4, <2>1 DEF ClientQueue
<1>10. ASSUME NEW n \in DOMAIN log, log[n] \in Protected, n > upto'[c]
       PROVE  queue'[c] # <<>> /\ queue'[c][Len(queue'[c])] >= n
  <2>1. n \in Nat
    BY DEF Shape
  <2>2. n > upto[c] /\ queue[c][1] < n
    BY <1>1, <1>4, <1>5, <1>10, <2>1
  <2>3. queue[c][Len(queue[c])] >= n
    BY <1>1, <1>10, <2>2 DEF ClientInv, ClientReach
  <2>4. Tail(queue[c]) # <<>> /\ Tail(queue[c])[Len(Tail(queue[c]))] >= n
    BY <1>1, <2>1, <2>2, <2>3, TailLast
  <2> QED BY <1>2, <2>4
<1>11. ClientReach(c)'
  BY <1>2, <1>10 DEF ClientReach
<1> QED BY <1>6, <1>7, <1>8, <1>9, <1>11 DEF ClientInv

\* A subscription that is given up keeps nothing the client would still receive.
LEMMA Closing ==
  ASSUME NEW c \in Clients, Shape, ClientInv(c), Unregister(c) \/ Finish(c) \/ Disconnect(c)
  PROVE  ClientInv(c)'
<1>1. /\ log' = log /\ after' = after /\ upto' = upto /\ seen' = seen
      /\ at'[c] \in Place /\ at'[c] # "open"
      /\ queue'[c] = queue[c] \/ queue'[c] = <<>>
      /\ outbox'[c] = outbox[c] \/ outbox'[c] = <<>>
      /\ Connected(c)' \/ outbox'[c] = <<>>
      /\ Connected(c)' => Connected(c) /\ outbox'[c] = outbox[c]
  BY DEF Unregister, Finish, Disconnect, Shape, Place, ClientInv, ClientEvents, Connected
<1>2. Got(c)' = Got(c) /\ (Connected(c)' => Under(c)' = Under(c))
  BY <1>1 DEF Got, Under
<1>3. ClientType(c)'
  <2>1. <<>> \in Seq(Nat)
    OBVIOUS
  <2> QED BY <1>1, <2>1 DEF ClientInv, ClientType
<1>4. ClientCursor(c)'
  BY <1>1, <1>2 DEF ClientInv, ClientCursor
<1>5. ClientEvents(c)'
  BY <1>1, <1>2 DEF ClientInv, ClientEvents, Consecutive
<1>6. ClientQueue(c)'
  <2>1. Len(<<>>) <= MaxQueue /\ \A n : Within(<<>>, n)
    BY QueueAssumption DEF Within
  <2> QED BY <1>1, <2>1 DEF ClientInv, ClientQueue
<1>7. ClientReach(c)'
  BY <1>1 DEF ClientReach
<1> QED BY <1>3, <1>4, <1>5, <1>6, <1>7 DEF ClientInv

\* A crash leaves every subscription without queue and without outbox.
LEMMA Crashing ==
  ASSUME NEW d \in Clients, Shape, ClientInv(d), Crash
  PROVE  ClientInv(d)'
<1>1. /\ log' = log /\ after' = after /\ upto' = upto /\ seen' = seen
      /\ at'[d] \in Place \ {"open", "closing", "closed"}
      /\ queue'[d] = <<>> /\ outbox'[d] = <<>>
  BY DEF Crash, Connected, Place, ClientInv, ClientType
<1>2. Got(d)' = Got(d)
  BY <1>1 DEF Got
<1> QED BY <1>1, <1>2, QueueAssumption DEF ClientInv, ClientType, ClientCursor, ClientEvents,
           ClientQueue, ClientReach, Connected, Consecutive, Within

\* A new event is queued for every subscription, or is telemetry.
LEMMA Publishing ==
  ASSUME NEW kind \in Kind, NEW d \in Clients, Shape, ClientInv(d), Publish(kind)
  PROVE  ClientInv(d)'
<1>1. /\ log' = Append(log, kind)
      /\ Len(log) \in Nat /\ Len(log') = Len(log) + 1
      /\ DOMAIN log' = 1..(Len(log) + 1) /\ DOMAIN log = 1..Len(log)
      /\ \A n \in DOMAIN log : log'[n] = log[n]
      /\ log'[Len(log) + 1] = kind
  BY AppendFacts DEF Publish, Shape
<1>2. /\ at' = at /\ after' = after /\ upto' = upto /\ outbox' = outbox /\ seen' = seen
      /\ queue[d] \in Seq(Nat) /\ Len(queue[d]) <= MaxQueue /\ Within(queue[d], Len(log))
      /\ queue'[d] = IF Registered(d) THEN Offered(queue[d], kind, Len(log) + 1) ELSE queue[d]
      /\ Got(d) \in Nat /\ upto[d] \in Nat
  BY Counts DEF Publish, ClientInv, ClientType, ClientQueue
<1>3. /\ queue'[d] \in Seq(Nat) /\ Len(queue'[d]) <= MaxQueue /\ Within(queue'[d], Len(log'))
  BY <1>1, <1>2, OfferedFacts, WithinAppend
<1>4. Got(d)' = Got(d) /\ Under(d)' = Under(d) /\ (Connected(d)' <=> Connected(d))
  BY <1>2 DEF Got, Under, Connected
<1>5. ClientType(d)' /\ ClientQueue(d)'
  BY <1>2, <1>3 DEF ClientInv, ClientType, ClientQueue
<1>6. ClientCursor(d)'
  <2>1. upto[d] <= Len(log) => upto[d] <= Len(log')
    BY <1>1, <1>2
  <2> QED BY <1>2, <1>4, <2>1 DEF ClientInv, ClientCursor
<1>7. ClientEvents(d)'
  <2>1. Got(d) <= Len(log) => Got(d) <= Len(log')
    BY <1>1, <1>2
  <2> QED BY <1>2, <1>4, <2>1 DEF ClientInv, ClientEvents
<1>8. ASSUME at[d] = "open", NEW n \in DOMAIN log', log'[n] \in Protected, n > upto[d]
      PROVE  queue'[d] # <<>> /\ queue'[d][Len(queue'[d])] >= n
  <2>1. queue'[d] = Offered(queue[d], kind, Len(log) + 1) /\ n <= Len(log) + 1
    BY <1>1, <1>2, <1>8 DEF Registered
  <2>2. CASE queue'[d] = queue[d] /\ kind \notin Protected
    <3>1. n \in DOMAIN log /\ log[n] \in Protected
      BY <1>1, <1>8, <2>2
    <3> QED BY <1>8, <2>2, <3>1 DEF ClientInv, ClientReach
  <2>3. CASE queue'[d] # <<>> /\ queue'[d][Len(queue'[d])] = Len(log) + 1
    BY <1>1, <2>1, <2>3
  <2> QED BY <1>1, <1>2, <2>1, <2>2, <2>3, OfferedFacts
<1>9. ClientReach(d)'
  BY <1>2, <1>8 DEF ClientReach
<1> QED BY <1>5, <1>6, <1>7, <1>9 DEF ClientInv

-----------------------------------------------------------------------------
(* The invariant. *)

\* No action changes another client's subscription, but a publication and a crash,
\* which concern every client.
LEMMA Others ==
  ASSUME NEW c \in Clients, NEW d \in Clients, d # c, Shape, ClientInv(d),
         ServerStep(c) \/ ClientStep(c) \/ Disconnect(c)
  PROVE  ClientInv(d)'
<1>1. /\ log' = log /\ queue'[d] = queue[d] /\ at'[d] = at[d] /\ after'[d] = after[d]
      /\ upto'[d] = upto[d] /\ outbox'[d] = outbox[d] /\ seen'[d] = seen[d]
  BY DEF ServerStep, ClientStep, Yield, Take, Unregister, Connect, Receive, Finish, Disconnect, Shape
<1> QED BY <1>1, Untouched

\* Every step keeps the variables functions on the clients.
LEMMA ShapeStep ==
  ASSUME Shape, [Next]_vars
  PROVE  Shape'
<1>1. ASSUME NEW kind \in Kind, Publish(kind) PROVE Shape'
  <2>1. log' \in Seq(Kind) /\ log' # <<>>
    BY <1>1, AppendFacts DEF Publish, Shape
  <2> QED BY <1>1, <2>1 DEF Publish, Shape
<1>2. ASSUME NEW c \in Clients, ServerStep(c) PROVE Shape'
  BY <1>2 DEF ServerStep, Yield, Take, Unregister, Shape
<1>3. ASSUME NEW c \in Clients, ClientStep(c) PROVE Shape'
  BY <1>3 DEF ClientStep, Connect, Receive, Finish, Shape
<1>4. ASSUME NEW c \in Clients, Disconnect(c) PROVE Shape'
  <2>1. breaks' \in Nat
    BY <1>4 DEF Disconnect, Shape
  <2> QED BY <1>4, <2>1 DEF Disconnect, Shape
<1>5. CASE Crash
  BY <1>5 DEF Crash, Shape
<1>6. CASE UNCHANGED vars
  BY <1>6 DEF vars, Shape
<1> QED BY <1>1, <1>2, <1>3, <1>4, <1>5, <1>6 DEF Next

\* The invariant holds before any client subscribes.
LEMMA InitInv == Init => IInv
<1> SUFFICES ASSUME Init PROVE IInv
  OBVIOUS
<1>1. log \in Seq(Kind) /\ log # <<>> /\ Len(log) \in Nat
  BY DEF Init, Kind
<1>2. Shape
  BY <1>1 DEF Init, Shape
<1>3. ASSUME NEW c \in Clients PROVE ClientInv(c)
  <2>1. /\ queue[c] = <<>> /\ at[c] = "away" /\ after[c] = 0 /\ upto[c] = 0
        /\ outbox[c] = <<>> /\ seen[c] = <<>> /\ Got(c) = 0
    BY DEF Init, Got
  <2> QED BY <1>1, <2>1, QueueAssumption DEF ClientInv, ClientType, ClientCursor, ClientEvents,
             ClientQueue, ClientReach, Connected, Consecutive, Within, Place
<1> QED BY <1>2, <1>3, ByClient

\* The invariant is inductive.
LEMMA StepInv == IInv /\ [Next]_vars => IInv'
<1> SUFFICES ASSUME Shape, \A c \in Clients : ClientInv(c), [Next]_vars, NEW d \in Clients
             PROVE  ClientInv(d)'
  <2>1. (IInv <=> Shape /\ \A c \in Clients : ClientInv(c))'
    BY ByClient, PTL
  <2> QED BY <2>1, ByClient, ShapeStep
<1>1. ASSUME NEW kind \in Kind, Publish(kind) PROVE ClientInv(d)'
  BY <1>1, Publishing
<1>2. ASSUME NEW c \in Clients, ServerStep(c) \/ ClientStep(c) \/ Disconnect(c) PROVE ClientInv(d)'
  <2>1. CASE d # c
    BY <1>2, <2>1, Others
  <2>2. CASE d = c
    BY <1>2, <2>2, Yielding, Taking, Closing, Connecting, Receiving DEF ServerStep, ClientStep
  <2> QED BY <2>1, <2>2
<1>3. CASE Crash
  BY <1>3, Crashing
<1>4. CASE UNCHANGED vars
  BY <1>4, Untouched DEF vars
<1> QED BY <1>1, <1>2, <1>3, <1>4 DEF Next

\* In every reachable state of every instance the inductive invariant holds.
THEOREM Invariant == Spec => []IInv
BY InitInv, StepInv, PTL DEF Spec

\* Every variable keeps its type.
THEOREM TypeCorrect == Spec => []TypeOK
<1>1. IInv => TypeOK
  BY DEF IInv
<1> QED BY <1>1, Invariant, PTL

\* Whatever the queues drop or evict, and however often connections break, a
\* client receives the events in order, none twice and none left out.
THEOREM InOrder == Spec => []DeliversInOrder
<1>1. IInv => DeliversInOrder
  BY DEF IInv
<1> QED BY <1>1, Invariant, PTL

\* No queue size lets the end of the run, or of a check, pass a subscription by.
THEOREM ProtectedReachable == Spec => []ProtectedWithinReach
<1>1. IInv => ProtectedWithinReach
  BY DEF IInv
<1> QED BY <1>1, Invariant, PTL

\* The safety part of the refinement: every step of the store and of its
\* subscriptions is a step of the reliable feed, or none.
THEOREM ImplementsFeed == Spec => Feed!Safety
<1>1. Init => Feed!Init
  BY DEF Init, Feed!Init, Lost
<1>2. IInv /\ [Next]_vars => [Feed!Next]_Feed!feed
  <2> SUFFICES ASSUME Shape, \A c \in Clients : ClientInv(c), [Next]_vars
               PROVE  [Feed!Next]_Feed!feed
    BY ByClient
  <2>1. ASSUME NEW kind \in Kind, Publish(kind) PROVE Feed!Publish(kind)
    BY <2>1 DEF Publish, Feed!Publish, Feed!Closed, Ended, IsTerminal, Lost
  <2>2. ASSUME NEW c \in Clients, Receive(c) PROVE Feed!Deliver(c)
    <3>1. c \notin Lost /\ log' = log /\ Lost' = Lost
      BY <2>2 DEF Receive, Connected, Lost
    <3> QED BY <2>2, <3>1, Receiving DEF Feed!Deliver, Got
  <2>3. ASSUME NEW c \in Clients, Yield(c) \/ Take(c) \/ Connect(c) \/ Finish(c)
        PROVE  UNCHANGED Feed!feed
    <3>1. log' = log /\ seen' = seen
      BY <2>3 DEF Yield, Take, Connect, Finish
    <3>2. Lost' = Lost
      BY <2>3 DEF Yield, Take, Connect, Finish, Lost, Shape
    <3> QED BY <3>1, <3>2 DEF Feed!feed
  <2>4. ASSUME NEW c \in Clients, Unregister(c) \/ Disconnect(c)
        PROVE  \E gone \in SUBSET Direct : Feed!Leave(gone)
    <3>1. log' = log /\ seen' = seen
      BY <2>4 DEF Unregister, Disconnect
    <3>2. Lost \subseteq Lost' /\ Lost' \ Lost \subseteq Direct
      BY <2>4 DEF Unregister, Disconnect, Connected, Lost, Shape, Clients
    <3> QED BY <3>1, <3>2 DEF Feed!Leave
  <2>5. ASSUME Crash PROVE \E gone \in SUBSET Direct : Feed!Leave(gone)
    <3>1. log' = log /\ seen' = seen
      BY <2>5 DEF Crash
    <3>2. Lost \subseteq Lost' /\ Lost' \ Lost \subseteq Direct
      BY <2>5 DEF Crash, Connected, Lost, Shape, Clients
    <3> QED BY <3>1, <3>2 DEF Feed!Leave
  <2>6. CASE UNCHANGED vars
    BY <2>6 DEF vars, Feed!feed, Lost
  <2> QED BY <2>1, <2>2, <2>3, <2>4, <2>5, <2>6 DEF Next, ServerStep, ClientStep, Feed!Next, Kind
<1> QED BY <1>1, <1>2, Invariant, PTL DEF Spec, Feed!Safety
=============================================================================
