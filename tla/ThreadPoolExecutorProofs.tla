---------------------- MODULE ThreadPoolExecutorProofs ----------------------
(***************************************************************************)
(* The thread pool, for any number of tasks, of workers and of producers:  *)
(* no accepted task is lost or doubled by swaps, donations, restarts and   *)
(* the shutdown, no worker sleeps on work, donations are ranges of tasks   *)
(* that are there, and the steps of the pool are those that an executor's  *)
(* contract allows.                                                        *)
(***************************************************************************)
EXTENDS ThreadPoolExecutor, FiniteSetTheorems, FunctionTheorems, TLAPS

(* A worker is idle exactly if it has no thread.                           *)
OffIsIdle == \A w \in Workers : idle[w] <=> wpc[w] = "off"

(* ShutDown shuts one worker down after the other: its place says which    *)
(* flags are set, and the workers that it has done are rid of everything.  *)
CloserInOrder ==
  /\ poolAbort <=> spc # "idle"
  /\ spc = "idle" => closing = 1
  /\ IF spc = "closed" THEN closing = W + 1 ELSE closing \in Workers
  /\ \A w \in Workers :
       abort[w] <=> w < closing \/ (w = closing /\ spc \in {"found", "release", "join", "clear"})
  /\ \A w \in Workers :
       atomicAbort[w] <=>
         w < closing \/ (w = closing /\ spc \in {"abort", "found", "release", "join", "clear"})
  /\ \A w \in Workers :
       w < closing => wpc[w] = "off" /\ publicQueue[w] = <<>> /\ privateQueue[w] = <<>>
  /\ spc = "clear" => wpc[closing] = "off"

Senders == Workers \cup Producers

(* Whoever enqueues has something to enqueue, and somebody to signal.      *)
SendersInOrder ==
  /\ \A p \in Producers :
       /\ ppc[p] \in {"enqueue", "next"} => carried[p] # <<>>
       /\ ppc[p] = "idle" => carried[p] = <<>>
       /\ ppc[p] \in {"enqueue", "release"} => target[p] \in Workers
  /\ \A w \in Workers :
       /\ IF wpc[w] = "enqueue" THEN Len(carried[w]) = 1 ELSE carried[w] = <<>>
       /\ wpc[w] \in {"enqueue", "release", "releaseDonation"} => target[w] \in Workers
  /\ \A s \in Senders : \A k \in DOMAIN carried[s] : carried[s][k].tasks # <<>>

(* A worker that donates keeps one share, unless one of the workers that   *)
(* have not got theirs was shut down, at which the donation will fail.  So *)
(* it is with every list that such a failure has left.  What was donated   *)
(* is marked as moved, and until the shutdown nothing else is.             *)
Donating(w) == wpc[w] \in {"donate", "releaseDonation"}

Donation(w) ==
  LET n == Len(privateQueue[w])
      k == Len(idleBuffer[w])
      d == donated[w]
  IN  /\ Donating(w) =>
           /\ d <= k
           /\ k < n \/ \E i \in d + 1 .. k : abort[idleBuffer[w][i]]
           /\ \A i \in 1 .. DonationEnd(n, k, d) : privateQueue[w][i] = Moved
           /\ ~poolAbort => \A i \in DonationEnd(n, k, d) + 1 .. n : privateQueue[w][i] # Moved
      /\ ~Donating(w) =>
           /\ idleBuffer[w] # <<>> => \E i \in 1 .. k : abort[idleBuffer[w][i]]
           /\ ~poolAbort => \A i \in 1 .. n : privateQueue[w][i] # Moved
      /\ ~poolAbort => \A i \in DOMAIN publicQueue[w] : publicQueue[w][i] # Moved
      /\ wpc[w] = "pop" => n > 0

DonationsInOrder == \A w \in Workers : Donation(w)

(* The first part of NoLostWakeup.                                         *)
Wakeup(w) ==
  wpc[w] \in {"markIdle", "wait"} /\ (publicQueue[w] # <<>> \/ abort[w]) =>
    /\ signalled[w] \/ WillSignal(w)
    /\ found[w] \/ (spc = "found" /\ closing = w /\ publicQueue[w] = <<>>)

Wakeups == \A w \in Workers : Wakeup(w)

(* A worker that has nothing to do is marked idle, or somebody who has     *)
(* taken the mark away is about to give it something.                      *)
Marked(w) ==
  \/ w \in idleSet
  \/ \E p \in Producers : ppc[p] = "enqueue" /\ target[p] = w
  \/ \E v \in Workers : wpc[v] = "enqueue" /\ target[v] = w
  \/ \E v \in Workers : Donating(v) /\ \E k \in donated[v] + 1 .. Len(idleBuffer[v]) : idleBuffer[v][k] = w

Unemployed(w) == wpc[w] \in {"wait", "recheck", "ending", "off"} /\ publicQueue[w] = <<>>

MarkedIdle == ~poolAbort => \A w \in Workers : Unemployed(w) => Marked(w)

(* Each task that is queued is in one place, and nothing else is.          *)
NoRepeats(q) == \A i, j \in DOMAIN q : q[i] = q[j] /\ q[i] # Moved => i = j
Has(w) == In(publicQueue[w]) \cup In(privateQueue[w])

QueuesApart ==
  /\ \A w \in Workers : /\ NoRepeats(publicQueue[w]) /\ NoRepeats(privateQueue[w])
                        /\ In(publicQueue[w]) \cap In(privateQueue[w]) = {}
  /\ \A v, w \in Workers : v # w => Has(v) \cap Has(w) = {}
  /\ \A t \in Tasks : fate[t] = "queued" <=> \E w \in Workers : t \in Has(w)

(* Each task that runs is run by one worker.                               *)
Running(w) == wpc[w] \in {"run", "enqueue", "release"}

RunningApart ==
  /\ \A w \in Workers : Running(w) => current[w] \in Tasks /\ fate[current[w]] = "running"
  /\ \A v, w \in Workers : Running(v) /\ Running(w) /\ current[v] = current[w] => v = w
  /\ \A t \in Tasks : fate[t] = "running" => \E w \in Workers : Running(w) /\ current[w] = t

(* The tasks that a call of Enqueue has not handed over yet are new.       *)
SharesApart(shares) ==
  \A s, r \in Senders : \A j \in DOMAIN shares[s], k \in DOMAIN shares[r] :
    \A t \in In(shares[s][j].tasks) : t \in In(shares[r][k].tasks) => s = r /\ j = k

CarriedNew ==
  /\ \A t \in Tasks : t > offered => fate[t] = "new"
  /\ \A s \in Senders : \A k \in DOMAIN carried[s] :
       /\ NoRepeats(carried[s][k].tasks)
       /\ \A t \in In(carried[s][k].tasks) : t <= offered /\ fate[t] = "new"
  /\ SharesApart(carried)

IInv ==
  /\ TypeOK /\ OffIsIdle /\ CloserInOrder /\ SendersInOrder /\ DonationsInOrder
  /\ Wakeups /\ MarkedIdle /\ QueuesApart /\ RunningApart /\ CarriedNew

-----------------------------------------------------------------------------
(* Shares.                                                                 *)

LEMMA Quotient ==
  ASSUME NEW n \in Nat, NEW b \in Nat \ {0}
  PROVE  /\ n \div b \in Nat /\ n % b \in 0 .. b - 1
         /\ n = (b * (n \div b)) + (n % b)
         /\ b <= n => 1 <= n \div b
         /\ n < b => n \div b = 0 /\ n % b = n
OBVIOUS

LEMMA Product ==
  ASSUME NEW q \in Nat, NEW i \in Nat, NEW j \in Nat
  PROVE  /\ i * q \in Nat
         /\ i <= j => i * q <= j * q
         /\ (i + 1) * q = (i * q) + q
OBVIOUS

(* The shares follow one another, from nothing to all of the tasks; none   *)
(* is empty if there are enough tasks.                                     *)
LEMMA DonationEnds ==
  ASSUME NEW n \in Nat, NEW k \in Nat
  PROVE  /\ DonationEnd(n, k, 0) = 0 /\ DonationEnd(n, k, k + 1) = n
         /\ \A j \in 0 .. k + 1 : DonationEnd(n, k, j) \in 0 .. n
         /\ \A i, j \in 0 .. k + 1 : i <= j => DonationEnd(n, k, i) <= DonationEnd(n, k, j)
         /\ k < n => \A j \in 0 .. k : DonationEnd(n, k, j) < DonationEnd(n, k, j + 1)
<1> DEFINE q == n \div (k + 1)
           r == n % (k + 1)
           least(j) == IF j < r THEN j ELSE r
<1>1. /\ q \in Nat /\ r \in 0 .. k /\ n = ((k + 1) * q) + r
      /\ k < n => 1 <= q
  <2>1. PICK b \in Nat \ {0} : b = k + 1
    OBVIOUS
  <2>2. /\ n \div b \in Nat /\ n % b \in 0 .. b - 1
        /\ n = (b * (n \div b)) + (n % b)
        /\ b <= n => 1 <= n \div b
    BY Quotient
  <2>3. q = n \div b /\ r = n % b
    BY <2>1
  <2> HIDE DEF q, r
  <2>. QED  BY <2>1, <2>2, <2>3
<1>2. \A j \in Nat : DonationEnd(n, k, j) = (j * q) + least(j)
  BY DEF DonationEnd
<1> HIDE DEF q, r
<1>3. /\ \A j \in Nat : j * q \in Nat /\ least(j) \in Nat
      /\ \A i, j \in Nat : i <= j => i * q <= j * q /\ least(i) <= least(j)
      /\ \A j \in Nat : (j + 1) * q = (j * q) + q
  <2>1. \A j \in Nat : j * q \in Nat /\ (j + 1) * q = (j * q) + q
    BY <1>1, Product
  <2>2. \A i, j \in Nat : i <= j => i * q <= j * q
    BY <1>1, Product
  <2>3. /\ \A j \in Nat : least(j) \in Nat
        /\ \A i, j \in Nat : i <= j => least(i) <= least(j)
    BY <1>1
  <2>. QED  BY <2>1, <2>2, <2>3
<1>4. least(0) = 0 /\ least(k + 1) = r /\ 0 * q = 0
  BY <1>1
<1> HIDE DEF least
<1>5. DonationEnd(n, k, 0) = 0 /\ DonationEnd(n, k, k + 1) = n
  <2>1. 0 \in Nat /\ k + 1 \in Nat
    OBVIOUS
  <2>. QED  BY <1>1, <1>2, <1>4, <2>1
<1>6. ASSUME NEW i \in 0 .. k + 1, NEW j \in 0 .. k + 1, i <= j
      PROVE  DonationEnd(n, k, i) <= DonationEnd(n, k, j) /\ DonationEnd(n, k, i) \in Nat
  <2>1. i \in Nat /\ j \in Nat
    BY <1>6
  <2>2. /\ i * q \in Nat /\ j * q \in Nat /\ least(i) \in Nat /\ least(j) \in Nat
        /\ i * q <= j * q /\ least(i) <= least(j)
    BY <1>3, <1>6, <2>1
  <2>3. DonationEnd(n, k, i) = (i * q) + least(i) /\ DonationEnd(n, k, j) = (j * q) + least(j)
    BY <1>2, <2>1
  <2>. QED  BY <2>2, <2>3
<1>7. ASSUME NEW j \in 0 .. k + 1 PROVE DonationEnd(n, k, j) \in 0 .. n
  <2>1. k + 1 \in 0 .. k + 1 /\ j <= k + 1
    OBVIOUS
  <2>2. DonationEnd(n, k, j) <= DonationEnd(n, k, k + 1) /\ DonationEnd(n, k, j) \in Nat
    BY <1>6, <2>1
  <2>. QED  BY <1>5, <2>2
<1>8. ASSUME k < n, NEW j \in 0 .. k
      PROVE  DonationEnd(n, k, j) < DonationEnd(n, k, j + 1)
  <2>1. j \in Nat /\ j + 1 \in Nat /\ j <= j + 1
    OBVIOUS
  <2>2. /\ j * q \in Nat /\ least(j) \in Nat /\ least(j + 1) \in Nat
        /\ (j + 1) * q = (j * q) + q /\ least(j) <= least(j + 1)
    BY <1>3, <2>1
  <2>3. DonationEnd(n, k, j) = (j * q) + least(j)
    BY <1>2, <2>1
  <2>4. DonationEnd(n, k, j + 1) = ((j + 1) * q) + least(j + 1)
    BY <1>2, <2>1
  <2>. QED  BY <1>1, <1>8, <2>2, <2>3, <2>4
<1>. QED  BY <1>5, <1>6, <1>7, <1>8

-----------------------------------------------------------------------------
(* Queues.                                                                 *)

Entries == Tasks \cup {Moved}

LEMMA Entered ==
  /\ Moved \notin Tasks /\ Tasks \subseteq Nat /\ Workers \subseteq Nat
  /\ \A q \in Seq(Entries) :
       /\ Len(q) \in Nat /\ DOMAIN q = 1 .. Len(q) /\ (q = <<>> <=> Len(q) = 0)
       /\ \A k \in DOMAIN q : q[k] \in Entries
       /\ In(q) \subseteq Tasks
       /\ \A t : t \in In(q) <=> t # Moved /\ \E k \in DOMAIN q : q[k] = t
  /\ In(<<>>) = {} /\ NoRepeats(<<>>) /\ <<>> \in Seq(Entries)
<1>1. Moved \notin Tasks /\ Tasks \subseteq Nat /\ Workers \subseteq Nat
  BY PoolAssumption DEF Moved, Tasks, Workers
<1>2. \A q \in Seq(Entries) :
        /\ Len(q) \in Nat /\ DOMAIN q = 1 .. Len(q) /\ (q = <<>> <=> Len(q) = 0)
        /\ \A k \in DOMAIN q : q[k] \in Entries
  OBVIOUS
<1>3. \A q \in Seq(Entries) : In(q) \subseteq Tasks
  BY <1>2 DEF In, Entries
<1>4. \A q \in Seq(Entries) : \A t : t \in In(q) <=> t # Moved /\ \E k \in DOMAIN q : q[k] = t
  BY DEF In
<1>5. In(<<>>) = {} /\ NoRepeats(<<>>) /\ <<>> \in Seq(Entries)
  BY DEF In, NoRepeats
<1>. QED  BY <1>1, <1>2, <1>3, <1>4, <1>5

(* A queue to which a batch is added.                                      *)
LEMMA Appended ==
  ASSUME NEW q \in Seq(Entries), NEW b \in Seq(Entries), NoRepeats(q), NoRepeats(b),
         In(q) \cap In(b) = {}
  PROVE  /\ q \o b \in Seq(Entries) /\ NoRepeats(q \o b) /\ In(q \o b) = In(q) \cup In(b)
         /\ b # <<>> \/ q # <<>> => q \o b # <<>>
         /\ (\A i \in DOMAIN q : q[i] # Moved) /\ (\A i \in DOMAIN b : b[i] # Moved)
              => \A i \in DOMAIN (q \o b) : (q \o b)[i] # Moved
<1> DEFINE c == q \o b
<1>1. /\ Len(q) \in Nat /\ DOMAIN q = 1 .. Len(q) /\ Len(b) \in Nat /\ DOMAIN b = 1 .. Len(b)
      /\ c \in Seq(Entries) /\ DOMAIN c = 1 .. Len(q) + Len(b)
      /\ \A i \in DOMAIN q : i \in DOMAIN c /\ c[i] = q[i]
      /\ \A i \in DOMAIN b : Len(q) + i \in DOMAIN c /\ c[Len(q) + i] = b[i]
      /\ \A i \in DOMAIN c : i \in DOMAIN q \/ i - Len(q) \in DOMAIN b
      /\ \A i \in DOMAIN c : i \notin DOMAIN q => c[i] = b[i - Len(q)]
      /\ b # <<>> \/ q # <<>> => c # <<>>
  OBVIOUS
<1> HIDE DEF c
<1>2. In(c) = In(q) \cup In(b)
  <2>1. ASSUME NEW t \in In(c) PROVE t \in In(q) \cup In(b)
    <3>1. PICK i \in DOMAIN c : c[i] = t /\ t # Moved
      BY DEF In
    <3>2. CASE i \in DOMAIN q
      BY <1>1, <3>1, <3>2 DEF In
    <3>3. CASE i \notin DOMAIN q
      BY <1>1, <3>1, <3>3 DEF In
    <3>. QED  BY <3>2, <3>3
  <2>2. ASSUME NEW t \in In(q) PROVE t \in In(c)
    <3>1. PICK i \in DOMAIN q : q[i] = t /\ t # Moved
      BY DEF In
    <3>. QED  BY <1>1, <3>1 DEF In
  <2>3. ASSUME NEW t \in In(b) PROVE t \in In(c)
    <3>1. PICK i \in DOMAIN b : b[i] = t /\ t # Moved
      BY DEF In
    <3>. QED  BY <1>1, <3>1 DEF In
  <2>. QED  BY <2>1, <2>2, <2>3
<1>3. NoRepeats(c)
  <2> SUFFICES ASSUME NEW i \in DOMAIN c, NEW j \in DOMAIN c, c[i] = c[j], c[i] # Moved
               PROVE  i = j
    BY DEF NoRepeats
  <2>1. CASE i \in DOMAIN q /\ j \in DOMAIN q
    BY <1>1, <2>1 DEF NoRepeats
  <2>2. CASE i \notin DOMAIN q /\ j \notin DOMAIN q
    <3>1. i - Len(q) = j - Len(q)
      BY <1>1, <2>2 DEF NoRepeats
    <3>. QED  BY <1>1, <3>1
  <2>3. CASE i \in DOMAIN q /\ j \notin DOMAIN q
    <3>1. c[i] \in In(q) /\ c[i] \in In(b)
      BY <1>1, <2>3 DEF In
    <3>. QED  BY <3>1
  <2>4. CASE i \notin DOMAIN q /\ j \in DOMAIN q
    <3>1. c[i] \in In(q) /\ c[i] \in In(b)
      BY <1>1, <2>4 DEF In
    <3>. QED  BY <3>1
  <2>. QED  BY <2>1, <2>2, <2>3, <2>4
<1>4. (\A i \in DOMAIN q : q[i] # Moved) /\ (\A i \in DOMAIN b : b[i] # Moved)
        => \A i \in DOMAIN c : c[i] # Moved
  BY <1>1
<1>. QED  BY <1>1, <1>2, <1>3, <1>4 DEF c

(* A part of a queue.                                                      *)
LEMMA PartOf ==
  ASSUME NEW q \in Seq(Entries), NEW a \in Nat, NEW e \in 0 .. Len(q), NoRepeats(q)
  PROVE  /\ SubSeq(q, a + 1, e) \in Seq(Entries) /\ NoRepeats(SubSeq(q, a + 1, e))
         /\ Len(SubSeq(q, a + 1, e)) = (IF a < e THEN e - a ELSE 0)
         /\ \A i \in DOMAIN SubSeq(q, a + 1, e) :
              a + i \in DOMAIN q /\ SubSeq(q, a + 1, e)[i] = q[a + i]
<1> DEFINE part == SubSeq(q, a + 1, e)
<1>1. Len(q) \in Nat /\ DOMAIN q = 1 .. Len(q)
  OBVIOUS
<1>2. /\ part \in Seq(Entries) /\ Len(part) = (IF a < e THEN e - a ELSE 0)
      /\ DOMAIN part = 1 .. Len(part)
      /\ \A i \in DOMAIN part : a + i \in DOMAIN q /\ part[i] = q[a + i]
  OBVIOUS
<1> HIDE DEF part
<1>3. NoRepeats(part)
  BY <1>1, <1>2 DEF NoRepeats
<1>. QED  BY <1>2, <1>3 DEF part

LEMMA InPart ==
  ASSUME NEW q \in Seq(Entries), NEW a \in Nat, NEW e \in 0 .. Len(q)
  PROVE  /\ \A t : t \in In(SubSeq(q, a + 1, e)) <=> t # Moved /\ \E i \in a + 1 .. e : q[i] = t
         /\ In(SubSeq(q, a + 1, e)) \subseteq In(q)
<1> DEFINE part == SubSeq(q, a + 1, e)
<1>1. Len(q) \in Nat /\ DOMAIN q = 1 .. Len(q)
  OBVIOUS
<1>2. /\ part \in Seq(Entries) /\ Len(part) = (IF a < e THEN e - a ELSE 0)
      /\ DOMAIN part = 1 .. Len(part)
      /\ \A i \in DOMAIN part : a + i \in DOMAIN q /\ part[i] = q[a + i]
  OBVIOUS
<1> HIDE DEF part
<1>3. \A t : t \in In(part) <=> t # Moved /\ \E i \in a + 1 .. e : q[i] = t
  <2>1. ASSUME NEW i \in a + 1 .. e PROVE i - a \in DOMAIN part /\ part[i - a] = q[i]
    BY <1>1, <1>2
  <2>2. ASSUME NEW i \in DOMAIN part PROVE a + i \in a + 1 .. e
    BY <1>2
  <2>. QED  BY <1>2, <2>1, <2>2 DEF In
<1>4. In(part) \subseteq In(q)
  BY <1>1, <1>2, <1>3 DEF In
<1>. QED  BY <1>3, <1>4 DEF part

(* A queue from which a part was moved.                                    *)
WithoutPart(q, a, e, rest) ==
  /\ DOMAIN rest = DOMAIN q
  /\ \A i \in DOMAIN q : rest[i] = IF i \in a + 1 .. e THEN Moved ELSE q[i]

LEMMA MovedOut ==
  ASSUME NEW q \in Seq(Entries), NEW a \in Nat, NEW e \in 0 .. Len(q), NoRepeats(q),
         NEW rest \in Seq(Entries), WithoutPart(q, a, e, rest)
  PROVE  /\ NoRepeats(rest) /\ Len(rest) = Len(q)
         /\ In(rest) = In(q) \ In(SubSeq(q, a + 1, e))
<1>1. Len(q) \in Nat /\ DOMAIN q = 1 .. Len(q) /\ \A i \in DOMAIN q : q[i] \in Entries
  OBVIOUS
<1>2. /\ Len(rest) = Len(q) /\ DOMAIN rest = DOMAIN q
      /\ \A i \in DOMAIN q : rest[i] = IF i \in a + 1 .. e THEN Moved ELSE q[i]
  BY DEF WithoutPart
<1>3. NoRepeats(rest)
  BY <1>2 DEF NoRepeats
<1>4. \A t : t \in In(SubSeq(q, a + 1, e)) <=> t # Moved /\ \E i \in a + 1 .. e : q[i] = t
  BY InPart
<1>5. \A t : t \in In(rest) <=> t \in In(q) /\ t \notin In(SubSeq(q, a + 1, e))
  <2>1. a + 1 .. e \subseteq DOMAIN q
    BY <1>1
  <2>2. \A t : t \in In(rest) <=> t # Moved /\ \E i \in DOMAIN q : rest[i] = t
    BY <1>2 DEF In
  <2>3. \A t : t \in In(q) <=> t # Moved /\ \E i \in DOMAIN q : q[i] = t
    BY <1>2 DEF In
  <2>4. \A t : t \in In(rest) => t \in In(q) /\ \A i \in a + 1 .. e : q[i] # t
    BY <1>1, <1>2, <2>1, <2>2, <2>3 DEF NoRepeats
  <2>5. \A t : t \in In(q) /\ (\A i \in a + 1 .. e : q[i] # t) => t \in In(rest)
    BY <1>1, <1>2, <2>1, <2>2, <2>3
  <2>. QED  BY <1>4, <2>3, <2>4, <2>5
<1>. QED  BY <1>2, <1>3, <1>5

(* A queue without its last task.                                          *)
LEMMA Popped ==
  ASSUME NEW q \in Seq(Entries), NoRepeats(q), Len(q) > 0
  PROVE  LET rest == SubSeq(q, 1, Len(q) - 1)
             t == q[Len(q)]
         IN /\ t \in Entries /\ rest \in Seq(Entries) /\ NoRepeats(rest)
            /\ \A i \in DOMAIN rest : i \in DOMAIN q /\ rest[i] = q[i]
            /\ t # Moved => t \in In(q)
            /\ In(rest) = In(q) \ {t}
<1> DEFINE n == Len(q)
           rest == SubSeq(q, 1, n - 1)
<1>1. n \in Nat /\ n > 0 /\ DOMAIN q = 1 .. n /\ q[n] \in Entries
  OBVIOUS
<1>2. /\ rest \in Seq(Entries) /\ NoRepeats(rest)
      /\ \A i \in DOMAIN rest : 0 + i \in DOMAIN q /\ rest[i] = q[0 + i]
      /\ \A t : t \in In(rest) <=> t # Moved /\ \E i \in 1 .. n - 1 : q[i] = t
      /\ Len(rest) = n - 1 /\ DOMAIN rest = 1 .. n - 1
  <2>1. n - 1 \in 0 .. Len(q) /\ 0 + 1 = 1 /\ 0 \in Nat
    OBVIOUS
  <2>2. /\ rest \in Seq(Entries) /\ NoRepeats(rest)
        /\ Len(rest) = (IF 0 < n - 1 THEN n - 1 - 0 ELSE 0)
        /\ \A i \in DOMAIN rest : 0 + i \in DOMAIN q /\ rest[i] = q[0 + i]
    BY <2>1, PartOf
  <2>3. \A t : t \in In(rest) <=> t # Moved /\ \E i \in 1 .. n - 1 : q[i] = t
    <3>1. \A a \in Nat : \A e \in 0 .. Len(q) : \A t :
            t \in In(SubSeq(q, a + 1, e)) <=> t # Moved /\ \E i \in a + 1 .. e : q[i] = t
      BY InPart
    <3>2. \A t : t \in In(SubSeq(q, 0 + 1, n - 1)) <=> t # Moved /\ \E i \in 0 + 1 .. n - 1 : q[i] = t
      BY <2>1, <3>1
    <3>. QED  BY <2>1, <3>2
  <2>. QED  BY <1>1, <2>2, <2>3
<1> HIDE DEF n, rest
<1>3. \A i \in DOMAIN rest : i \in DOMAIN q /\ rest[i] = q[i]
  BY <1>1, <1>2
<1>4. \A t : t \in In(q) <=> t # Moved /\ \E i \in 1 .. n : q[i] = t
  BY <1>1 DEF In
<1>5. \A t : t \in In(rest) <=> t \in In(q) /\ t # q[n]
  BY <1>1, <1>2, <1>4 DEF NoRepeats
<1>6. q[n] # Moved => q[n] \in In(q)
  BY <1>1, <1>4
<1>. QED  BY <1>1, <1>2, <1>3, <1>5, <1>6 DEF n, rest

-----------------------------------------------------------------------------
(* The ring of idle workers: InRing lists the chosen ones, each once.      *)
LEMMA Ring ==
  ASSUME NEW w \in Workers, NEW chosen \in SUBSET Workers
  PROVE  /\ InRing(w, chosen) \in Seq(Workers)
         /\ Cardinality(chosen) \in Nat
         /\ Len(InRing(w, chosen)) = Cardinality(chosen)
         /\ \A v \in chosen : \E i \in DOMAIN InRing(w, chosen) : InRing(w, chosen)[i] = v
         /\ InRing(w, chosen) = <<>> => chosen = {}
<1> DEFINE c == Cardinality(chosen)
           nearer(v) == {u \in chosen : Distance(w, u) < Distance(w, v)}
           rank == [v \in chosen |-> Cardinality(nearer(v)) + 1]
           ring == InRing(w, chosen)
<1>1. /\ \A v \in Workers : Distance(w, v) \in Nat
      /\ \A u, v \in Workers : Distance(w, u) = Distance(w, v) => u = v
  BY PoolAssumption DEF Distance, Workers
<1>2. IsFiniteSet(chosen) /\ c \in Nat
  <2>1. IsFiniteSet(Workers)
    BY PoolAssumption, FS_Interval DEF Workers
  <2>. QED  BY <2>1, FS_Subset, FS_CardinalityType
<1>3. ASSUME NEW v \in chosen
      PROVE  /\ IsFiniteSet(nearer(v)) /\ Cardinality(nearer(v)) \in Nat
             /\ Cardinality(nearer(v)) < c
  <2>1. nearer(v) \in SUBSET chosen /\ v \notin nearer(v)
    BY <1>1
  <2> HIDE DEF nearer
  <2>2. IsFiniteSet(nearer(v)) /\ Cardinality(nearer(v)) <= c /\ Cardinality(nearer(v)) # c
    BY <1>2, <2>1, FS_Subset
  <2>3. Cardinality(nearer(v)) \in Nat
    BY <2>2, FS_CardinalityType
  <2>. QED  BY <1>2, <2>2, <2>3
<1>4. ASSUME NEW u \in chosen, NEW v \in chosen, Distance(w, u) < Distance(w, v)
      PROVE  rank[u] < rank[v]
  <2>1. nearer(u) \in SUBSET nearer(v) /\ u \in nearer(v) /\ u \notin nearer(u)
    BY <1>1, <1>4
  <2>2. Cardinality(nearer(u)) <= Cardinality(nearer(v)) /\ Cardinality(nearer(u)) # Cardinality(nearer(v))
    <3> HIDE DEF nearer
    <3>. QED  BY <1>3, <2>1, FS_Subset
  <2>3. rank[u] = Cardinality(nearer(u)) + 1 /\ rank[v] = Cardinality(nearer(v)) + 1
    BY DEF rank
  <2>. QED  BY <1>3, <2>2, <2>3
<1>5. \A u, v \in chosen : rank[u] = rank[v] => u = v
  <2> SUFFICES ASSUME NEW u \in chosen, NEW v \in chosen, rank[u] = rank[v], u # v PROVE FALSE
    OBVIOUS
  <2>1. rank[u] \in Nat /\ rank[v] \in Nat
    BY <1>3
  <2>2. Distance(w, u) < Distance(w, v) \/ Distance(w, v) < Distance(w, u)
    BY <1>1
  <2> HIDE DEF rank
  <2>. QED  BY <1>4, <2>1, <2>2
<1>6. rank \in Surjection(chosen, 1 .. c)
  <2>1. rank \in [chosen -> 1 .. c]
    BY <1>2, <1>3
  <2>2. rank \in Injection(chosen, 1 .. c)
    <3> HIDE DEF rank
    <3>. QED  BY <1>5, <2>1 DEF Injection, IsInjective
  <2>3. IsFiniteSet(1 .. c) /\ Cardinality(1 .. c) = c
    BY <1>2, FS_Interval
  <2> HIDE DEF rank
  <2>. QED  BY <2>2, <2>3, FS_Injection
<1>7. \A i \in 1 .. c : \E v \in chosen : rank[v] = i
  BY <1>6 DEF Surjection
<1>8. DOMAIN ring = 1 .. c /\ \A i \in 1 .. c : ring[i] \in chosen /\ rank[ring[i]] = i
  <2>1. ring = [i \in 1 .. c |-> CHOOSE v \in chosen : Cardinality(nearer(v)) = i - 1]
    BY DEF InRing
  <2>2. ASSUME NEW i \in 1 .. c
        PROVE  \E v \in chosen : Cardinality(nearer(v)) = i - 1
    <3>1. PICK v \in chosen : rank[v] = i
      BY <1>7
    <3>2. rank[v] = Cardinality(nearer(v)) + 1
      BY DEF rank
    <3> HIDE DEF rank, nearer
    <3>3. Cardinality(nearer(v)) \in Nat /\ i \in Nat
      BY <1>2, <1>3
    <3>. QED  BY <3>1, <3>2, <3>3
  <2>3. ASSUME NEW i \in 1 .. c
        PROVE  ring[i] \in chosen /\ rank[ring[i]] = i
    <3> HIDE DEF nearer
    <3>1. ring[i] \in chosen /\ Cardinality(nearer(ring[i])) = i - 1
      BY <2>1, <2>2
    <3>2. i \in Nat
      BY <1>2
    <3>. QED  BY <3>1, <3>2
  <2>. QED  BY <2>1, <2>3
<1>9. /\ ring \in Seq(Workers) /\ Len(ring) = c
  <2>1. ring = [i \in 1 .. c |-> ring[i]]
    BY DEF InRing
  <2> HIDE DEF ring, rank, nearer
  <2>2. ring \in [1 .. c -> Workers]
    BY <1>8, <2>1
  <2>. QED  BY <1>2, <2>2
<1> HIDE DEF rank, ring, nearer
<1>10. ASSUME NEW v \in chosen PROVE \E i \in DOMAIN ring : ring[i] = v
  <2>1. rank[v] \in 1 .. c
    BY <1>6 DEF Surjection
  <2>. QED  BY <1>5, <1>8, <2>1
<1>11. ring = <<>> => chosen = {}
  BY <1>10
<1>. QED  BY <1>2, <1>9, <1>10, <1>11 DEF ring

-----------------------------------------------------------------------------
(* What the steps of a thread have in common.                              *)

(* The types, variable by variable.                                        *)
LEMMA Types ==
  ASSUME TypeOK
  PROVE  /\ \A w \in Workers :
              /\ publicQueue[w] \in Seq(Entries) /\ privateQueue[w] \in Seq(Entries)
              /\ idleBuffer[w] \in Seq(Workers) /\ donated[w] \in Nat
              /\ idle[w] \in BOOLEAN /\ found[w] \in BOOLEAN /\ signalled[w] \in BOOLEAN
              /\ abort[w] \in BOOLEAN /\ atomicAbort[w] \in BOOLEAN
              /\ wpc[w] \in WorkerPCs /\ current[w] \in Tasks \cup {Nobody}
         /\ \A s \in Senders : target[s] \in Workers \cup {Nobody} /\ carried[s] \in Seq(Share)
         /\ \A p \in Producers : ppc[p] \in ProducerPCs
         /\ idle \in [Workers -> BOOLEAN] /\ found \in [Workers -> BOOLEAN]
         /\ signalled \in [Workers -> BOOLEAN] /\ abort \in [Workers -> BOOLEAN]
         /\ atomicAbort \in [Workers -> BOOLEAN]
BY DEF TypeOK, Entries, Senders

(* A share has tasks, none of them moved.                                  *)
LEMMA Batch ==
  ASSUME NEW b \in Seq(Tasks)
  PROVE  b \in Seq(Entries) /\ In(b) \subseteq Tasks /\ \A i \in DOMAIN b : b[i] # Moved
<1>1. b \in Seq(Entries)
  BY DEF Entries
<1>2. \A i \in DOMAIN b : b[i] \in Tasks
  OBVIOUS
<1>. QED  BY <1>1, <1>2, Entered

LEMMA SharesTyped ==
  ASSUME TypeOK, NEW s \in Senders, NEW k \in DOMAIN carried[s]
  PROVE  /\ carried[s][k].tasks \in Seq(Tasks) /\ carried[s][k].to \in Workers \cup {Nobody}
         /\ carried[s][k].tasks \in Seq(Entries) /\ In(carried[s][k].tasks) \subseteq Tasks
         /\ \A i \in DOMAIN carried[s][k].tasks : carried[s][k].tasks[i] # Moved
<1>1. carried[s] \in Seq(Share)
  BY Types
<1>2. carried[s][k] \in Share
  BY <1>1
<1>3. carried[s][k].tasks \in Seq(Tasks) /\ carried[s][k].to \in Workers \cup {Nobody}
  BY <1>2 DEF Share
<1>. QED  BY <1>3, Batch

(* What has been aborted stays as it is if nobody touches it.              *)
LEMMA CloserKept ==
  ASSUME CloserInOrder, UNCHANGED <<aborts, closer>>,
         \A v \in Workers : abort[v] /\ wpc[v] = "off" =>
           wpc'[v] = "off" /\ publicQueue'[v] = publicQueue[v] /\ privateQueue'[v] = privateQueue[v]
  PROVE  CloserInOrder'
<1>1. spc' = spc /\ closing' = closing /\ abort' = abort /\ atomicAbort' = atomicAbort
      /\ poolAbort' = poolAbort
  BY DEF aborts, closer
<1>2. \A w \in Workers : w < closing => abort[w]
  BY DEF CloserInOrder
<1>3. spc = "clear" => closing \in Workers /\ abort[closing]
  BY DEF CloserInOrder
<1>. QED  BY <1>1, <1>2, <1>3 DEF CloserInOrder

(* Nobody is aborted before the shutdown.                                  *)
LEMMA AbortIsShutDown ==
  ASSUME CloserInOrder, NEW w \in Workers, abort[w] \/ atomicAbort[w]
  PROVE  poolAbort
<1>1. w >= 1 /\ w \in Nat
  BY PoolAssumption DEF Workers
<1>. QED  BY <1>1 DEF CloserInOrder

(* A worker at whose donations nothing changes.                            *)
LEMMA DonationKept ==
  ASSUME NEW w \in Workers, Donation(w), UNCHANGED aborts,
         Donating(w)' <=> Donating(w), wpc'[w] = "pop" => wpc[w] = "pop",
         privateQueue'[w] = privateQueue[w],
         \/ publicQueue'[w] = publicQueue[w]
         \/ ~poolAbort => \A i \in DOMAIN publicQueue'[w] : publicQueue'[w][i] # Moved,
         idleBuffer'[w] = idleBuffer[w], donated'[w] = donated[w]
  PROVE  Donation(w)'
BY DEF Donation, aborts

(* A step of the thread of worker x that is not enqueueing anything.       *)
LEMMA ThreadMoves ==
  ASSUME IInv, NEW x \in Workers, NEW y \in WorkerPCs,
         wpc[x] \notin {"off", "enqueue", "release", "releaseDonation"},
         wpc[x] = "donate" => donated[x] = Len(idleBuffer[x]),
         y \notin {"enqueue", "release", "releaseDonation"},
         wpc' = [wpc EXCEPT ![x] = y],
         UNCHANGED <<aborts, sending, ppc, closer>>,
         idle'[x] <=> y = "off",
         \A u \in Workers : u # x =>
           /\ publicQueue'[u] = publicQueue[u] /\ privateQueue'[u] = privateQueue[u]
           /\ idleBuffer'[u] = idleBuffer[u] /\ donated'[u] = donated[u]
           /\ idle'[u] = idle[u] /\ found'[u] = found[u] /\ signalled'[u] = signalled[u]
  PROVE  /\ OffIsIdle' /\ CloserInOrder' /\ SendersInOrder'
         /\ \A u \in Workers : u # x => Donation(u)' /\ Wakeup(u)'
         /\ \A u \in Workers : WillSignal(u) => WillSignal(u)'
         /\ \A u \in Workers : Marked(u) /\ (u \in idleSet => u \in idleSet') => Marked(u)'
         /\ \A u \in Workers : u # x /\ Unemployed(u)' => Unemployed(u)
<1> USE DEF aborts, sending, closer
<1>1. /\ wpc'[x] = y /\ \A u \in Workers : u # x => wpc'[u] = wpc[u]
      /\ TypeOK /\ SendersInOrder /\ CloserInOrder
  BY DEF IInv, TypeOK
<1>2. OffIsIdle'
  BY <1>1 DEF IInv, OffIsIdle
<1>3. CloserInOrder'
  <2>1. \A v \in Workers : abort[v] /\ wpc[v] = "off" => v # x
    OBVIOUS
  <2>. QED  BY <1>1, <2>1, CloserKept
<1>4. SendersInOrder'
  BY <1>1 DEF SendersInOrder, Senders
<1>5. \A u \in Workers : WillSignal(u) => WillSignal(u)'
  BY <1>1 DEF WillSignal
<1>6. \A u \in Workers : Marked(u) /\ (u \in idleSet => u \in idleSet') => Marked(u)'
  <2> SUFFICES ASSUME NEW u \in Workers, Marked(u), u \in idleSet => u \in idleSet' PROVE Marked(u)'
    OBVIOUS
  <2>1. \A v \in Workers : Donating(v)
                         /\ (\E k \in donated[v] + 1 .. Len(idleBuffer[v]) : idleBuffer[v][k] = u)
          => v # x
    <3>1. donated[x] \in Nat /\ Len(idleBuffer[x]) \in Nat
      BY <1>1, Types
    <3>. QED  BY <3>1 DEF Donating
  <2>2. \A v \in Workers : v # x /\ Donating(v) => Donating(v)'
    BY <1>1 DEF Donating
  <2>3. \A v \in Workers : wpc[v] = "enqueue" => wpc'[v] = "enqueue"
    BY <1>1
  <2>. QED  BY <2>1, <2>2, <2>3 DEF Marked
<1>7. ASSUME NEW u \in Workers, u # x PROVE Donation(u)' /\ Wakeup(u)'
  <2>1. Donation(u) /\ Wakeup(u)
    BY DEF IInv, DonationsInOrder, Wakeups
  <2>2. Donating(u)' <=> Donating(u)
    BY <1>1, <1>7 DEF Donating
  <2>3. Donation(u)'
    BY <1>1, <1>7, <2>1, <2>2, DonationKept
  <2>4. Wakeup(u)'
    BY <1>1, <1>5, <1>7, <2>1 DEF Wakeup
  <2>. QED  BY <2>3, <2>4
<1>8. \A u \in Workers : u # x /\ Unemployed(u)' => Unemployed(u)
  BY <1>1 DEF Unemployed
<1>. QED  BY <1>2, <1>3, <1>4, <1>5, <1>6, <1>7, <1>8

(* Queues that are only swapped, and workers that run what they ran.       *)
LEMMA QueuesKept ==
  ASSUME QueuesApart, fate' = fate,
         \A w \in Workers :
           \/ publicQueue'[w] = publicQueue[w] /\ privateQueue'[w] = privateQueue[w]
           \/ publicQueue'[w] = privateQueue[w] /\ privateQueue'[w] = publicQueue[w]
  PROVE  QueuesApart'
<1>1. \A w \in Workers : Has(w)' = Has(w)
  BY DEF Has
<1>2. \A w \in Workers : /\ NoRepeats(publicQueue[w])' /\ NoRepeats(privateQueue[w])'
                         /\ In(publicQueue[w])' \cap In(privateQueue[w])' = {}
  BY DEF QueuesApart
<1>. QED  BY <1>1, <1>2 DEF QueuesApart

LEMMA RunningKept ==
  ASSUME RunningApart, UNCHANGED current,
         \A t \in Tasks : fate'[t] = "running" <=> fate[t] = "running",
         \A w \in Workers : Running(w)' <=> Running(w)
  PROVE  RunningApart'
BY DEF RunningApart

LEMMA CarriedKept ==
  ASSUME CarriedNew, UNCHANGED <<offered, fate, carried>>
  PROVE  CarriedNew'
BY DEF CarriedNew

-----------------------------------------------------------------------------
(* The thread waits for tasks.                                             *)

Waiting == {"drain", "markIdle", "wait", "recheck", "ending"}

(* What remains to be shown of a step of a waiting thread: that the worker *)
(* does not sleep on work, and that it is marked if it has none.           *)
LEMMA WaitingIInv ==
  ASSUME IInv, NEW w \in Workers, NEW y \in Waiting \cup {"off", "balance"}, wpc[w] \in Waiting,
         wpc' = [wpc EXCEPT ![w] = y],
         UNCHANGED <<aborts, balance, sending, ppc, cursor, closer, tasks, current>>,
         TypeOK', idle'[w] <=> y = "off",
         \A u \in Workers : u # w =>
           /\ publicQueue'[u] = publicQueue[u] /\ privateQueue'[u] = privateQueue[u]
           /\ idle'[u] = idle[u] /\ found'[u] = found[u] /\ signalled'[u] = signalled[u],
         \/ publicQueue'[w] = publicQueue[w] /\ privateQueue'[w] = privateQueue[w]
         \/ publicQueue'[w] = privateQueue[w] /\ privateQueue'[w] = publicQueue[w],
         \A u \in Workers : u # w /\ u \in idleSet => u \in idleSet',
         Wakeup(w)', ~poolAbort /\ Unemployed(w)' => Marked(w)'
  PROVE  IInv'
<1> USE DEF aborts, balance, sending, closer, tasks
<1>1. TypeOK /\ CloserInOrder /\ QueuesApart /\ RunningApart /\ CarriedNew
  BY DEF IInv
<1>2. /\ wpc'[w] = y /\ \A u \in Workers : u # w => wpc'[u] = wpc[u]
      /\ y \in WorkerPCs
  BY <1>1 DEF TypeOK, Waiting, WorkerPCs
<1>3. wpc[w] \notin {"off", "enqueue", "release", "releaseDonation", "donate"}
  BY DEF Waiting
<1>4. y \notin {"enqueue", "release", "releaseDonation"}
  BY DEF Waiting
<1>5. /\ OffIsIdle' /\ CloserInOrder' /\ SendersInOrder'
      /\ \A u \in Workers : u # w => Donation(u)' /\ Wakeup(u)'
      /\ \A u \in Workers : Marked(u) /\ (u \in idleSet => u \in idleSet') => Marked(u)'
      /\ \A u \in Workers : u # w /\ Unemployed(u)' => Unemployed(u)
  BY <1>1, <1>2, <1>3, <1>4, ThreadMoves
<1>6. DonationsInOrder'
  <2>1. Donation(w) /\ ~Donating(w) /\ ~Donating(w)' /\ wpc'[w] # "pop"
    BY <1>2 DEF IInv, DonationsInOrder, Donating, Waiting
  <2>2. /\ \A i \in DOMAIN publicQueue[w] : ~poolAbort => publicQueue[w][i] # Moved
        /\ \A i \in DOMAIN privateQueue[w] : ~poolAbort => privateQueue[w][i] # Moved
        /\ idleBuffer[w] # <<>> => \E i \in 1 .. Len(idleBuffer[w]) : abort[idleBuffer[w][i]]
    <3>1. /\ idleBuffer[w] # <<>> => \E i \in 1 .. Len(idleBuffer[w]) : abort[idleBuffer[w][i]]
          /\ ~poolAbort => \A i \in 1 .. Len(privateQueue[w]) : privateQueue[w][i] # Moved
          /\ ~poolAbort => \A i \in DOMAIN publicQueue[w] : publicQueue[w][i] # Moved
      BY <2>1 DEF Donation
    <3>2. privateQueue[w] \in Seq(Entries)
      BY <1>1, Types
    <3>3. DOMAIN privateQueue[w] = 1 .. Len(privateQueue[w])
      BY <3>2, Entered
    <3>. QED
      BY <3>1, <3>3
  <2>3. /\ \A i \in DOMAIN publicQueue'[w] : ~poolAbort => publicQueue'[w][i] # Moved
        /\ \A i \in DOMAIN privateQueue'[w] : ~poolAbort => privateQueue'[w][i] # Moved
    BY <2>2
  <2>4. privateQueue'[w] \in Seq(Entries)
    BY <1>1, Types
  <2>5. DOMAIN privateQueue'[w] = 1 .. Len(privateQueue'[w])
    BY <2>4
  <2>6. Donation(w)'
    BY <2>1, <2>2, <2>3, <2>5 DEF Donation
  <2>. QED  BY <1>5, <2>6 DEF DonationsInOrder
<1>7. Wakeups'
  BY <1>5 DEF Wakeups
<1>8. MarkedIdle'
  BY <1>5 DEF IInv, MarkedIdle
<1>9. QueuesApart'
  <2>1. fate' = fate
    OBVIOUS
  <2>. QED  BY <1>1, <2>1, QueuesKept
<1>10. RunningApart'
  BY <1>1, <1>2, RunningKept DEF Running, Waiting
<1>11. CarriedNew'
  BY <1>1, CarriedKept
<1>. QED  BY <1>5, <1>6, <1>7, <1>8, <1>9, <1>10, <1>11 DEF IInv

LEMMA DrainQueueIInv == ASSUME IInv, NEW w \in Workers, DrainQueue(w) PROVE IInv'
<1> USE DEF DrainQueue, aborts, balance, sending, closer, tasks, queues
<1>1. TypeOK /\ wpc[w] = "drain" /\ CloserInOrder
  BY DEF IInv
<1>2. TypeOK'
  <2>1. /\ publicQueue' \in [Workers -> Seq(Tasks \cup {Moved})]
        /\ privateQueue' \in [Workers -> Seq(Tasks \cup {Moved})]
    BY <1>1 DEF TypeOK, TakeQueue
  <2>2. idle' \in [Workers -> BOOLEAN] /\ found' \in [Workers -> BOOLEAN]
    BY <1>1, Types DEF TakeQueue
  <2>3. \A f \in {idle', found', signalled', abort', atomicAbort'} : f \in [Workers -> BOOLEAN]
    BY <1>1, <2>2, Types
  <2>4. wpc' = [wpc EXCEPT ![w] = "off"] \/ wpc' = [wpc EXCEPT ![w] = "balance"]
        \/ wpc' = [wpc EXCEPT ![w] = "markIdle"]
    BY DEF TakeQueue
  <2>5. wpc' \in [Workers -> WorkerPCs]
    BY <1>1, <2>4 DEF TypeOK, WorkerPCs
  <2>. QED  BY <1>1, <2>1, <2>3, <2>5 DEF TypeOK
<1>3. PICK y \in {"off", "balance", "markIdle"} : wpc' = [wpc EXCEPT ![w] = y]
  BY DEF TakeQueue
<1>4. /\ idle'[w] <=> y = "off"
      /\ \A u \in Workers : u # w =>
           /\ publicQueue'[u] = publicQueue[u] /\ privateQueue'[u] = privateQueue[u]
           /\ idle'[u] = idle[u] /\ found'[u] = found[u]
      /\ \/ publicQueue'[w] = publicQueue[w] /\ privateQueue'[w] = privateQueue[w]
         \/ publicQueue'[w] = privateQueue[w] /\ privateQueue'[w] = publicQueue[w]
      /\ y = "off" => abort[w]
      /\ y = "markIdle" => publicQueue'[w] = <<>> /\ ~abort[w]
      /\ wpc'[w] = y
  BY <1>1, <1>3 DEF IInv, OffIsIdle, TakeQueue, TypeOK
<1>5. Wakeup(w)' /\ (~poolAbort => ~Unemployed(w)')
  BY <1>1, <1>4, AbortIsShutDown DEF Wakeup, Unemployed
<1>. QED  BY <1>1, <1>2, <1>3, <1>4, <1>5, WaitingIInv DEF Waiting

LEMMA MarkIdleIInv == ASSUME IInv, NEW w \in Workers, MarkIdle(w) PROVE IInv'
<1> USE DEF MarkIdle, SetIdle, aborts, balance, sending, closer, tasks, queues, flags
<1>1. TypeOK /\ OffIsIdle /\ Wakeup(w)
  BY DEF IInv, Wakeups
<1>2. TypeOK'
  BY <1>1 DEF TypeOK, WorkerPCs
<1>3. idle[w] <=> FALSE
  BY <1>1 DEF OffIsIdle
<1>4. wpc'[w] = "wait" /\ Wakeup(w)' /\ Marked(w)'
  <2>1. wpc'[w] = "wait" /\ \A u \in Workers : u # w => wpc'[u] = wpc[u]
    BY <1>1 DEF TypeOK
  <2>2. WillSignal(w) => WillSignal(w)'
    BY <2>1 DEF WillSignal
  <2>. QED  BY <1>1, <2>1, <2>2 DEF Wakeup, Marked
<1>. QED  BY <1>1, <1>2, <1>3, <1>4, WaitingIInv DEF Waiting

LEMMA AcquireIInv == ASSUME IInv, NEW w \in Workers, Acquire(w) PROVE IInv'
<1> USE DEF Acquire, aborts, balance, sending, closer, tasks, queues
<1>1. TypeOK /\ OffIsIdle /\ Wakeup(w) /\ (~poolAbort /\ Unemployed(w) => Marked(w))
  BY DEF IInv, Wakeups, MarkedIdle
<1>2. PICK y \in {"recheck", "wait"} : y = IF found[w] THEN "recheck" ELSE "wait"
  BY <1>1, Types
<1>3. wpc' = [wpc EXCEPT ![w] = y] /\ wpc'[w] = y /\ \A u \in Workers : u # w => wpc'[u] = wpc[u]
  BY <1>1, <1>2 DEF TypeOK
<1>4. TypeOK'
  <2>1. signalled' \in [Workers -> BOOLEAN]
    BY <1>1, Types
  <2>2. \A f \in {idle', found', signalled', abort', atomicAbort'} : f \in [Workers -> BOOLEAN]
    BY <1>1, <2>1, Types
  <2>. QED  BY <1>1, <1>3, <2>2 DEF TypeOK, WorkerPCs
<1>5. idle[w] <=> FALSE
  BY <1>1 DEF OffIsIdle
<1>6. \A u \in Workers : u # w => signalled'[u] = signalled[u]
  BY <1>1, Types
<1>7. (WillSignal(w) => WillSignal(w)') /\ (Marked(w) => Marked(w)')
  BY <1>3 DEF WillSignal, Marked, Donating
<1>8. Wakeup(w)'
  BY <1>1, <1>2, <1>3, <1>7 DEF Wakeup, WillSignal
<1>9. ~poolAbort /\ Unemployed(w)' => Marked(w)'
  BY <1>1, <1>3, <1>7 DEF Unemployed
<1>. QED  BY <1>2, <1>3, <1>4, <1>5, <1>6, <1>8, <1>9, WaitingIInv DEF Waiting

LEMMA TimeOutIInv == ASSUME IInv, NEW w \in Workers, TimeOut(w) PROVE IInv'
<1> USE DEF TimeOut, aborts, balance, sending, closer, tasks, queues, flags
<1>1. TypeOK /\ OffIsIdle /\ (~poolAbort /\ Unemployed(w) => Marked(w))
  BY DEF IInv, MarkedIdle
<1>2. wpc'[w] = "ending" /\ \A u \in Workers : u # w => wpc'[u] = wpc[u]
  BY <1>1 DEF TypeOK
<1>3. TypeOK'
  BY <1>1 DEF TypeOK, WorkerPCs
<1>4. idle[w] <=> FALSE
  BY <1>1 DEF OffIsIdle
<1>5. Wakeup(w)'
  BY <1>2 DEF Wakeup
<1>6. ~poolAbort /\ Unemployed(w)' => Marked(w)'
  <2>1. Marked(w) => Marked(w)'
    BY <1>2 DEF Marked, Donating
  <2>. QED  BY <1>1, <1>2, <2>1 DEF Unemployed
<1>. QED  BY <1>3, <1>4, <1>5, <1>6, WaitingIInv DEF Waiting

LEMMA EndThreadIInv == ASSUME IInv, NEW w \in Workers, EndThread(w) PROVE IInv'
<1> USE DEF EndThread, aborts, balance, sending, closer, tasks, queues, flags
<1>1. TypeOK /\ OffIsIdle /\ (~poolAbort /\ Unemployed(w) => Marked(w))
  BY DEF IInv, MarkedIdle
<1>2. wpc'[w] = "off" /\ \A u \in Workers : u # w => wpc'[u] = wpc[u]
  BY <1>1 DEF TypeOK
<1>3. TypeOK'
  <2>1. idle' \in [Workers -> BOOLEAN]
    BY <1>1, Types
  <2>2. \A f \in {idle', found', signalled', abort', atomicAbort'} : f \in [Workers -> BOOLEAN]
    BY <1>1, <2>1, Types
  <2>. QED  BY <1>1, <2>2 DEF TypeOK, WorkerPCs
<1>4. (idle'[w] <=> TRUE) /\ \A u \in Workers : u # w => idle'[u] = idle[u]
  BY <1>1, Types
<1>5. Wakeup(w)'
  BY <1>2 DEF Wakeup
<1>6. ~poolAbort /\ Unemployed(w)' => Marked(w)'
  <2>1. Marked(w) => Marked(w)'
    BY <1>2 DEF Marked, Donating
  <2>. QED  BY <1>1, <1>2, <2>1 DEF Unemployed
<1>. QED  BY <1>3, <1>4, <1>5, <1>6, WaitingIInv DEF Waiting

LEMMA RecheckIInv == ASSUME IInv, NEW w \in Workers, Recheck(w) PROVE IInv'
<1> USE DEF Recheck, SetActive, aborts, balance, sending, closer, tasks, queues
<1>1. /\ TypeOK /\ wpc[w] = "recheck" /\ CloserInOrder /\ OffIsIdle
      /\ ~poolAbort /\ Unemployed(w) => Marked(w)
  BY DEF IInv, MarkedIdle
<1>2. CASE publicQueue[w] = <<>> /\ ~abort[w] /\ UNCHANGED <<queues, idleSet, idle, found>>
           /\ wpc' = [wpc EXCEPT ![w] = "wait"]
  <2>1. wpc'[w] = "wait" /\ \A u \in Workers : u # w => wpc'[u] = wpc[u]
    BY <1>1, <1>2 DEF TypeOK
  <2>2. TypeOK'
    BY <1>1, <1>2 DEF TypeOK, WorkerPCs
  <2>3. (idle'[w] <=> FALSE) /\ Wakeup(w)'
    BY <1>1, <1>2, <2>1 DEF OffIsIdle, Wakeup
  <2>4. ~poolAbort /\ Unemployed(w)' => Marked(w)'
    <3>1. Marked(w) => Marked(w)'
      BY <1>1, <1>2, <2>1 DEF Marked, Donating
    <3>. QED  BY <1>1, <1>2, <2>1, <3>1 DEF Unemployed
  <2>. QED  BY <1>1, <1>2, <2>2, <2>3, <2>4, WaitingIInv DEF Waiting
<1>3. CASE abort[w] /\ UNCHANGED <<queues, idleSet, found>>
           /\ idle' = [idle EXCEPT ![w] = TRUE] /\ wpc' = [wpc EXCEPT ![w] = "off"]
  <2>1. wpc'[w] = "off"
    BY <1>1, <1>3 DEF TypeOK
  <2>2. TypeOK'
    <3>1. idle' \in [Workers -> BOOLEAN]
      BY <1>1, <1>3, Types
    <3>2. \A f \in {idle', found', signalled', abort', atomicAbort'} : f \in [Workers -> BOOLEAN]
      BY <1>1, <1>3, <3>1, Types
    <3>. QED  BY <1>1, <1>3, <3>2 DEF TypeOK, WorkerPCs
  <2>3. (idle'[w] <=> TRUE) /\ (\A u \in Workers : u # w => idle'[u] = idle[u]) /\ Wakeup(w)'
    BY <1>1, <1>3, <2>1, Types DEF Wakeup
  <2>4. poolAbort
    BY <1>1, <1>3, AbortIsShutDown
  <2>. QED  BY <1>1, <1>3, <2>2, <2>3, <2>4, WaitingIInv DEF Waiting
<1>4. CASE publicQueue[w] # <<>> /\ ~abort[w] /\ idleSet' = idleSet \ {w} /\ TakeQueue(w)
  <2>1. /\ wpc' = [wpc EXCEPT ![w] = "balance"] /\ idle' = idle
        /\ found' = [found EXCEPT ![w] = FALSE]
        /\ privateQueue' = [privateQueue EXCEPT ![w] = publicQueue[w]]
        /\ publicQueue' = [publicQueue EXCEPT ![w] = privateQueue[w]]
    BY <1>4 DEF TakeQueue
  <2>2. /\ wpc'[w] = "balance" /\ (idle'[w] <=> FALSE)
        /\ publicQueue'[w] = privateQueue[w] /\ privateQueue'[w] = publicQueue[w]
        /\ \A u \in Workers : u # w =>
             /\ publicQueue'[u] = publicQueue[u] /\ privateQueue'[u] = privateQueue[u]
             /\ found'[u] = found[u]
    BY <1>1, <2>1 DEF TypeOK, OffIsIdle
  <2>3. TypeOK'
    <3>1. /\ publicQueue' \in [Workers -> Seq(Tasks \cup {Moved})]
          /\ privateQueue' \in [Workers -> Seq(Tasks \cup {Moved})]
          /\ wpc' \in [Workers -> WorkerPCs]
      BY <1>1, <2>1 DEF TypeOK, WorkerPCs
    <3>2. found' \in [Workers -> BOOLEAN]
      BY <1>1, <2>1, Types
    <3>3. \A f \in {idle', found', signalled', abort', atomicAbort'} : f \in [Workers -> BOOLEAN]
      BY <1>1, <2>1, <3>2, Types
    <3>4. idleSet' \in SUBSET Workers
      BY <1>1, <1>4 DEF TypeOK
    <3>. QED  BY <1>1, <3>1, <3>3, <3>4 DEF TypeOK
  <2>4. Wakeup(w)' /\ ~Unemployed(w)'
    BY <2>2 DEF Wakeup, Unemployed
  <2>. QED  BY <1>1, <1>4, <2>1, <2>2, <2>3, <2>4, WaitingIInv DEF Waiting
<1>. QED  BY <1>2, <1>3, <1>4

-----------------------------------------------------------------------------
(* The thread gives some of its tasks away, and runs the others.           *)

LEMMA StartBalanceIInv == ASSUME IInv, NEW w \in Workers, StartBalance(w) PROVE IInv'
<1> USE DEF aborts, balance, sending, closer, tasks, queues, flags
<1> DEFINE n == Len(privateQueue[w])
           old == idleBuffer[w]
<1>1. /\ TypeOK /\ wpc[w] = "balance" /\ CloserInOrder /\ OffIsIdle /\ QueuesApart
      /\ RunningApart /\ CarriedNew /\ Donation(w) /\ MarkedIdle
      /\ UNCHANGED <<queues, idle, flags, aborts, current, sending, ppc, cursor, closer, tasks>>
      /\ donated' = [donated EXCEPT ![w] = 0]
  BY DEF IInv, DonationsInOrder, StartBalance
<1>2. /\ privateQueue[w] \in Seq(Entries) /\ n \in Nat /\ old \in Seq(Workers) /\ Len(old) \in Nat
      /\ DOMAIN privateQueue[w] = 1 .. n /\ w \in 1 .. W /\ W \in Nat
  <2>1. privateQueue[w] \in Seq(Entries) /\ old \in Seq(Workers)
    BY <1>1, Types
  <2>2. w \in 1 .. W /\ W \in Nat
    BY PoolAssumption DEF Workers
  <2>. QED  BY <2>1, <2>2
<1> DEFINE Begins(y, chosen, buffer) ==
             /\ wpc' = [wpc EXCEPT ![w] = y]
             /\ idleSet' = idleSet \ chosen
             /\ idleBuffer' = [idleBuffer EXCEPT ![w] = buffer]
             /\ y = "drain" => n = 0
             /\ y # "drain" => n > 0
             /\ y # "donate" => chosen = {} /\ buffer = old
             /\ y = "donate" => buffer = old \o InRing(w, chosen) /\ Cardinality(chosen) < n
<1>3. PICK y \in {"drain", "pop", "donate"}, chosen \in SUBSET (idleSet \ {w}),
           buffer \in Seq(Workers) : Begins(y, chosen, buffer)
  <2> DEFINE max == IF W - 1 < n - 1 THEN W - 1 ELSE n - 1
  <2>1. CASE n = 0 /\ wpc' = [wpc EXCEPT ![w] = "drain"] /\ UNCHANGED <<idleSet, idleBuffer>>
    <3>1. idleSet' = idleSet \ {} /\ {} \in SUBSET (idleSet \ {w})
      BY <2>1
    <3>2. idleBuffer' = [idleBuffer EXCEPT ![w] = old]
      BY <1>1, <2>1 DEF TypeOK
    <3>3. Begins("drain", {}, old)
      BY <2>1, <3>1, <3>2
    <3> HIDE DEF Begins
    <3>. QED  BY <1>2, <3>1, <3>3
  <2>2. CASE n > 0 /\ \E chosen \in SUBSET (idleSet \ {w}) :
               /\ Cardinality(chosen) <= max
               /\ idleSet' = idleSet \ chosen
               /\ LET buffer == old \o InRing(w, chosen)
                      balanced == n < 2 \/ W = 1 \/ buffer = <<>>
                  IN  /\ idleBuffer' = [idleBuffer EXCEPT ![w] = IF n < 2 THEN @ ELSE buffer]
                      /\ wpc' = [wpc EXCEPT ![w] = IF balanced THEN "pop" ELSE "donate"]
    <3>1. PICK chosen \in SUBSET (idleSet \ {w}) :
            /\ Cardinality(chosen) <= max
            /\ idleSet' = idleSet \ chosen
            /\ idleBuffer' = [idleBuffer EXCEPT ![w] = IF n < 2 THEN @ ELSE old \o InRing(w, chosen)]
            /\ wpc' = [wpc EXCEPT ![w] = IF n < 2 \/ W = 1 \/ old \o InRing(w, chosen) = <<>>
                                           THEN "pop" ELSE "donate"]
      BY <2>2
    <3>2. chosen \in SUBSET Workers
      BY <1>1 DEF TypeOK
    <3>3. /\ InRing(w, chosen) \in Seq(Workers) /\ Cardinality(chosen) \in Nat
          /\ Len(InRing(w, chosen)) = Cardinality(chosen)
          /\ InRing(w, chosen) = <<>> => chosen = {}
      BY <3>2, Ring
    <3>4. Cardinality(chosen) < n
      BY <1>2, <2>2, <3>1, <3>3
    <3>5. n < 2 \/ W = 1 => chosen = {} /\ old \o InRing(w, chosen) = old
      <4>1. n < 2 \/ W = 1 => Cardinality(chosen) = 0
        BY <1>2, <2>2, <3>1, <3>3
      <4>2. Cardinality(chosen) = 0 => InRing(w, chosen) = <<>>
        BY <3>3
      <4>. QED  BY <1>2, <3>3, <4>1, <4>2
    <3>6. old \o InRing(w, chosen) = <<>> => chosen = {} /\ old \o InRing(w, chosen) = old
      BY <1>2, <3>3
    <3>7. idleBuffer' = [idleBuffer EXCEPT ![w] = old \o InRing(w, chosen)]
      BY <3>1, <3>5
    <3>8. CASE n < 2 \/ W = 1 \/ old \o InRing(w, chosen) = <<>>
      <4>1. Begins("pop", chosen, old)
        BY <2>2, <3>1, <3>5, <3>6, <3>7, <3>8
      <4> HIDE DEF Begins
      <4>. QED  BY <1>2, <4>1
    <3>9. CASE ~(n < 2 \/ W = 1 \/ old \o InRing(w, chosen) = <<>>)
      <4>1. Begins("donate", chosen, old \o InRing(w, chosen))
        BY <2>2, <3>1, <3>4, <3>7, <3>9
      <4>2. old \o InRing(w, chosen) \in Seq(Workers)
        BY <1>2, <3>3
      <4> HIDE DEF Begins
      <4>. QED  BY <4>1, <4>2
    <3>. QED  BY <3>8, <3>9
  <2>. QED  BY <2>1, <2>2 DEF StartBalance
<1> HIDE DEF n, old
<1>4. /\ wpc'[w] = y /\ \A u \in Workers : u # w => wpc'[u] = wpc[u]
      /\ idleBuffer'[w] = buffer /\ \A u \in Workers : u # w => idleBuffer'[u] = idleBuffer[u]
      /\ donated'[w] = 0 /\ \A u \in Workers : u # w => donated'[u] = donated[u]
      /\ idleSet' \in SUBSET Workers /\ chosen \in SUBSET Workers
  BY <1>1, <1>3 DEF TypeOK
<1>5. TypeOK'
  <2>1. /\ wpc' \in [Workers -> WorkerPCs] /\ donated' \in [Workers -> Nat]
        /\ idleBuffer' \in [Workers -> Seq(Workers)]
    BY <1>1, <1>3 DEF TypeOK, WorkerPCs
  <2>2. \A f \in {idle', found', signalled', abort', atomicAbort'} : f \in [Workers -> BOOLEAN]
    BY <1>1, Types
  <2>. QED  BY <1>1, <1>4, <2>1, <2>2 DEF TypeOK
<1>6. /\ OffIsIdle' /\ CloserInOrder' /\ SendersInOrder'
      /\ \A u \in Workers : u # w => Donation(u)' /\ Wakeup(u)'
      /\ \A u \in Workers : Marked(u) /\ (u \in idleSet => u \in idleSet') => Marked(u)'
      /\ \A u \in Workers : u # w /\ Unemployed(u)' => Unemployed(u)
  <2>1. idle'[w] <=> y = "off"
    BY <1>1 DEF OffIsIdle
  <2>2. y \in WorkerPCs \ {"enqueue", "release", "releaseDonation"}
    BY DEF WorkerPCs
  <2>. QED  BY <1>1, <1>3, <1>4, <2>1, <2>2, ThreadMoves
<1>7. DonationsInOrder'
  <2>1. ~Donating(w)
    BY <1>1 DEF Donating
  <2>2. /\ Len(privateQueue'[w]) = n /\ poolAbort' = poolAbort /\ abort' = abort
        /\ privateQueue'[w] = privateQueue[w] /\ publicQueue'[w] = publicQueue[w]
    BY <1>1 DEF n
  <2>3. /\ old # <<>> => \E i \in 1 .. Len(old) : abort[old[i]]
        /\ ~poolAbort => \A i \in 1 .. n : privateQueue[w][i] # Moved
        /\ ~poolAbort => \A i \in DOMAIN publicQueue[w] : publicQueue[w][i] # Moved
    BY <1>1, <2>1 DEF Donation, n, old
  <2>4. CASE y # "donate"
    <3>1. ~Donating(w)' /\ wpc'[w] # "drain" => n > 0
      BY <1>3, <1>4, <2>4 DEF Donating
    <3>2. Donation(w)'
      BY <1>3, <1>4, <2>2, <2>3, <2>4 DEF Donation, Donating
    <3>. QED  BY <1>6, <3>2 DEF DonationsInOrder
  <2>5. CASE y = "donate"
    <3>1. /\ InRing(w, chosen) \in Seq(Workers) /\ Cardinality(chosen) \in Nat
          /\ Len(InRing(w, chosen)) = Cardinality(chosen)
      BY <1>4, Ring
    <3>2. /\ buffer = old \o InRing(w, chosen) /\ Cardinality(chosen) < n
          /\ Len(buffer) = Len(old) + Cardinality(chosen)
          /\ \A i \in 1 .. Len(old) : buffer[i] = old[i]
      BY <1>2, <1>3, <2>5, <3>1
    <3>3. Len(buffer) \in Nat /\ Len(old) \in Nat /\ n \in Nat
      BY <1>2, <3>1, <3>2
    <3>4. Len(buffer) < n \/ \E i \in 0 + 1 .. Len(buffer) : abort[buffer[i]]
      <4>1. CASE old = <<>>
        BY <3>1, <3>2, <4>1
      <4>2. CASE old # <<>>
        <5>1. PICK i \in 1 .. Len(old) : abort[old[i]]
          BY <2>3, <4>2
        <5>. QED  BY <3>1, <3>2, <3>3, <5>1
      <4>. QED  BY <4>1, <4>2
    <3>5. DonationEnd(n, Len(buffer), 0) = 0
      BY <3>3, DonationEnds
    <3>6. \A i \in 1 .. DonationEnd(n, Len(buffer), 0) : privateQueue[w][i] = Moved
      BY <3>5
    <3>7. ~poolAbort => \A i \in DonationEnd(n, Len(buffer), 0) + 1 .. n : privateQueue[w][i] # Moved
      BY <2>3, <3>5
    <3>8. Donating(w)' /\ wpc'[w] # "pop" /\ 0 <= Len(buffer)
      BY <1>4, <2>5, <3>3 DEF Donating
    <3>9. Donation(w)'
      BY <1>4, <2>2, <2>3, <3>4, <3>6, <3>7, <3>8 DEF Donation
    <3>. QED  BY <1>6, <3>9 DEF DonationsInOrder
  <2>. QED  BY <2>4, <2>5
<1>8. Wakeups'
  BY <1>4, <1>6 DEF Wakeups, Wakeup
<1>9. MarkedIdle'
  <2> SUFFICES ASSUME ~poolAbort, NEW u \in Workers, Unemployed(u)' PROVE Marked(u)'
    BY <1>1 DEF MarkedIdle
  <2>1. u # w
    BY <1>4 DEF Unemployed
  <2>2. Marked(u)
    BY <1>1, <1>6, <2>1 DEF MarkedIdle
  <2>3. CASE u \in chosen
    <3>1. y = "donate" /\ buffer = old \o InRing(w, chosen)
      BY <1>3, <2>3
    <3>2. /\ InRing(w, chosen) \in Seq(Workers)
          /\ \E i \in DOMAIN InRing(w, chosen) : InRing(w, chosen)[i] = u
      BY <1>4, <2>3, Ring
    <3>3. PICK i \in DOMAIN InRing(w, chosen) : InRing(w, chosen)[i] = u
      BY <3>2
    <3>4. Len(old) + i \in 0 + 1 .. Len(buffer) /\ buffer[Len(old) + i] = u
      BY <1>2, <3>1, <3>2, <3>3
    <3>5. Donating(w)'
      BY <1>4, <3>1 DEF Donating
    <3>. QED  BY <1>4, <3>4, <3>5 DEF Marked
  <2>4. CASE u \notin chosen
    BY <1>3, <1>6, <2>2, <2>4
  <2>. QED  BY <2>3, <2>4
<1>10. QueuesApart'
  <2>1. fate' = fate /\ publicQueue' = publicQueue /\ privateQueue' = privateQueue
    BY <1>1
  <2>. QED  BY <1>1, <2>1, QueuesKept
<1>11. RunningApart'
  BY <1>1, <1>4, RunningKept DEF Running
<1>12. CarriedNew'
  BY <1>1, CarriedKept
<1>. QED  BY <1>5, <1>6, <1>7, <1>8, <1>9, <1>10, <1>11, <1>12 DEF IInv

LEMMA FinishBalanceIInv == ASSUME IInv, NEW w \in Workers, FinishBalance(w) PROVE IInv'
<1> USE DEF aborts, balance, sending, closer, tasks, queues, flags
<1> DEFINE q == privateQueue[w]
           n == Len(q)
           k == Len(idleBuffer[w])
           e == DonationEnd(n, k, k)
<1>1. /\ TypeOK /\ wpc[w] = "donate" /\ donated[w] = k /\ CloserInOrder /\ OffIsIdle
      /\ QueuesApart /\ RunningApart /\ CarriedNew /\ Donation(w) /\ MarkedIdle
      /\ privateQueue' = [privateQueue EXCEPT ![w] = SubSeq(@, e + 1, n)]
      /\ idleBuffer' = [idleBuffer EXCEPT ![w] = <<>>]
      /\ wpc' = [wpc EXCEPT ![w] = "pop"]
      /\ UNCHANGED <<publicQueue, idleSet, idle, flags, aborts, donated, current, sending, ppc,
                     cursor, closer, tasks>>
  BY DEF IInv, DonationsInOrder, FinishBalance
<1>2. q \in Seq(Entries) /\ n \in Nat /\ k \in Nat /\ DOMAIN q = 1 .. n
  <2>1. q \in Seq(Entries) /\ idleBuffer[w] \in Seq(Workers)
    BY <1>1, Types
  <2>. QED  BY <2>1
<1>3. /\ k < n /\ \A i \in 1 .. e : q[i] = Moved
      /\ ~poolAbort => \A i \in e + 1 .. n : q[i] # Moved
      /\ ~poolAbort => \A i \in DOMAIN publicQueue[w] : publicQueue[w][i] # Moved
  BY <1>1, <1>2 DEF Donation, Donating
<1>4. e \in 0 .. n /\ e < n
  <2>1. k \in 0 .. k + 1 /\ k \in 0 .. k
    BY <1>2
  <2>2. /\ DonationEnd(n, k, k + 1) = n /\ \A j \in 0 .. k + 1 : DonationEnd(n, k, j) \in 0 .. n
        /\ \A j \in 0 .. k : DonationEnd(n, k, j) < DonationEnd(n, k, j + 1)
    BY <1>2, <1>3, DonationEnds
  <2>. QED  BY <2>1, <2>2
<1> DEFINE rest == SubSeq(q, e + 1, n)
<1>5. /\ rest \in Seq(Entries) /\ NoRepeats(rest) /\ Len(rest) = n - e /\ DOMAIN rest = 1 .. Len(rest)
      /\ \A i \in DOMAIN rest : e + i \in e + 1 .. n /\ rest[i] = q[e + i]
      /\ In(rest) = In(q)
  <2>1. NoRepeats(q) /\ e \in Nat /\ n \in 0 .. n
    BY <1>1, <1>2, <1>4 DEF QueuesApart
  <2> HIDE DEF e
  <2>2. /\ rest \in Seq(Entries) /\ NoRepeats(rest)
        /\ Len(rest) = (IF e < n THEN n - e ELSE 0)
        /\ \A i \in DOMAIN rest : e + i \in DOMAIN q /\ rest[i] = q[e + i]
    BY <1>2, <2>1, PartOf
  <2>3. /\ \A t : t \in In(rest) <=> t # Moved /\ \E i \in e + 1 .. n : q[i] = t
        /\ In(rest) \subseteq In(q)
    BY <1>2, <2>1, InPart
  <2> HIDE DEF rest
  <2>4. Len(rest) = n - e /\ DOMAIN rest = 1 .. Len(rest)
    BY <1>4, <2>2
  <2>5. In(q) \subseteq In(rest)
    <3> SUFFICES ASSUME NEW t \in In(q) PROVE t \in In(rest)
      OBVIOUS
    <3>1. PICK i \in 1 .. n : q[i] = t /\ t # Moved
      BY <1>2, Entered
    <3>2. i \notin 1 .. e
      BY <1>3, <3>1
    <3>3. i \in e + 1 .. n
      BY <1>4, <3>2
    <3>. QED  BY <2>3, <3>1, <3>3
  <2>. QED  BY <1>2, <1>4, <2>2, <2>3, <2>4, <2>5
<1> HIDE DEF rest
<1>6. /\ privateQueue' = [privateQueue EXCEPT ![w] = rest] /\ privateQueue'[w] = rest
      /\ \A u \in Workers : u # w => privateQueue'[u] = privateQueue[u]
      /\ wpc'[w] = "pop" /\ \A u \in Workers : u # w => wpc'[u] = wpc[u]
      /\ idleBuffer'[w] = <<>> /\ \A u \in Workers : u # w => idleBuffer'[u] = idleBuffer[u]
  BY <1>1 DEF TypeOK, rest
<1> HIDE DEF e
<1>7. TypeOK'
  <2>0. rest \in Seq(Tasks \cup {Moved})
    BY <1>5 DEF Entries
  <2>1. /\ wpc' \in [Workers -> WorkerPCs] /\ idleBuffer' \in [Workers -> Seq(Workers)]
        /\ privateQueue' \in [Workers -> Seq(Tasks \cup {Moved})]
    <3>1. privateQueue \in [Workers -> Seq(Tasks \cup {Moved})]
      BY <1>1 DEF TypeOK
    <3>2. privateQueue' \in [Workers -> Seq(Tasks \cup {Moved})]
      BY <1>6, <2>0, <3>1
    <3>3. wpc' \in [Workers -> WorkerPCs] /\ idleBuffer' \in [Workers -> Seq(Workers)]
      BY <1>1 DEF TypeOK, WorkerPCs
    <3>. QED  BY <3>2, <3>3
  <2>2. \A f \in {idle', found', signalled', abort', atomicAbort'} : f \in [Workers -> BOOLEAN]
    BY <1>1, Types
  <2>. QED  BY <1>1, <2>1, <2>2 DEF TypeOK
<1>8. /\ OffIsIdle' /\ CloserInOrder' /\ SendersInOrder'
      /\ \A u \in Workers : u # w => Donation(u)' /\ Wakeup(u)'
      /\ \A u \in Workers : Marked(u) /\ (u \in idleSet => u \in idleSet') => Marked(u)'
      /\ \A u \in Workers : u # w /\ Unemployed(u)' => Unemployed(u)
  <2>1. idle'[w] <=> "pop" = "off"
    BY <1>1 DEF OffIsIdle
  <2>2. "pop" \in WorkerPCs
    BY DEF WorkerPCs
  <2>. QED  BY <1>1, <1>6, <2>1, <2>2, ThreadMoves
<1>9. DonationsInOrder'
  <2>1. /\ ~poolAbort => \A i \in 1 .. Len(rest) : rest[i] # Moved
        /\ Len(rest) > 0
    <3>1. Len(rest) > 0
      BY <1>2, <1>4, <1>5
    <3>2. ~poolAbort => \A i \in DOMAIN rest : rest[i] # Moved
      BY <1>3, <1>5
    <3>. QED  BY <1>5, <3>1, <3>2
  <2>2. Donation(w)'
    BY <1>1, <1>3, <1>6, <2>1 DEF Donation, Donating
  <2>. QED  BY <1>8, <2>2 DEF DonationsInOrder
<1>10. Wakeups'
  BY <1>6, <1>8 DEF Wakeups, Wakeup
<1>11. MarkedIdle'
  <2>1. ~Unemployed(w)'
    BY <1>6 DEF Unemployed
  <2>. QED  BY <1>1, <1>8, <2>1 DEF MarkedIdle
<1>12. QueuesApart'
  <2>1. \A u \in Workers : Has(u)' = Has(u)
    BY <1>1, <1>5, <1>6 DEF Has
  <2>2. \A u \in Workers : /\ NoRepeats(publicQueue[u])' /\ NoRepeats(privateQueue[u])'
                           /\ In(publicQueue[u])' \cap In(privateQueue[u])' = {}
    <3>1. \A u \in Workers : /\ NoRepeats(publicQueue[u]) /\ NoRepeats(privateQueue[u])
                             /\ In(publicQueue[u]) \cap In(privateQueue[u]) = {}
      BY <1>1 DEF QueuesApart
    <3>2. publicQueue' = publicQueue
      BY <1>1
    <3> HIDE DEF n, k
    <3>. QED  BY <1>5, <1>6, <3>1, <3>2
  <2>. QED  BY <1>1, <2>1, <2>2 DEF QueuesApart
<1>13. RunningApart'
  BY <1>1, <1>6, RunningKept DEF Running
<1>14. CarriedNew'
  BY <1>1, CarriedKept
<1>. QED  BY <1>7, <1>8, <1>9, <1>10, <1>11, <1>12, <1>13, <1>14 DEF IInv

LEMMA PopTaskIInv == ASSUME IInv, NEW w \in Workers, PopTask(w) PROVE IInv'
<1> USE DEF aborts, balance, sending, closer, tasks, queues, flags
<1>1. /\ TypeOK /\ wpc[w] = "pop" /\ CloserInOrder /\ OffIsIdle
      /\ QueuesApart /\ RunningApart /\ CarriedNew /\ Donation(w) /\ MarkedIdle
      /\ UNCHANGED <<publicQueue, idleSet, idle, flags, aborts, balance, sending, ppc, cursor,
                     closer, offered>>
  BY DEF IInv, DonationsInOrder, PopTask
<1> DEFINE q == privateQueue[w]
<1>2. /\ q \in Seq(Entries) /\ Len(q) \in Nat /\ Len(q) > 0 /\ DOMAIN q = 1 .. Len(q)
      /\ NoRepeats(q) /\ ~Donating(w)
      /\ ~poolAbort => \A i \in DOMAIN q : q[i] # Moved
      /\ ~poolAbort => \A i \in DOMAIN publicQueue[w] : publicQueue[w][i] # Moved
      /\ idleBuffer[w] # <<>> => \E i \in 1 .. Len(idleBuffer[w]) : abort[idleBuffer[w][i]]
  <2>1. q \in Seq(Entries) /\ NoRepeats(q) /\ ~Donating(w)
    BY <1>1, Types DEF QueuesApart, Donating
  <2>2. Len(q) \in Nat /\ DOMAIN q = 1 .. Len(q)
    BY <2>1
  <2>. QED  BY <1>1, <2>1, <2>2 DEF Donation
(* What both cases have in common.                                         *)
<1>3. ASSUME NEW y \in {"ending", "balance", "run"}, wpc' = [wpc EXCEPT ![w] = y],
             y = "ending" => poolAbort,
             NEW r \in Seq(Entries), privateQueue' = [privateQueue EXCEPT ![w] = r],
             NoRepeats(r), \A i \in DOMAIN r : i \in DOMAIN q /\ r[i] = q[i]
      PROVE  /\ OffIsIdle' /\ CloserInOrder' /\ SendersInOrder' /\ DonationsInOrder'
             /\ Wakeups' /\ MarkedIdle'
             /\ wpc'[w] = y /\ \A u \in Workers : u # w => wpc'[u] = wpc[u]
             /\ privateQueue'[w] = r
             /\ \A u \in Workers : u # w => privateQueue'[u] = privateQueue[u]
             /\ wpc' \in [Workers -> WorkerPCs]
             /\ privateQueue' \in [Workers -> Seq(Tasks \cup {Moved})]
             /\ \A f \in {idle', found', signalled', abort', atomicAbort'} : f \in [Workers -> BOOLEAN]
  <2>1. r \in Seq(Tasks \cup {Moved}) /\ privateQueue \in [Workers -> Seq(Tasks \cup {Moved})]
    BY <1>1 DEF Entries, TypeOK
  <2>2. /\ wpc'[w] = y /\ \A u \in Workers : u # w => wpc'[u] = wpc[u]
        /\ privateQueue'[w] = r
        /\ \A u \in Workers : u # w => privateQueue'[u] = privateQueue[u]
        /\ wpc' \in [Workers -> WorkerPCs]
    BY <1>1, <1>3 DEF TypeOK, WorkerPCs
  <2>3. privateQueue' \in [Workers -> Seq(Tasks \cup {Moved})]
    BY <1>3, <2>1
  <2>4. \A f \in {idle', found', signalled', abort', atomicAbort'} : f \in [Workers -> BOOLEAN]
    BY <1>1, Types
  <2>5. /\ OffIsIdle' /\ CloserInOrder' /\ SendersInOrder'
        /\ \A u \in Workers : u # w => Donation(u)' /\ Wakeup(u)'
        /\ \A u \in Workers : Marked(u) /\ (u \in idleSet => u \in idleSet') => Marked(u)'
        /\ \A u \in Workers : u # w /\ Unemployed(u)' => Unemployed(u)
    <3>1. idle'[w] <=> y = "off"
      BY <1>1 DEF OffIsIdle
    <3>2. y \in WorkerPCs
      BY DEF WorkerPCs
    <3>. QED  BY <1>1, <1>3, <2>2, <3>1, <3>2, ThreadMoves
  <2>6. DonationsInOrder'
    <3>1. DOMAIN r = 1 .. Len(r)
      OBVIOUS
    <3>2. ~poolAbort => \A i \in 1 .. Len(r) : r[i] # Moved
      BY <1>2, <1>3, <3>1
    <3>3. Donation(w)'
      BY <1>1, <1>2, <2>2, <3>2 DEF Donation, Donating
    <3>. QED  BY <2>5, <3>3 DEF DonationsInOrder
  <2>7. Wakeups'
    BY <2>2, <2>5 DEF Wakeups, Wakeup
  <2>8. MarkedIdle'
    <3>1. ~poolAbort => ~Unemployed(w)'
      BY <1>3, <2>2 DEF Unemployed
    <3>. QED  BY <1>1, <2>5, <3>1 DEF MarkedIdle
  <2>. QED  BY <2>2, <2>3, <2>4, <2>5, <2>6, <2>7, <2>8
<1>4. CASE /\ atomicAbort[w] /\ wpc' = [wpc EXCEPT ![w] = "ending"]
           /\ UNCHANGED <<privateQueue, current, fate>>
  <2>1. poolAbort
    BY <1>1, <1>4, AbortIsShutDown
  <2>2. privateQueue' = [privateQueue EXCEPT ![w] = q]
    BY <1>1, <1>4 DEF TypeOK
  <2>3. /\ OffIsIdle' /\ CloserInOrder' /\ SendersInOrder' /\ DonationsInOrder'
        /\ Wakeups' /\ MarkedIdle'
        /\ wpc'[w] = "ending" /\ \A u \in Workers : u # w => wpc'[u] = wpc[u]
        /\ wpc' \in [Workers -> WorkerPCs]
        /\ \A f \in {idle', found', signalled', abort', atomicAbort'} : f \in [Workers -> BOOLEAN]
    BY <1>2, <1>3, <1>4, <2>1, <2>2
  <2>4. TypeOK'
    BY <1>1, <1>4, <2>3 DEF TypeOK
  <2>5. QueuesApart'
    BY <1>1, <1>4, QueuesKept
  <2>6. RunningApart'
    BY <1>1, <1>4, <2>3, RunningKept DEF Running
  <2>7. CarriedNew'
    BY <1>1, <1>4, CarriedKept
  <2>. QED  BY <2>3, <2>4, <2>5, <2>6, <2>7 DEF IInv
<1> DEFINE t == q[Len(q)]
           rest == SubSeq(q, 1, Len(q) - 1)
<1>5. CASE /\ privateQueue' = [privateQueue EXCEPT ![w] = rest]
           /\ wpc' = [wpc EXCEPT ![w] = IF t = Moved THEN "balance" ELSE "run"]
           /\ current' = [current EXCEPT ![w] = t]
           /\ fate' = IF t = Moved THEN fate ELSE [fate EXCEPT ![t] = "running"]
  <2>1. /\ t \in Entries /\ rest \in Seq(Entries) /\ NoRepeats(rest)
        /\ \A i \in DOMAIN rest : i \in DOMAIN q /\ rest[i] = q[i]
        /\ t # Moved => t \in In(q)
        /\ In(rest) = In(q) \ {t}
    BY <1>2, Popped
  <2>2. PICK y \in {"balance", "run"} : y = IF t = Moved THEN "balance" ELSE "run"
    OBVIOUS
  <2> HIDE DEF t, rest
  <2>3. /\ OffIsIdle' /\ CloserInOrder' /\ SendersInOrder' /\ DonationsInOrder'
        /\ Wakeups' /\ MarkedIdle'
        /\ wpc'[w] = y /\ \A u \in Workers : u # w => wpc'[u] = wpc[u]
        /\ privateQueue'[w] = rest
        /\ \A u \in Workers : u # w => privateQueue'[u] = privateQueue[u]
        /\ wpc' \in [Workers -> WorkerPCs]
        /\ privateQueue' \in [Workers -> Seq(Tasks \cup {Moved})]
        /\ \A f \in {idle', found', signalled', abort', atomicAbort'} : f \in [Workers -> BOOLEAN]
    BY <1>3, <1>5, <2>1, <2>2
  <2>4. /\ current'[w] = t /\ \A u \in Workers : u # w => current'[u] = current[u]
        /\ Moved \notin Tasks /\ Moved = Nobody
    BY <1>1, <1>5, Entered DEF TypeOK, Moved, Nobody
  <2>5. /\ \A s \in Tasks : fate'[s] = IF s = t THEN "running" ELSE fate[s]
        /\ fate' \in [Tasks -> {"new", "queued", "running", "executed", "destroyed", "refused"}]
        /\ current' \in [Workers -> Tasks \cup {Nobody}]
    BY <1>1, <1>5, <2>1, <2>4 DEF TypeOK, Entries
  <2>6. TypeOK'
    BY <1>1, <2>3, <2>5 DEF TypeOK
  <2>7. t \in Tasks => t \in Has(w) /\ fate[t] = "queued"
    BY <1>1, <2>1, <2>4 DEF Has, QueuesApart
  <2>8. /\ Has(w)' = Has(w) \ {t}
        /\ \A u \in Workers : u # w => Has(u)' = Has(u)
        /\ t \in Entries
    <3>1. t \notin In(publicQueue[w])
      <4>1. t = Moved => t \notin In(publicQueue[w])
        BY DEF In
      <4>. QED  BY <1>1, <2>1, <4>1 DEF QueuesApart
    <3>. QED  BY <1>1, <2>1, <2>3, <3>1 DEF Has
  <2>9. QueuesApart'
    <3>1. \A u \in Workers : /\ NoRepeats(publicQueue[u])' /\ NoRepeats(privateQueue[u])'
                             /\ In(publicQueue[u])' \cap In(privateQueue[u])' = {}
      <4>1. \A u \in Workers : /\ NoRepeats(publicQueue[u]) /\ NoRepeats(privateQueue[u])
                               /\ In(publicQueue[u]) \cap In(privateQueue[u]) = {}
        BY <1>1 DEF QueuesApart
      <4>2. publicQueue' = publicQueue
        BY <1>1
      <4>. QED  BY <2>1, <2>3, <4>1, <4>2
    <3>2. \A u, v \in Workers : u # v => Has(u)' \cap Has(v)' = {}
      BY <1>1, <2>8 DEF QueuesApart
    <3>3. \A s \in Tasks : fate'[s] = "queued" <=> \E u \in Workers : s \in Has(u)'
      <4>1. \A s \in Tasks : fate[s] = "queued" <=> \E u \in Workers : s \in Has(u)
        BY <1>1 DEF QueuesApart
      <4>2. \A u \in Workers : u # w => t \notin Tasks \/ t \notin Has(u)
        BY <1>1, <2>7 DEF QueuesApart
      <4>. QED  BY <2>5, <2>8, <4>1, <4>2
    <3>. QED  BY <3>1, <3>2, <3>3 DEF QueuesApart
  <2>10. RunningApart'
    <3>1. /\ \A u \in Workers : u # w => (Running(u)' <=> Running(u))
          /\ ~Running(w)
          /\ Running(w)' <=> t \in Tasks
      BY <1>1, <2>1, <2>2, <2>3, <2>4 DEF Running, Entries
    <3>2. \A u \in Workers : Running(u) => current[u] # t
      BY <1>1, <2>7 DEF RunningApart
    <3>3. \A u \in Workers : Running(u)' => \/ u = w /\ current'[u] = t /\ t \in Tasks
                                            \/ u # w /\ Running(u) /\ current'[u] = current[u]
      BY <2>4, <3>1
    <3>4. \A u \in Workers : Running(u) => u # w /\ Running(u)' /\ current'[u] = current[u]
      BY <2>4, <3>1
    <3>5. \A u \in Workers : Running(u)' => current'[u] \in Tasks /\ fate'[current'[u]] = "running"
      BY <1>1, <2>5, <3>2, <3>3 DEF RunningApart
    <3>6. \A u, v \in Workers : Running(u)' /\ Running(v)' /\ current'[u] = current'[v] => u = v
      BY <1>1, <3>2, <3>3 DEF RunningApart
    <3>7. \A s \in Tasks : fate'[s] = "running" => \E u \in Workers : Running(u)' /\ current'[u] = s
      BY <1>1, <2>4, <2>5, <3>1, <3>4 DEF RunningApart
    <3>. QED  BY <3>5, <3>6, <3>7 DEF RunningApart
  <2>11. CarriedNew'
    <3>1. /\ \A s \in Tasks : fate[s] = "new" => fate'[s] = "new"
          /\ carried' = carried /\ offered' = offered
      BY <1>1, <2>5, <2>7
    <3>2. \A s \in Senders : \A k \in DOMAIN carried[s] : In(carried[s][k].tasks) \subseteq Tasks
      BY <1>1, SharesTyped
    <3>. QED  BY <1>1, <3>1, <3>2 DEF CarriedNew
  <2>. QED  BY <2>3, <2>6, <2>9, <2>10, <2>11 DEF IInv
<1>. QED  BY <1>4, <1>5 DEF PopTask

LEMMA FinishTaskIInv == ASSUME IInv, NEW w \in Workers, FinishTask(w) PROVE IInv'
<1> USE DEF aborts, balance, sending, closer, tasks, queues, flags
<1>1. /\ TypeOK /\ wpc[w] = "run" /\ CloserInOrder /\ OffIsIdle
      /\ QueuesApart /\ RunningApart /\ CarriedNew /\ Donation(w) /\ MarkedIdle
      /\ fate' = [fate EXCEPT ![current[w]] = "executed"]
      /\ current' = [current EXCEPT ![w] = Nobody]
      /\ wpc' = [wpc EXCEPT ![w] = "balance"]
      /\ UNCHANGED <<queues, idleSet, idle, flags, aborts, balance, sending, ppc, cursor,
                     closer, offered>>
  BY DEF IInv, DonationsInOrder, FinishTask
<1>2. PICK t \in Tasks : t = current[w] /\ fate[t] = "running"
  BY <1>1 DEF RunningApart, Running
<1>3. /\ wpc'[w] = "balance" /\ \A u \in Workers : u # w => wpc'[u] = wpc[u]
      /\ \A s \in Tasks : fate'[s] = IF s = t THEN "executed" ELSE fate[s]
      /\ \A u \in Workers : u # w => current'[u] = current[u]
  BY <1>1, <1>2 DEF TypeOK
<1>4. TypeOK'
  <2>1. /\ wpc' \in [Workers -> WorkerPCs] /\ current' \in [Workers -> Tasks \cup {Nobody}]
        /\ fate' \in [Tasks -> {"new", "queued", "running", "executed", "destroyed", "refused"}]
    BY <1>1, <1>2 DEF TypeOK, WorkerPCs
  <2>2. \A f \in {idle', found', signalled', abort', atomicAbort'} : f \in [Workers -> BOOLEAN]
    BY <1>1, Types
  <2>. QED  BY <1>1, <2>1, <2>2 DEF TypeOK
<1>5. /\ OffIsIdle' /\ CloserInOrder' /\ SendersInOrder'
      /\ \A u \in Workers : u # w => Donation(u)' /\ Wakeup(u)'
      /\ \A u \in Workers : Marked(u) /\ (u \in idleSet => u \in idleSet') => Marked(u)'
      /\ \A u \in Workers : u # w /\ Unemployed(u)' => Unemployed(u)
  <2>1. idle'[w] <=> "balance" = "off"
    BY <1>1 DEF OffIsIdle
  <2>2. "balance" \in WorkerPCs
    BY DEF WorkerPCs
  <2>. QED  BY <1>1, <1>3, <2>1, <2>2, ThreadMoves
<1>6. DonationsInOrder'
  <2>1. Donating(w)' <=> Donating(w)
    BY <1>1, <1>3 DEF Donating
  <2>2. Donation(w)'
    BY <1>1, <1>3, <2>1, DonationKept
  <2>. QED  BY <1>5, <2>2 DEF DonationsInOrder
<1>7. Wakeups'
  BY <1>3, <1>5 DEF Wakeups, Wakeup
<1>8. MarkedIdle'
  <2>1. ~Unemployed(w)'
    BY <1>3 DEF Unemployed
  <2>. QED  BY <1>1, <1>5, <2>1 DEF MarkedIdle
<1>9. QueuesApart'
  <2>1. \A u \in Workers : Has(u)' = Has(u)
    BY <1>1 DEF Has
  <2>2. \A s \in Tasks : fate'[s] = "queued" <=> fate[s] = "queued"
    BY <1>2, <1>3
  <2>. QED  BY <1>1, <2>1, <2>2 DEF QueuesApart
<1>10. RunningApart'
  <2>1. \A u \in Workers : Running(u)' <=> Running(u) /\ u # w
    BY <1>3 DEF Running
  <2>2. Running(w) /\ \A u \in Workers : Running(u) /\ current[u] = t => u = w
    BY <1>1, <1>2 DEF RunningApart, Running
  <2>3. \A u \in Workers : Running(u)' => current'[u] \in Tasks /\ fate'[current'[u]] = "running"
    BY <1>1, <1>3, <2>1, <2>2 DEF RunningApart
  <2>4. \A u, v \in Workers : Running(u)' /\ Running(v)' /\ current'[u] = current'[v] => u = v
    BY <1>1, <1>3, <2>1 DEF RunningApart
  <2>5. \A s \in Tasks : fate'[s] = "running" => \E u \in Workers : Running(u)' /\ current'[u] = s
    BY <1>1, <1>2, <1>3, <2>1 DEF RunningApart
  <2>. QED  BY <2>3, <2>4, <2>5 DEF RunningApart
<1>11. CarriedNew'
  <2>1. /\ \A s \in Tasks : fate[s] = "new" => fate'[s] = "new"
        /\ carried' = carried /\ offered' = offered
    BY <1>1, <1>2, <1>3
  <2>2. \A s \in Senders : \A k \in DOMAIN carried[s] : In(carried[s][k].tasks) \subseteq Tasks
    BY <1>1, SharesTyped
  <2>. QED  BY <1>1, <2>1, <2>2 DEF CarriedNew
<1>. QED  BY <1>4, <1>5, <1>6, <1>7, <1>8, <1>9, <1>10, <1>11 DEF IInv

LEMMA ReleaseOtherIInv == ASSUME IInv, NEW w \in Workers, ReleaseOther(w) PROVE IInv'
<1> USE DEF aborts, balance, sending, closer, tasks, queues
<1>1. /\ TypeOK /\ wpc[w] \in {"releaseDonation", "release"} /\ CloserInOrder /\ OffIsIdle
      /\ SendersInOrder /\ DonationsInOrder /\ Wakeups
      /\ QueuesApart /\ RunningApart /\ CarriedNew /\ MarkedIdle
      /\ signalled' = [signalled EXCEPT ![target[w]] = TRUE]
      /\ UNCHANGED <<queues, idleSet, idle, found, aborts, balance, current, sending, ppc,
                     cursor, closer, tasks>>
  BY DEF IInv, ReleaseOther
<1>2. PICK y \in {"run", "donate"} : /\ y = IF wpc[w] = "release" THEN "run" ELSE "donate"
                                     /\ wpc' = [wpc EXCEPT ![w] = y]
  BY <1>1 DEF ReleaseOther
<1>3. /\ wpc'[w] = y /\ \A u \in Workers : u # w => wpc'[u] = wpc[u]
      /\ target[w] \in Workers /\ signalled'[target[w]] = TRUE
      /\ \A u \in Workers : signalled[u] => signalled'[u]
      /\ signalled' \in [Workers -> BOOLEAN]
  <2>1. target[w] \in Workers
    BY <1>1 DEF SendersInOrder
  <2>2. signalled \in [Workers -> BOOLEAN]
    BY <1>1, Types
  <2>. QED  BY <1>1, <1>2, <2>1, <2>2 DEF TypeOK
<1>4. TypeOK'
  <2>1. \A f \in {idle', found', signalled', abort', atomicAbort'} : f \in [Workers -> BOOLEAN]
    BY <1>1, <1>3, Types
  <2>2. wpc' \in [Workers -> WorkerPCs]
    BY <1>1, <1>2 DEF TypeOK, WorkerPCs
  <2>. QED  BY <1>1, <2>1, <2>2 DEF TypeOK
<1>5. OffIsIdle' /\ CloserInOrder' /\ SendersInOrder'
  <2>1. \A u \in Workers : wpc[u] = "off" => wpc'[u] = "off"
    BY <1>1, <1>3
  <2>2. CloserInOrder'
    BY <1>1, <2>1, CloserKept
  <2>3. OffIsIdle'
    BY <1>1, <1>3 DEF OffIsIdle
  <2>4. SendersInOrder'
    BY <1>1, <1>3 DEF SendersInOrder
  <2>. QED  BY <2>2, <2>3, <2>4
<1>6. \A u \in Workers : /\ Donating(u)' <=> Donating(u)
                         /\ Running(u)' <=> Running(u)
                         /\ Unemployed(u)' <=> Unemployed(u)
                         /\ wpc'[u] = "pop" => wpc[u] = "pop"
                         /\ wpc'[u] = "enqueue" <=> wpc[u] = "enqueue"
  BY <1>1, <1>2, <1>3 DEF Donating, Running, Unemployed
<1>7. DonationsInOrder'
  BY <1>1, <1>6, DonationKept DEF DonationsInOrder
<1>8. Wakeups'
  <2> SUFFICES ASSUME NEW u \in Workers PROVE Wakeup(u)'
    BY DEF Wakeups
  <2>1. Wakeup(u)
    BY <1>1 DEF Wakeups
  <2>2. WillSignal(u) => signalled'[u] \/ WillSignal(u)'
    BY <1>1, <1>3 DEF WillSignal
  <2>3. wpc'[u] \in {"markIdle", "wait"} => wpc[u] \in {"markIdle", "wait"}
    BY <1>3
  <2>. QED  BY <1>1, <1>3, <2>1, <2>2, <2>3 DEF Wakeup
<1>9. MarkedIdle'
  <2>1. \A u \in Workers : Marked(u) => Marked(u)'
    BY <1>1, <1>6 DEF Marked
  <2>. QED  BY <1>1, <1>6, <2>1 DEF MarkedIdle
<1>10. QueuesApart' /\ RunningApart' /\ CarriedNew'
  BY <1>1, <1>6, QueuesKept, RunningKept, CarriedKept
<1>. QED  BY <1>4, <1>5, <1>7, <1>8, <1>9, <1>10 DEF IInv

-----------------------------------------------------------------------------
(* ShutDown.                                                               *)

(* The steps that only set flags.                                          *)
LEMMA FlagsIInv ==
  ASSUME IInv,
         UNCHANGED <<queues, idleSet, idle, balance, wpc, current, sending, ppc, cursor, closing,
                     tasks>>,
         poolAbort' \in BOOLEAN, poolAbort => poolAbort', spc' \in CloserPCs,
         found' \in [Workers -> BOOLEAN], signalled' \in [Workers -> BOOLEAN],
         abort' \in [Workers -> BOOLEAN], atomicAbort' \in [Workers -> BOOLEAN],
         \A w \in Workers : abort[w] => abort'[w],
         CloserInOrder', \A w \in Workers : Wakeup(w)'
  PROVE  IInv'
<1> USE DEF balance, sending, tasks, queues
<1>1. /\ TypeOK /\ OffIsIdle /\ SendersInOrder /\ DonationsInOrder /\ MarkedIdle
      /\ QueuesApart /\ RunningApart /\ CarriedNew
  BY DEF IInv
<1>2. TypeOK'
  <2>1. \A f \in {idle', found', signalled', abort', atomicAbort'} : f \in [Workers -> BOOLEAN]
    BY <1>1, Types
  <2>. QED  BY <1>1, <2>1 DEF TypeOK
<1>3. OffIsIdle' /\ SendersInOrder'
  BY <1>1 DEF OffIsIdle, SendersInOrder
<1>4. DonationsInOrder'
  <2> SUFFICES ASSUME NEW w \in Workers PROVE Donation(w)'
    BY DEF DonationsInOrder
  <2>1. Donation(w) /\ (Donating(w)' <=> Donating(w))
    BY <1>1 DEF DonationsInOrder, Donating
  <2>2. \A i \in 1 .. Len(idleBuffer[w]) : abort[idleBuffer[w][i]] => abort'[idleBuffer[w][i]]
    <3>1. idleBuffer[w] \in Seq(Workers)
      BY <1>1, Types
    <3>. QED  BY <3>1
  <2>3. donated[w] \in Nat /\ Len(idleBuffer[w]) \in Nat
    BY <1>1, Types
  <2>. QED  BY <2>1, <2>2, <2>3 DEF Donation
<1>5. MarkedIdle'
  BY <1>1 DEF MarkedIdle, Unemployed, Marked, Donating
<1>6. QueuesApart' /\ RunningApart' /\ CarriedNew'
  <2>1. \A w \in Workers : Running(w)' <=> Running(w)
    BY DEF Running
  <2>. QED  BY <1>1, <2>1, QueuesKept, RunningKept, CarriedKept
<1>. QED  BY <1>2, <1>3, <1>4, <1>5, <1>6 DEF IInv, Wakeups

LEMMA ShutDownIInv == ASSUME IInv, ShutDown PROVE IInv'
<1> USE DEF ShutDown, flags, closer
<1>1. TypeOK /\ CloserInOrder /\ Wakeups
  BY DEF IInv
<1>2. /\ found' \in [Workers -> BOOLEAN] /\ signalled' \in [Workers -> BOOLEAN]
      /\ abort' \in [Workers -> BOOLEAN] /\ atomicAbort' \in [Workers -> BOOLEAN]
  BY <1>1, Types
<1>3. CloserInOrder'
  BY <1>1, PoolAssumption DEF CloserInOrder, queues, Workers
<1>4. \A w \in Workers : Wakeup(w)'
  BY <1>1 DEF Wakeups, Wakeup, WillSignal, queues, sending
<1>. QED  BY <1>2, <1>3, <1>4, FlagsIInv DEF CloserPCs

LEMMA SetAtomicAbortIInv == ASSUME IInv, SetAtomicAbort PROVE IInv'
<1> USE DEF SetAtomicAbort, flags, closer
<1>1. TypeOK /\ CloserInOrder /\ Wakeups /\ closing \in Workers /\ poolAbort \in BOOLEAN
  BY DEF IInv, CloserInOrder, TypeOK
<1>2. /\ found' \in [Workers -> BOOLEAN] /\ signalled' \in [Workers -> BOOLEAN]
      /\ abort' \in [Workers -> BOOLEAN] /\ atomicAbort' \in [Workers -> BOOLEAN]
  BY <1>1, Types
<1>3. \A w \in Workers : atomicAbort'[w] <=> w = closing \/ atomicAbort[w]
  BY <1>1, Types
<1>4. CloserInOrder'
  BY <1>1, <1>3 DEF CloserInOrder, queues, Workers
<1>5. \A w \in Workers : Wakeup(w)'
  BY <1>1 DEF Wakeups, Wakeup, WillSignal, queues, sending
<1>. QED  BY <1>1, <1>2, <1>4, <1>5, FlagsIInv DEF CloserPCs

LEMMA SetAbortIInv == ASSUME IInv, SetAbort PROVE IInv'
<1> USE DEF SetAbort, flags, closer
<1>1. TypeOK /\ CloserInOrder /\ Wakeups /\ closing \in Workers /\ poolAbort \in BOOLEAN
  BY DEF IInv, CloserInOrder, TypeOK
<1>2. /\ found' \in [Workers -> BOOLEAN] /\ signalled' \in [Workers -> BOOLEAN]
      /\ abort' \in [Workers -> BOOLEAN] /\ atomicAbort' \in [Workers -> BOOLEAN]
  BY <1>1, Types
<1>3. \A w \in Workers : abort'[w] <=> w = closing \/ abort[w]
  BY <1>1, Types
<1>4. CloserInOrder'
  BY <1>1, <1>3 DEF CloserInOrder, queues, Workers
<1>5. ASSUME NEW w \in Workers PROVE Wakeup(w)'
  <2>1. Wakeup(w) /\ (WillSignal(w) => WillSignal(w)')
    BY <1>1 DEF Wakeups, WillSignal, sending
  <2>2. CASE w = closing
    BY <1>1, <2>1, <2>2 DEF Wakeup, WillSignal, queues
  <2>3. CASE w # closing
    BY <1>1, <1>3, <2>1, <2>3 DEF Wakeup, queues
  <2>. QED  BY <2>2, <2>3
<1>. QED  BY <1>1, <1>2, <1>3, <1>4, <1>5, FlagsIInv DEF CloserPCs

LEMMA SetFoundIInv == ASSUME IInv, SetFound PROVE IInv'
<1> USE DEF SetFound, closer
<1>1. TypeOK /\ CloserInOrder /\ Wakeups /\ closing \in Workers /\ poolAbort \in BOOLEAN
  BY DEF IInv, CloserInOrder, TypeOK
<1>2. /\ found' \in [Workers -> BOOLEAN] /\ signalled' \in [Workers -> BOOLEAN]
      /\ abort' \in [Workers -> BOOLEAN] /\ atomicAbort' \in [Workers -> BOOLEAN]
  BY <1>1, Types DEF aborts
<1>3. \A w \in Workers : found'[w] <=> w = closing \/ found[w]
  BY <1>1, Types
<1>4. CloserInOrder'
  BY <1>1 DEF CloserInOrder, queues, aborts
<1>5. ASSUME NEW w \in Workers PROVE Wakeup(w)'
  <2>1. Wakeup(w) /\ (WillSignal(w) => WillSignal(w)')
    BY <1>1 DEF Wakeups, WillSignal, sending
  <2>. QED  BY <1>1, <1>3, <2>1 DEF Wakeup, queues, aborts
<1>. QED  BY <1>1, <1>2, <1>4, <1>5, FlagsIInv DEF CloserPCs, aborts

LEMMA ReleaseForAbortIInv == ASSUME IInv, ReleaseForAbort PROVE IInv'
<1> USE DEF ReleaseForAbort, closer
<1>1. TypeOK /\ CloserInOrder /\ Wakeups /\ closing \in Workers /\ poolAbort \in BOOLEAN
  BY DEF IInv, CloserInOrder, TypeOK
<1>2. /\ found' \in [Workers -> BOOLEAN] /\ signalled' \in [Workers -> BOOLEAN]
      /\ abort' \in [Workers -> BOOLEAN] /\ atomicAbort' \in [Workers -> BOOLEAN]
  BY <1>1, Types DEF aborts
<1>3. \A w \in Workers : signalled'[w] <=> w = closing \/ signalled[w]
  BY <1>1, Types
<1>4. CloserInOrder'
  BY <1>1 DEF CloserInOrder, queues, aborts
<1>5. ASSUME NEW w \in Workers PROVE Wakeup(w)'
  <2>1. Wakeup(w) /\ (WillSignal(w) => w = closing \/ WillSignal(w)')
    BY <1>1 DEF Wakeups, WillSignal, sending
  <2>. QED  BY <1>1, <1>3, <2>1 DEF Wakeup, queues, aborts
<1>. QED  BY <1>1, <1>2, <1>4, <1>5, FlagsIInv DEF CloserPCs, aborts

LEMMA JoinIInv == ASSUME IInv, Join PROVE IInv'
<1> USE DEF Join, closer, flags
<1>1. TypeOK /\ CloserInOrder /\ Wakeups /\ closing \in Workers /\ poolAbort \in BOOLEAN
  BY DEF IInv, CloserInOrder, TypeOK
<1>2. /\ found' \in [Workers -> BOOLEAN] /\ signalled' \in [Workers -> BOOLEAN]
      /\ abort' \in [Workers -> BOOLEAN] /\ atomicAbort' \in [Workers -> BOOLEAN]
  BY <1>1, Types DEF aborts
<1>3. CloserInOrder'
  BY <1>1 DEF CloserInOrder, queues, aborts
<1>4. ASSUME NEW w \in Workers PROVE Wakeup(w)'
  <2>1. Wakeup(w) /\ (WillSignal(w) => WillSignal(w)')
    BY <1>1 DEF Wakeups, WillSignal, sending
  <2>. QED  BY <1>1, <2>1 DEF Wakeup, queues, aborts
<1>. QED  BY <1>1, <1>2, <1>3, <1>4, FlagsIInv DEF CloserPCs, aborts

LEMMA ClearQueuesIInv == ASSUME IInv, ClearQueues PROVE IInv'
<1> USE DEF balance, sending, aborts, flags
<1>0. PICK c \in Workers : c = closing
  BY DEF IInv, CloserInOrder, ClearQueues
<1> DEFINE left == In(publicQueue[c]) \cup In(privateQueue[c])
<1>1. /\ TypeOK /\ CloserInOrder /\ OffIsIdle /\ SendersInOrder /\ DonationsInOrder /\ Wakeups
      /\ QueuesApart /\ RunningApart /\ CarriedNew
      /\ spc = "clear" /\ closing = c /\ wpc[c] = "off" /\ poolAbort
      /\ fate' = [t \in Tasks |-> IF t \in left THEN "destroyed" ELSE fate[t]]
      /\ publicQueue' = [publicQueue EXCEPT ![c] = <<>>]
      /\ privateQueue' = [privateQueue EXCEPT ![c] = <<>>]
      /\ closing' = c + 1
      /\ spc' = IF c = W THEN "closed" ELSE "atomic"
      /\ UNCHANGED <<idleSet, idle, flags, aborts, balance, wpc, current, sending, ppc, cursor,
                     offered>>
  BY <1>0 DEF IInv, CloserInOrder, ClearQueues
<1>2. left = Has(c)
  BY DEF Has
<1> HIDE DEF left
<1>3. /\ publicQueue'[c] = <<>> /\ privateQueue'[c] = <<>>
      /\ \A u \in Workers : u # c => publicQueue'[u] = publicQueue[u] /\ privateQueue'[u] = privateQueue[u]
      /\ c \in 1 .. W /\ W \in Nat /\ spc' \in {"closed", "atomic"}
  BY <1>1, PoolAssumption DEF TypeOK, Workers
<1>4. TypeOK'
  <2>1. /\ publicQueue' \in [Workers -> Seq(Tasks \cup {Moved})]
        /\ privateQueue' \in [Workers -> Seq(Tasks \cup {Moved})]
    <3>1. /\ publicQueue \in [Workers -> Seq(Tasks \cup {Moved})]
          /\ privateQueue \in [Workers -> Seq(Tasks \cup {Moved})]
      BY <1>1 DEF TypeOK
    <3>2. <<>> \in Seq(Tasks \cup {Moved})
      OBVIOUS
    <3>. QED  BY <1>1, <3>1, <3>2
  <2>2. fate' \in [Tasks -> {"new", "queued", "running", "executed", "destroyed", "refused"}]
    BY <1>1 DEF TypeOK
  <2>3. closing' \in 1 .. W + 1 /\ spc' \in CloserPCs
    BY <1>1, <1>3 DEF CloserPCs
  <2>4. \A f \in {idle', found', signalled', abort', atomicAbort'} : f \in [Workers -> BOOLEAN]
    BY <1>1, Types
  <2>. QED  BY <1>1, <2>1, <2>2, <2>3, <2>4 DEF TypeOK
<1>5. OffIsIdle' /\ SendersInOrder'
  BY <1>1 DEF OffIsIdle, SendersInOrder
<1>6. CloserInOrder'
  <2>1. \A u \in Workers : u < closing' <=> u < c \/ u = c
    BY <1>1, <1>3 DEF Workers
  <2>2. \A u \in Workers : (abort'[u] <=> u < closing') /\ (atomicAbort'[u] <=> u < closing')
    BY <1>1, <2>1 DEF CloserInOrder
  <2>3. \A u \in Workers : u < closing' =>
          wpc'[u] = "off" /\ publicQueue'[u] = <<>> /\ privateQueue'[u] = <<>>
    BY <1>1, <1>3, <2>1 DEF CloserInOrder
  <2>4. IF spc' = "closed" THEN closing' = W + 1 ELSE closing' \in Workers
    BY <1>1, <1>3 DEF Workers
  <2>5. \A u \in Workers : u = closing' => spc' = "atomic"
    BY <1>1, <1>3 DEF Workers
  <2>. QED  BY <1>1, <1>3, <2>2, <2>3, <2>4, <2>5 DEF CloserInOrder
<1>7. DonationsInOrder'
  <2> SUFFICES ASSUME NEW w \in Workers PROVE Donation(w)'
    BY DEF DonationsInOrder
  <2>1. Donation(w) /\ (Donating(w)' <=> Donating(w))
    BY <1>1 DEF DonationsInOrder, Donating
  <2>2. CASE w # c
    BY <1>1, <1>3, <2>1, <2>2, DonationKept
  <2>3. CASE w = c
    BY <1>1, <1>3, <2>1, <2>3 DEF Donation, Donating
  <2>. QED  BY <2>2, <2>3
<1>8. Wakeups'
  <2> SUFFICES ASSUME NEW w \in Workers PROVE Wakeup(w)'
    BY DEF Wakeups
  <2>1. CASE w = c
    BY <1>1, <2>1 DEF Wakeup
  <2>2. CASE w # c
    <3>1. Wakeup(w) /\ (WillSignal(w) => WillSignal(w)')
      BY <1>1 DEF Wakeups, WillSignal
    <3>. QED  BY <1>1, <1>3, <2>2, <3>1 DEF Wakeup
  <2>. QED  BY <2>1, <2>2
<1>9. MarkedIdle'
  BY <1>1 DEF MarkedIdle
<1>10. /\ Has(c)' = {}
       /\ \A u \in Workers : u # c => Has(u)' = Has(u)
       /\ \A t \in Tasks : fate'[t] = IF t \in Has(c) THEN "destroyed" ELSE fate[t]
       /\ \A t \in Tasks : t \in Has(c) => fate[t] = "queued"
  <2>1. Has(c)' = {}
    BY <1>3, Entered DEF Has
  <2>2. \A u \in Workers : u # c => Has(u)' = Has(u)
    BY <1>3 DEF Has
  <2>3. \A t \in Tasks : t \in Has(c) => fate[t] = "queued"
    BY <1>1 DEF QueuesApart
  <2>. QED  BY <1>1, <1>2, <2>1, <2>2, <2>3
<1>11. QueuesApart'
  <2>1. \A u \in Workers : /\ NoRepeats(publicQueue[u])' /\ NoRepeats(privateQueue[u])'
                           /\ In(publicQueue[u])' \cap In(privateQueue[u])' = {}
    <3>1. \A u \in Workers : /\ NoRepeats(publicQueue[u]) /\ NoRepeats(privateQueue[u])
                             /\ In(publicQueue[u]) \cap In(privateQueue[u]) = {}
      BY <1>1 DEF QueuesApart
    <3>. QED  BY <1>3, <3>1, Entered
  <2>2. \A u, v \in Workers : u # v => Has(u)' \cap Has(v)' = {}
    BY <1>1, <1>10 DEF QueuesApart
  <2>3. \A t \in Tasks : fate'[t] = "queued" <=> \E u \in Workers : t \in Has(u)'
    <3>1. \A t \in Tasks : fate[t] = "queued" <=> \E u \in Workers : t \in Has(u)
      BY <1>1 DEF QueuesApart
    <3>2. \A t \in Has(c) : \A u \in Workers : u # c => t \notin Has(u)
      BY <1>1 DEF QueuesApart
    <3>. QED  BY <1>1, <1>10, <3>1, <3>2
  <2>. QED  BY <2>1, <2>2, <2>3 DEF QueuesApart
<1>12. RunningApart'
  <2>1. \A w \in Workers : (Running(w)' <=> Running(w)) /\ current'[w] = current[w]
    BY <1>1 DEF Running
  <2>2. \A t \in Tasks : fate'[t] = "running" <=> fate[t] = "running"
    BY <1>10
  <2>. QED  BY <1>1, <2>1, <2>2 DEF RunningApart
<1>13. CarriedNew'
  <2>1. /\ \A s \in Tasks : fate[s] = "new" => fate'[s] = "new"
        /\ carried' = carried /\ offered' = offered
    BY <1>1, <1>10
  <2>2. \A s \in Senders : \A k \in DOMAIN carried[s] : In(carried[s][k].tasks) \subseteq Tasks
    BY <1>1, SharesTyped
  <2>. QED  BY <1>1, <2>1, <2>2 DEF CarriedNew
<1>. QED  BY <1>4, <1>5, <1>6, <1>7, <1>8, <1>9, <1>11, <1>12, <1>13 DEF IInv

(* Nothing changes in a stuttering step.                                   *)
LEMMA StutterIInv == ASSUME IInv, UNCHANGED vars PROVE IInv'
<1> USE DEF vars, queues, flags, aborts, balance, closer, tasks, sending
<1>1. UNCHANGED <<queues, idleSet, idle, balance, wpc, current, sending, ppc, cursor, closing,
                  tasks>>
  OBVIOUS
<1>2. TypeOK /\ CloserInOrder /\ Wakeups
  BY DEF IInv
<1>3. /\ found' \in [Workers -> BOOLEAN] /\ signalled' \in [Workers -> BOOLEAN]
      /\ abort' \in [Workers -> BOOLEAN] /\ atomicAbort' \in [Workers -> BOOLEAN]
  BY <1>2, Types
<1>4. CloserInOrder'
  BY <1>2 DEF CloserInOrder
<1>5. \A w \in Workers : Wakeup(w)'
  BY <1>2 DEF Wakeups, Wakeup, WillSignal
<1>6. poolAbort' \in BOOLEAN /\ spc' \in CloserPCs /\ poolAbort' = poolAbort /\ abort' = abort
  BY <1>2 DEF TypeOK
<1>. QED  BY <1>1, <1>3, <1>4, <1>5, <1>6, FlagsIInv

-----------------------------------------------------------------------------
(* What a call of Enqueue hands over.                                      *)

LEMMA Spans ==
  ASSUME TypeOK, NEW n \in 1 .. N - offered
  PROVE  /\ Span(n) \in Seq(Tasks) /\ Len(Span(n)) = n /\ NoRepeats(Span(n))
         /\ \A k \in 1 .. n : Span(n)[k] = offered + k
         /\ offered \in Nat /\ n \in Nat /\ N \in Nat /\ n >= 1 /\ offered + n <= N
         /\ \A t : t \in In(Span(n)) <=> t \in offered + 1 .. offered + n
<1>1. offered \in Nat /\ n \in Nat /\ N \in Nat /\ n >= 1 /\ offered + n <= N
  BY PoolAssumption DEF TypeOK
<1>2. \A k \in 1 .. n : offered + k \in Tasks /\ offered + k # Moved
  BY <1>1 DEF Tasks, Moved
<1>3. Span(n) \in [1 .. n -> Tasks] /\ \A k \in 1 .. n : Span(n)[k] = offered + k
  BY <1>2 DEF Span
<1>4. Span(n) \in Seq(Tasks) /\ Len(Span(n)) = n /\ DOMAIN Span(n) = 1 .. n
  BY <1>1, <1>3
<1>5. NoRepeats(Span(n))
  BY <1>1, <1>3, <1>4 DEF NoRepeats
<1>6. \A t : t \in In(Span(n)) <=> t \in offered + 1 .. offered + n
  <2>1. ASSUME NEW t \in offered + 1 .. offered + n PROVE t \in In(Span(n))
    <3>1. t - offered \in 1 .. n /\ offered + (t - offered) = t
      BY <1>1
    <3>. QED  BY <1>2, <1>3, <1>4, <3>1 DEF In
  <2>2. ASSUME NEW t \in In(Span(n)) PROVE t \in offered + 1 .. offered + n
    BY <1>1, <1>3, <1>4 DEF In
  <2>. QED  BY <2>1, <2>2
<1>. QED  BY <1>1, <1>3, <1>4, <1>5, <1>6

(* The shares of a call are not empty, and have the offered tasks once.    *)
AreFresh(shares, n) ==
  /\ shares \in Seq(Share) /\ shares # <<>>
  /\ \A k \in DOMAIN shares :
       /\ shares[k].tasks # <<>> /\ NoRepeats(shares[k].tasks)
       /\ In(shares[k].tasks) \subseteq offered + 1 .. offered + n
  /\ \A j, k \in DOMAIN shares : \A t \in In(shares[j].tasks) : t \in In(shares[k].tasks) => j = k

LEMMA FreshOneByOne ==
  ASSUME TypeOK, NEW n \in 1 .. N - offered
  PROVE  AreFresh(OneByOne(n), n) /\ Len(OneByOne(n)) = n
<1> DEFINE shares == OneByOne(n)
<1>1. /\ offered \in Nat /\ n \in Nat /\ n >= 1
      /\ \A k \in 1 .. n : offered + k \in Tasks
  BY Spans DEF Tasks
<1>2. /\ \A k \in 1 .. n : shares[k] = [tasks |-> <<offered + k>>, to |-> Nobody]
      /\ shares = [k \in 1 .. n |-> [tasks |-> <<offered + k>>, to |-> Nobody]]
  BY DEF OneByOne
<1>3. \A k \in 1 .. n : <<offered + k>> \in Seq(Tasks)
  BY <1>1
<1>4. \A k \in 1 .. n : shares[k] \in Share
  BY <1>2, <1>3 DEF Share
<1> HIDE DEF shares
<1>5. shares \in [1 .. n -> Share]
  BY <1>2, <1>4
<1>6. shares \in Seq(Share) /\ Len(shares) = n /\ DOMAIN shares = 1 .. n /\ shares # <<>>
  BY <1>1, <1>5
<1>7. \A k \in 1 .. n : /\ shares[k].tasks = <<offered + k>>
                        /\ shares[k].tasks # <<>> /\ NoRepeats(shares[k].tasks)
                        /\ In(shares[k].tasks) \subseteq {offered + k}
  BY <1>2 DEF NoRepeats, In
<1>8. \A j, k \in DOMAIN shares : \A t \in In(shares[j].tasks) : t \in In(shares[k].tasks) => j = k
  <2> SUFFICES ASSUME NEW j \in 1 .. n, NEW k \in 1 .. n, NEW t \in In(shares[j].tasks),
                      t \in In(shares[k].tasks)
               PROVE  j = k
    BY <1>6
  <2>1. t = offered + j /\ t = offered + k
    BY <1>7
  <2>. QED  BY <1>1, <2>1
<1>9. \A k \in DOMAIN shares : /\ shares[k].tasks # <<>> /\ NoRepeats(shares[k].tasks)
                               /\ In(shares[k].tasks) \subseteq offered + 1 .. offered + n
  <2>1. \A k \in 1 .. n : {offered + k} \subseteq offered + 1 .. offered + n
    BY <1>1
  <2>. QED  BY <1>6, <1>7, <2>1
<1>10. AreFresh(shares, n)
  BY <1>6, <1>8, <1>9 DEF AreFresh
<1>. QED  BY <1>6, <1>10 DEF shares

LEMMA FreshSpread ==
  ASSUME TypeOK, NEW n \in 1 .. N - offered, n >= W
  PROVE  AreFresh(Spread(n), n)
<1> DEFINE End(j) == DonationEnd(n, W - 1, j)
           part(j) == SubSeq(Span(n), End(j - 1) + 1, End(j))
           shares == Spread(n)
<1>1. /\ offered \in Nat /\ n \in Nat /\ W \in Nat /\ W >= 1 /\ Workers = 1 .. W
      /\ Span(n) \in Seq(Tasks) /\ Span(n) \in Seq(Entries) /\ Len(Span(n)) = n
      /\ NoRepeats(Span(n)) /\ \A k \in 1 .. n : Span(n)[k] = offered + k
  <2>1. Span(n) \in Seq(Tasks)
    BY Spans
  <2>2. Span(n) \in Seq(Entries)
    BY <2>1, Batch
  <2>. QED  BY <2>1, <2>2, Spans, PoolAssumption DEF Workers
<1>2. /\ \A j \in 0 .. W : End(j) \in 0 .. n
      /\ \A i, j \in 0 .. W : i <= j => End(i) <= End(j)
      /\ \A j \in 0 .. W - 1 : End(j) < End(j + 1)
  <2>1. W - 1 \in Nat /\ W - 1 < n /\ (W - 1) + 1 = W
    BY <1>1
  <2>2. /\ \A j \in 0 .. (W - 1) + 1 : DonationEnd(n, W - 1, j) \in 0 .. n
        /\ \A i, j \in 0 .. (W - 1) + 1 : i <= j => DonationEnd(n, W - 1, i) <= DonationEnd(n, W - 1, j)
        /\ \A j \in 0 .. W - 1 : DonationEnd(n, W - 1, j) < DonationEnd(n, W - 1, j + 1)
    BY <1>1, <2>1, DonationEnds
  <2>. QED  BY <2>1, <2>2
<1>3. /\ shares = [j \in Workers |-> [tasks |-> part(j), to |-> j]]
      /\ \A j \in Workers : shares[j] = [tasks |-> part(j), to |-> j]
  BY DEF Spread
<1> HIDE DEF End, shares
<1>4. ASSUME NEW j \in Workers
      PROVE  /\ j - 1 \in 0 .. W /\ j \in 0 .. W /\ End(j - 1) \in 0 .. n /\ End(j) \in 0 .. n
             /\ End(j - 1) < End(j)
             /\ part(j) \in Seq(Tasks) /\ part(j) # <<>> /\ NoRepeats(part(j))
             /\ \A t \in In(part(j)) : \E i \in End(j - 1) + 1 .. End(j) : t = offered + i
  <2>1. j - 1 \in 0 .. W - 1 /\ j - 1 \in 0 .. W /\ j \in 0 .. W /\ (j - 1) + 1 = j
    BY <1>1
  <2>2. End(j - 1) \in 0 .. n /\ End(j) \in 0 .. n /\ End(j - 1) < End(j)
    BY <1>2, <2>1
  <2>3. /\ End(j - 1) \in Nat /\ End(j) \in 0 .. Len(Span(n))
    BY <1>1, <2>2
  <2>4. /\ NoRepeats(part(j)) /\ part(j) \in Seq(Entries)
        /\ Len(part(j)) = (IF End(j - 1) < End(j) THEN End(j) - End(j - 1) ELSE 0)
        /\ \A i \in DOMAIN part(j) : part(j)[i] = Span(n)[End(j - 1) + i]
                                     /\ End(j - 1) + i \in DOMAIN Span(n)
    BY <1>1, <2>3, PartOf
  <2>5. \A t : t \in In(part(j)) <=> t # Moved /\ \E i \in End(j - 1) + 1 .. End(j) : Span(n)[i] = t
    <3>1. PICK q \in Seq(Entries) : q = Span(n)
      BY <1>1
    <3>2. \A a \in Nat : \A e \in 0 .. Len(q) : \A t :
            t \in In(SubSeq(q, a + 1, e)) <=> t # Moved /\ \E i \in a + 1 .. e : q[i] = t
      BY InPart
    <3>. QED  BY <2>3, <3>1, <3>2
  <2> HIDE DEF part
  <2>6. part(j) # <<>>
    BY <2>2, <2>4
  <2>7. part(j) \in Seq(Tasks)
    <3>1. \A i \in DOMAIN part(j) : part(j)[i] \in Tasks
      BY <1>1, <2>4
    <3>2. DOMAIN part(j) = 1 .. Len(part(j)) /\ Len(part(j)) \in Nat
          /\ part(j) = [i \in 1 .. Len(part(j)) |-> part(j)[i]]
      BY <2>4
    <3>. QED  BY <3>1, <3>2
  <2>8. \A i \in End(j - 1) + 1 .. End(j) : Span(n)[i] = offered + i
    BY <1>1, <2>2
  <2>. QED  BY <2>1, <2>2, <2>4, <2>5, <2>6, <2>7, <2>8
<1> HIDE DEF part
<1>5. shares \in Seq(Share) /\ shares # <<>> /\ DOMAIN shares = Workers
  <2>1. \A j \in Workers : shares[j] \in Share
    BY <1>3, <1>4 DEF Share
  <2>2. shares \in [1 .. W -> Share]
    BY <1>1, <1>3, <2>1
  <2>. QED  BY <1>1, <2>2
<1>6. \A j \in Workers : /\ shares[j].tasks # <<>> /\ NoRepeats(shares[j].tasks)
                         /\ In(shares[j].tasks) \subseteq offered + 1 .. offered + n
  <2> SUFFICES ASSUME NEW j \in Workers, NEW t \in In(part(j))
               PROVE  t \in offered + 1 .. offered + n
    BY <1>3, <1>4
  <2>1. PICK i \in End(j - 1) + 1 .. End(j) : t = offered + i
    BY <1>4
  <2>2. End(j - 1) \in 0 .. n /\ End(j) \in 0 .. n
    BY <1>4
  <2>. QED  BY <1>1, <2>1, <2>2
<1>7. \A j, k \in Workers : \A t \in In(shares[j].tasks) : t \in In(shares[k].tasks) => j = k
  <2>1. ASSUME NEW j \in Workers, NEW k \in Workers, j < k, NEW t \in In(part(j)),
               t \in In(part(k))
        PROVE  FALSE
    <3>1. PICK i \in End(j - 1) + 1 .. End(j) : t = offered + i
      BY <1>4
    <3>2. PICK h \in End(k - 1) + 1 .. End(k) : t = offered + h
      BY <1>4, <2>1
    <3>3. /\ End(j - 1) \in 0 .. n /\ End(j) \in 0 .. n /\ End(k - 1) \in 0 .. n /\ End(k) \in 0 .. n
          /\ j \in 0 .. W /\ k - 1 \in 0 .. W /\ j <= k - 1
      BY <1>1, <1>4, <2>1
    <3>4. End(j) <= End(k - 1)
      BY <1>2, <3>3
    <3>5. \A x, y \in Int : offered + x = offered + y => x = y
      BY <1>1
    <3>6. i \in Int /\ h \in Int /\ i <= End(j) /\ End(k - 1) + 1 <= h
      BY <3>3
    <3>7. i = h
      BY <3>1, <3>2, <3>5, <3>6
    <3>. QED  BY <3>3, <3>4, <3>6, <3>7
  <2>2. \A j, k \in Workers : j < k \/ k < j \/ j = k
    BY <1>1
  <2>. QED  BY <1>3, <2>1, <2>2
<1>8. AreFresh(shares, n)
  BY <1>5, <1>6, <1>7 DEF AreFresh
<1>. QED  BY <1>8 DEF shares

LEMMA Fresh ==
  ASSUME TypeOK, NEW n \in 1 .. N - offered, NEW shares \in Shares(n)
  PROVE  AreFresh(shares, n)
BY FreshOneByOne, FreshSpread DEF Shares

LEMMA CarriedApart ==
  ASSUME CarriedNew
  PROVE  \A r, q \in Senders : \A j \in DOMAIN carried[r], k \in DOMAIN carried[q] : \A t :
           t \in In(carried[r][j].tasks) /\ t \in In(carried[q][k].tasks) => r = q /\ j = k
BY DEF CarriedNew, SharesApart

(* The shares of all senders, if one of them has handed some over.         *)
LEMMA SharesLeft ==
  ASSUME NEW old, NEW new, NEW s \in Senders
  PROVE  SharesApart(old) /\ (\A r \in Senders : r # s => new[r] = old[r])
         /\ (\A k \in DOMAIN new[s] : k \in Nat /\ k + 1 \in DOMAIN old[s] /\ new[s][k] = old[s][k + 1])
           => SharesApart(new)
<1> DEFINE was(r, k) == IF r = s THEN k + 1 ELSE k
           Handed == /\ \A r \in Senders : r # s => new[r] = old[r]
                     /\ \A k \in DOMAIN new[s] :
                          k \in Nat /\ k + 1 \in DOMAIN old[s] /\ new[s][k] = old[s][k + 1]
<1>1. ASSUME Handed, NEW r \in Senders, NEW k \in DOMAIN new[r]
      PROVE  \E a \in DOMAIN old[r] : /\ new[r][k] = old[r][a] /\ a = was(r, k)
                                      /\ r = s => k \in Nat
  BY <1>1
<1>2. \A r \in Senders : \A j, k : (r = s => j \in Nat /\ k \in Nat) /\ was(r, j) = was(r, k) => j = k
  OBVIOUS
<1> HIDE DEF was, Handed
<1> SUFFICES ASSUME SharesApart(old), Handed PROVE SharesApart(new)
  BY DEF Handed
<1>3. ASSUME NEW r \in Senders, NEW q \in Senders, NEW j \in DOMAIN new[r],
             NEW k \in DOMAIN new[q], NEW t \in In(new[r][j].tasks),
             t \in In(new[q][k].tasks)
      PROVE  r = q /\ j = k
  <2>1. PICK a \in DOMAIN old[r] : new[r][j] = old[r][a] /\ a = was(r, j) /\ (r = s => j \in Nat)
    BY <1>1
  <2>2. PICK b \in DOMAIN old[q] : new[q][k] = old[q][b] /\ b = was(q, k) /\ (q = s => k \in Nat)
    BY <1>1
  <2>3. t \in In(old[r][a].tasks) /\ t \in In(old[q][b].tasks)
    BY <1>3, <2>1, <2>2
  <2>4. r = q /\ a = b
    BY <2>1, <2>2, <2>3 DEF SharesApart
  <2>. QED  BY <1>2, <2>1, <2>2, <2>4
<1>. QED  BY <1>3 DEF SharesApart

(* A call of Enqueue begins.                                               *)
LEMMA CarriedOffered ==
  ASSUME TypeOK, CarriedNew, NEW s \in Senders, NEW n \in 1 .. N - offered,
         NEW shares, AreFresh(shares, n), carried[s] = <<>>,
         carried' = [carried EXCEPT ![s] = shares], offered' = offered + n, fate' = fate
  PROVE  /\ CarriedNew'
         /\ carried' \in [Workers \cup Producers -> Seq(Share)] /\ offered' \in 0 .. N
         /\ carried'[s] = shares /\ \A r \in Senders : r # s => carried'[r] = carried[r]
<1>1. /\ offered \in Nat /\ n \in Nat /\ N \in Nat /\ n >= 1 /\ offered + n <= N
      /\ Tasks \subseteq Nat
  BY Spans, Entered
<1>2. carried \in [Senders -> Seq(Share)] /\ shares \in Seq(Share)
  BY DEF TypeOK, Senders, AreFresh
<1>3. /\ carried' \in [Senders -> Seq(Share)]
      /\ carried'[s] = shares /\ \A r \in Senders : r # s => carried'[r] = carried[r]
  BY <1>2
<1>4. \A t \in Tasks : t > offered => fate[t] = "new"
  BY DEF CarriedNew
<1>5. \A t \in Tasks : t > offered' => fate'[t] = "new"
  BY <1>1, <1>4
<1>6. ASSUME NEW r \in Senders, NEW k \in DOMAIN carried'[r]
      PROVE  /\ NoRepeats(carried'[r][k].tasks)
             /\ \A t \in In(carried'[r][k].tasks) : t <= offered' /\ fate'[t] = "new"
             /\ r = s => \A t \in In(carried'[r][k].tasks) : t > offered
             /\ r # s => /\ k \in DOMAIN carried[r]
                         /\ \A t \in In(carried'[r][k].tasks) : t \in Tasks /\ t <= offered
  <2>1. CASE r = s
    <3>1. NoRepeats(shares[k].tasks) /\ In(shares[k].tasks) \subseteq offered + 1 .. offered + n
      BY <1>3, <1>6, <2>1 DEF AreFresh
    <3>2. \A t \in offered + 1 .. offered + n : t \in Tasks /\ t > offered /\ t <= offered'
      BY <1>1 DEF Tasks
    <3>. QED  BY <1>3, <1>4, <2>1, <3>1, <3>2
  <2>2. CASE r # s
    <3>1. k \in DOMAIN carried[r] /\ carried'[r] = carried[r]
      BY <1>3, <1>6, <2>2
    <3>2. In(carried[r][k].tasks) \subseteq Tasks
      BY <3>1, SharesTyped
    <3>3. /\ NoRepeats(carried[r][k].tasks)
          /\ \A t \in In(carried[r][k].tasks) : t <= offered /\ fate[t] = "new"
      BY <3>1 DEF CarriedNew
    <3>4. \A t \in Tasks : t <= offered => t <= offered'
      BY <1>1
    <3>. QED  BY <2>2, <3>1, <3>2, <3>3, <3>4
  <2>. QED  BY <2>1, <2>2
<1>7. SharesApart(carried')
  <2> SUFFICES ASSUME NEW r \in Senders, NEW q \in Senders, NEW j \in DOMAIN carried'[r],
                      NEW k \in DOMAIN carried'[q], NEW t \in In(carried'[r][j].tasks),
                      t \in In(carried'[q][k].tasks)
               PROVE  r = q /\ j = k
    BY DEF SharesApart
  <2>1. (r = s <=> q = s)
    <3>1. (r = s => t > offered) /\ (q = s => t > offered)
      BY <1>6
    <3>2. (r # s => t \in Tasks /\ t <= offered) /\ (q # s => t \in Tasks /\ t <= offered)
      BY <1>6
    <3>3. t \in Tasks => ~(t > offered /\ t <= offered)
      BY <1>1
    <3>. QED  BY <3>1, <3>2, <3>3
  <2>2. CASE r = s
    BY <1>3, <2>1, <2>2 DEF AreFresh
  <2>3. CASE r # s
    <3>1. carried'[r] = carried[r] /\ carried'[q] = carried[q]
      BY <1>3, <2>1, <2>3
    <3>2. /\ j \in DOMAIN carried[r] /\ k \in DOMAIN carried[q]
          /\ t \in In(carried[r][j].tasks) /\ t \in In(carried[q][k].tasks)
      BY <3>1
    <3>. QED  BY <3>2, CarriedApart
  <2>. QED  BY <2>2, <2>3
<1>. QED  BY <1>1, <1>3, <1>5, <1>6, <1>7 DEF CarriedNew, Senders

(* The worker of a running task is offered tasks for itself.               *)
LEMMA CarriedLocal ==
  ASSUME TypeOK, CarriedNew, NEW n \in 1 .. N - offered,
         carried' = carried, offered' = offered + n,
         \A t \in Tasks : t \notin offered + 1 .. offered + n => fate'[t] = fate[t]
  PROVE  CarriedNew' /\ offered' \in 0 .. N
<1>1. /\ offered \in Nat /\ n \in Nat /\ N \in Nat /\ n >= 1 /\ offered + n <= N
      /\ Tasks \subseteq Nat
  BY Spans, Entered
<1>2. \A t \in Tasks : t > offered' => fate'[t] = "new"
  BY <1>1 DEF CarriedNew
<1>3. ASSUME NEW r \in Senders, NEW k \in DOMAIN carried[r]
      PROVE  /\ NoRepeats(carried[r][k].tasks)
             /\ \A t \in In(carried[r][k].tasks) : t <= offered' /\ fate'[t] = "new"
  <2>1. In(carried[r][k].tasks) \subseteq Tasks
    BY SharesTyped
  <2>2. /\ NoRepeats(carried[r][k].tasks)
        /\ \A t \in In(carried[r][k].tasks) : t <= offered /\ fate[t] = "new"
    BY DEF CarriedNew
  <2>3. \A t \in Tasks : t <= offered => t <= offered' /\ t \notin offered + 1 .. offered + n
    BY <1>1
  <2>. QED  BY <2>1, <2>2, <2>3
<1>. QED  BY <1>1, <1>2, <1>3 DEF CarriedNew

(* A share is handed over, or the call ends: then all that is left of it   *)
(* may have got another fate.                                              *)
LEMMA CarriedHandedOver ==
  ASSUME TypeOK, CarriedNew, NEW s \in Senders, carried[s] # <<>>,
         NEW left, left = Tail(carried[s]) \/ left = <<>>,
         carried' = [carried EXCEPT ![s] = left], offered' = offered,
         NEW B \in SUBSET Tasks, \A t \in Tasks \ B : fate'[t] = fate[t],
         \A t \in B : \E k \in DOMAIN carried[s] :
           t \in In(carried[s][k].tasks) /\ (k = 1 \/ left = <<>>)
  PROVE  /\ CarriedNew'
         /\ carried' \in [Workers \cup Producers -> Seq(Share)]
         /\ carried'[s] = left /\ \A r \in Senders : r # s => carried'[r] = carried[r]
         /\ \A k \in DOMAIN left : k + 1 \in DOMAIN carried[s] /\ left[k] = carried[s][k + 1]
         /\ \A t \in B : fate[t] = "new"
<1>1. /\ offered \in Nat /\ Tasks \subseteq Nat
      /\ carried \in [Senders -> Seq(Share)] /\ carried[s] \in Seq(Share)
  BY Entered, PoolAssumption DEF TypeOK, Senders
<1>2. /\ left \in Seq(Share) /\ DOMAIN left \subseteq Nat \ {0}
      /\ \A k \in DOMAIN left : k + 1 \in DOMAIN carried[s] /\ left[k] = carried[s][k + 1]
  <2>1. PICK c \in Seq(Share) : c = carried[s] /\ c # <<>>
    BY <1>1
  <2>2. CASE left = Tail(c)
    BY <2>1, <2>2
  <2>3. CASE left = <<>>
    BY <2>3
  <2>. QED  BY <2>1, <2>2, <2>3
<1>3. /\ carried' \in [Senders -> Seq(Share)]
      /\ carried'[s] = left /\ \A r \in Senders : r # s => carried'[r] = carried[r]
  BY <1>1, <1>2
<1>4. \A t \in B : t <= offered /\ fate[t] = "new"
  BY DEF CarriedNew
<1>5. \A t \in Tasks : t > offered' => fate'[t] = "new"
  BY <1>1, <1>4 DEF CarriedNew
<1>6. ASSUME NEW t \in B, NEW r \in Senders, NEW k \in DOMAIN carried[r],
             t \in In(carried[r][k].tasks)
      PROVE  r = s /\ (k = 1 \/ left = <<>>)
  <2>1. PICK j \in DOMAIN carried[s] : t \in In(carried[s][j].tasks) /\ (j = 1 \/ left = <<>>)
    OBVIOUS
  <2>2. r = s /\ k = j
    BY <1>6, <2>1, CarriedApart, Zenon
  <2>. QED  BY <2>1, <2>2
<1>7. ASSUME NEW r \in Senders, NEW k \in DOMAIN carried'[r]
      PROVE  \E j \in DOMAIN carried[r] :
               carried'[r][k] = carried[r][j] /\ (r = s => left # <<>> /\ j # 1)
  <2>1. CASE r = s
    <3>1. k \in DOMAIN left
      BY <1>3, <1>7, <2>1
    <3>2. left # <<>> /\ k + 1 # 1
      BY <1>2, <3>1
    <3>. QED  BY <1>2, <1>3, <2>1, <3>1, <3>2
  <2>2. CASE r # s
    BY <1>3, <1>7, <2>2
  <2>. QED  BY <2>1, <2>2
<1>8. ASSUME NEW r \in Senders, NEW k \in DOMAIN carried'[r]
      PROVE  /\ NoRepeats(carried'[r][k].tasks)
             /\ \A t \in In(carried'[r][k].tasks) : t <= offered' /\ fate'[t] = "new"
  <2>1. PICK j \in DOMAIN carried[r] :
          carried'[r][k] = carried[r][j] /\ (r = s => left # <<>> /\ j # 1)
    BY <1>7
  <2>2. In(carried[r][j].tasks) \subseteq Tasks
    BY SharesTyped
  <2>3. /\ NoRepeats(carried[r][j].tasks)
        /\ \A t \in In(carried[r][j].tasks) : t <= offered /\ fate[t] = "new"
    BY DEF CarriedNew
  <2>4. \A t \in In(carried[r][j].tasks) : t \notin B
    BY <1>6, <2>1
  <2>. QED  BY <2>1, <2>2, <2>3, <2>4
<1>9. SharesApart(carried')
  <2>1. SharesApart(carried)
    BY DEF CarriedNew
  <2>2. \A k \in DOMAIN carried'[s] :
          k \in Nat /\ k + 1 \in DOMAIN carried[s] /\ carried'[s][k] = carried[s][k + 1]
    BY <1>2, <1>3
  <2>3. PICK old : old = carried
    OBVIOUS
  <2>4. PICK new : new = carried'
    OBVIOUS
  <2>5. /\ SharesApart(old)
        /\ \A r \in Senders : r # s => new[r] = old[r]
        /\ \A k \in DOMAIN new[s] : k \in Nat /\ k + 1 \in DOMAIN old[s] /\ new[s][k] = old[s][k + 1]
    BY <1>3, <2>1, <2>2, <2>3, <2>4
  <2>6. SharesApart(new)
    BY <2>5, SharesLeft
  <2>. QED  BY <2>4, <2>6
<1>. QED  BY <1>2, <1>3, <1>4, <1>5, <1>8, <1>9 DEF CarriedNew, Senders

-----------------------------------------------------------------------------
(* Tasks are enqueued to a worker.                                         *)

LEMMA PushDoes ==
  ASSUME TypeOK, NEW v \in Workers, NEW b \in Seq(Entries), NEW pcs \in [Workers -> WorkerPCs],
         Push(v, b, pcs)
  PROVE  /\ found'[v] = TRUE /\ idle'[v] = FALSE /\ publicQueue'[v] = publicQueue[v] \o b
         /\ (idle[v] => wpc'[v] = "drain") /\ (~idle[v] => wpc'[v] = pcs[v])
         /\ \A u \in Workers : u # v =>
              /\ found'[u] = found[u] /\ idle'[u] = idle[u] /\ publicQueue'[u] = publicQueue[u]
              /\ wpc'[u] = pcs[u]
         /\ publicQueue' \in [Workers -> Seq(Tasks \cup {Moved})]
         /\ found' \in [Workers -> BOOLEAN] /\ idle' \in [Workers -> BOOLEAN]
         /\ wpc' \in [Workers -> WorkerPCs]
<1>1. found \in [Workers -> BOOLEAN] /\ idle \in [Workers -> BOOLEAN]
  BY Types
<1>2. /\ found'[v] = TRUE /\ idle'[v] = FALSE
      /\ \A u \in Workers : u # v => found'[u] = found[u] /\ idle'[u] = idle[u]
      /\ found' \in [Workers -> BOOLEAN] /\ idle' \in [Workers -> BOOLEAN]
  BY <1>1 DEF Push
<1>3. /\ (idle[v] => wpc'[v] = "drain") /\ (~idle[v] => wpc'[v] = pcs[v])
      /\ \A u \in Workers : u # v => wpc'[u] = pcs[u]
      /\ wpc' \in [Workers -> WorkerPCs]
  BY DEF Push, WorkerPCs
<1>4. publicQueue \in [Workers -> Seq(Entries)]
  BY DEF TypeOK, Entries
<1>5. publicQueue[v] \o b \in Seq(Entries)
  BY <1>4
<1>6. publicQueue' = [publicQueue EXCEPT ![v] = publicQueue[v] \o b]
  BY <1>4 DEF Push
<1>7. /\ publicQueue'[v] = publicQueue[v] \o b
      /\ \A u \in Workers : u # v => publicQueue'[u] = publicQueue[u]
      /\ publicQueue' \in [Workers -> Seq(Entries)]
  BY <1>4, <1>5, <1>6
<1>. QED  BY <1>2, <1>3, <1>7 DEF Entries

(* Where a thread that enqueues can go in the same step.                   *)
Sending == {"donate", "releaseDonation", "enqueue", "release", "run"}

(* The worker has a thread afterwards, and it will get to know of the      *)
(* tasks.                                                                  *)
LEMMA PushKeeps ==
  ASSUME IInv, NEW v \in Workers, NEW b \in Seq(Entries), NEW pcs \in [Workers -> WorkerPCs],
         Push(v, b, pcs), ~abort[v], b # <<>> \/ poolAbort,
         \A u \in Workers : pcs[u] = wpc[u] \/ (wpc[u] \in Sending /\ pcs[u] \in Sending),
         \A u \in Workers : wpc[u] = "off" => privateQueue'[u] = privateQueue[u],
         UNCHANGED <<signalled, aborts, closer>>,
         MustRelease(v) => WillSignal(v)',
         \A u \in Workers : WillSignal(u) => WillSignal(u)',
         ~poolAbort => \A u \in Workers : u # v /\ Marked(u) => Marked(u)'
  PROVE  OffIsIdle' /\ CloserInOrder' /\ Wakeups' /\ MarkedIdle'
<1> USE DEF aborts, closer
<1>1. TypeOK /\ OffIsIdle /\ CloserInOrder /\ Wakeups /\ MarkedIdle
  BY DEF IInv
<1>2. /\ found'[v] = TRUE /\ idle'[v] = FALSE /\ publicQueue'[v] = publicQueue[v] \o b
      /\ (idle[v] => wpc'[v] = "drain") /\ (~idle[v] => wpc'[v] = pcs[v])
      /\ \A u \in Workers : u # v =>
           /\ found'[u] = found[u] /\ idle'[u] = idle[u] /\ publicQueue'[u] = publicQueue[u]
           /\ wpc'[u] = pcs[u]
  <2>1. /\ found'[v] = TRUE /\ idle'[v] = FALSE /\ publicQueue'[v] = publicQueue[v] \o b
        /\ \A u \in Workers : u # v =>
             found'[u] = found[u] /\ idle'[u] = idle[u] /\ publicQueue'[u] = publicQueue[u]
    BY <1>1, PushDoes
  <2>2. /\ wpc'[v] = IF idle[v] THEN "drain" ELSE pcs[v]
        /\ \A u \in Workers : u # v => wpc'[u] = pcs[u]
    BY DEF Push
  <2>. QED  BY <2>1, <2>2
<1>3. \A u \in Workers : pcs[u] \in {"off", "drain", "markIdle", "wait", "recheck", "ending"}
                           => pcs[u] = wpc[u]
  BY DEF Sending
<1>4. OffIsIdle'
  <2>1. idle[v] => wpc'[v] = "drain"
    BY <1>2
  <2>2. ~idle[v] => wpc'[v] # "off"
    BY <1>1, <1>2, <1>3 DEF OffIsIdle
  <2>3. \A u \in Workers : (pcs[u] = "off") <=> (wpc[u] = "off")
    BY <1>3 DEF Sending
  <2>4. wpc'[v] # "off"
    BY <2>1, <2>2
  <2>. QED  BY <1>1, <1>2, <2>3, <2>4 DEF OffIsIdle
<1>5. CloserInOrder'
  <2>1. \A u \in Workers : wpc[u] = "off" => pcs[u] = "off"
    BY DEF Sending
  <2>. QED  BY <1>1, <1>2, <2>1, CloserKept
<1>6. publicQueue[v] \in Seq(Entries) /\ (b # <<>> => publicQueue'[v] # <<>>)
  <2>1. publicQueue[v] \in Seq(Entries)
    BY <1>1, Types
  <2>. QED  BY <1>2, <2>1
<1>7. Wakeups'
  <2> SUFFICES ASSUME NEW u \in Workers PROVE Wakeup(u)'
    BY DEF Wakeups
  <2>1. Wakeup(u)
    BY <1>1 DEF Wakeups
  <2>2. CASE u # v
    BY <1>2, <1>3, <2>1, <2>2 DEF Wakeup
  <2>3. CASE u = v
    <3> SUFFICES ASSUME wpc'[v] \in {"markIdle", "wait"}
                 PROVE  signalled[v] \/ WillSignal(v)'
      BY <1>2, <2>3 DEF Wakeup
    <3>1. wpc[v] \in {"markIdle", "wait"} /\ ~idle[v]
      BY <1>2, <1>3
    <3>2. CASE publicQueue[v] = <<>>
      BY <3>1, <3>2 DEF MustRelease
    <3>3. CASE publicQueue[v] # <<>>
      BY <2>1, <2>3, <3>1, <3>3 DEF Wakeup
    <3>. QED  BY <3>2, <3>3
  <2>. QED  BY <2>2, <2>3
<1>8. MarkedIdle'
  <2> SUFFICES ASSUME ~poolAbort, NEW u \in Workers, Unemployed(u)' PROVE Marked(u)'
    BY DEF MarkedIdle
  <2>1. u # v
    BY <1>6 DEF Unemployed
  <2>2. Unemployed(u)
    BY <1>2, <1>3, <2>1 DEF Unemployed
  <2>. QED  BY <1>1, <2>1, <2>2 DEF MarkedIdle
<1>. QED  BY <1>4, <1>5, <1>7, <1>8

(* New tasks are added to one of the queues of a worker.                   *)
LEMMA QueuesPushed ==
  ASSUME TypeOK, QueuesApart, NEW v \in Workers, NEW b \in Seq(Entries), NoRepeats(b),
         \A t \in In(b) : fate[t] = "new",
         \A u \in Workers : u # v => publicQueue'[u] = publicQueue[u] /\ privateQueue'[u] = privateQueue[u],
         \/ publicQueue'[v] = publicQueue[v] \o b /\ privateQueue'[v] = privateQueue[v]
         \/ publicQueue'[v] = publicQueue[v] /\ privateQueue'[v] = privateQueue[v] \o b,
         \A t \in Tasks : fate'[t] = IF t \in In(b) THEN "queued" ELSE fate[t]
  PROVE  QueuesApart'
<1>1. In(b) \subseteq Tasks
  BY Entered
<1>2. \A u \in Workers : Has(u) \cap In(b) = {}
  <2>1. \A t \in Tasks : \A u \in Workers : t \in Has(u) => fate[t] = "queued"
    BY DEF QueuesApart
  <2>. QED  BY <1>1, <2>1
<1>3. \A u \in Workers :
        /\ publicQueue[u] \in Seq(Entries) /\ privateQueue[u] \in Seq(Entries)
        /\ NoRepeats(publicQueue[u]) /\ NoRepeats(privateQueue[u])
        /\ In(publicQueue[u]) \cap In(privateQueue[u]) = {}
        /\ In(publicQueue[u]) \cap In(b) = {} /\ In(privateQueue[u]) \cap In(b) = {}
  BY <1>2, Types DEF QueuesApart, Has
<1>4. \A q \in Seq(Entries) : NoRepeats(q) /\ In(q) \cap In(b) = {}
        => NoRepeats(q \o b) /\ In(q \o b) = In(q) \cup In(b)
  BY Appended
<1>5. /\ NoRepeats(publicQueue'[v]) /\ NoRepeats(privateQueue'[v])
      /\ In(publicQueue'[v]) \cap In(privateQueue'[v]) = {}
      /\ In(publicQueue'[v]) \cup In(privateQueue'[v]) = Has(v) \cup In(b)
  <2>1. CASE publicQueue'[v] = publicQueue[v] \o b /\ privateQueue'[v] = privateQueue[v]
    <3>1. /\ NoRepeats(publicQueue[v] \o b)
          /\ In(publicQueue[v] \o b) = In(publicQueue[v]) \cup In(b)
      BY <1>3, <1>4
    <3>. QED  BY <1>3, <2>1, <3>1 DEF Has
  <2>2. CASE publicQueue'[v] = publicQueue[v] /\ privateQueue'[v] = privateQueue[v] \o b
    <3>1. /\ NoRepeats(privateQueue[v] \o b)
          /\ In(privateQueue[v] \o b) = In(privateQueue[v]) \cup In(b)
      BY <1>3, <1>4
    <3>. QED  BY <1>3, <2>2, <3>1 DEF Has
  <2>. QED  BY <2>1, <2>2
<1>6. Has(v)' = Has(v) \cup In(b) /\ \A u \in Workers : u # v => Has(u)' = Has(u)
  BY <1>5 DEF Has
<1>7. \A u \in Workers : /\ NoRepeats(publicQueue'[u]) /\ NoRepeats(privateQueue'[u])
                         /\ In(publicQueue'[u]) \cap In(privateQueue'[u]) = {}
  BY <1>3, <1>5
<1>8. \A u, w \in Workers : u # w => Has(u)' \cap Has(w)' = {}
  <2>1. \A u, w \in Workers : u # w => Has(u) \cap Has(w) = {}
    BY DEF QueuesApart
  <2>. QED  BY <1>2, <1>6, <2>1
<1>9. \A t \in Tasks : fate'[t] = "queued" <=> \E u \in Workers : t \in Has(u)'
  <2>1. \A t \in Tasks : fate[t] = "queued" <=> \E u \in Workers : t \in Has(u)
    BY DEF QueuesApart
  <2>. QED  BY <1>6, <2>1
<1>. QED  BY <1>7, <1>8, <1>9 DEF QueuesApart

(* The first of the shares that a sender has left is handed over.          *)
LEMMA HandOver ==
  ASSUME IInv, NEW s \in Senders, NEW v \in Workers, NEW pcs \in [Workers -> WorkerPCs],
         carried[s] # <<>>, Push(v, Head(carried[s]).tasks, pcs),
         Offered(In(Head(carried[s]).tasks), "queued"),
         carried' = [carried EXCEPT ![s] = Tail(carried[s])],
         \A u \in Workers : \/ pcs[u] = wpc[u]
                            \/ wpc[u] = "enqueue" /\ pcs[u] \in {"release", "run"},
         UNCHANGED <<privateQueue, aborts, balance, current, offered>>
  PROVE  /\ QueuesApart' /\ RunningApart' /\ CarriedNew' /\ DonationsInOrder'
         /\ publicQueue' \in [Workers -> Seq(Tasks \cup {Moved})]
         /\ found' \in [Workers -> BOOLEAN] /\ idle' \in [Workers -> BOOLEAN]
         /\ wpc' \in [Workers -> WorkerPCs]
         /\ fate' \in [Tasks -> {"new", "queued", "running", "executed", "destroyed", "refused"}]
         /\ carried' \in [Workers \cup Producers -> Seq(Share)]
         /\ carried'[s] = Tail(carried[s]) /\ \A r \in Senders : r # s => carried'[r] = carried[r]
         /\ \A k \in DOMAIN carried'[s] : carried'[s][k].tasks # <<>>
         /\ Head(carried[s]).tasks \in Seq(Entries) /\ Head(carried[s]).tasks # <<>>
<1>1. /\ TypeOK /\ OffIsIdle /\ QueuesApart /\ RunningApart /\ CarriedNew /\ DonationsInOrder
      /\ SendersInOrder
  BY DEF IInv
<1>2. /\ carried[s] \in Seq(Share) /\ 1 \in DOMAIN carried[s]
      /\ Head(carried[s]) = carried[s][1]
  <2>1. carried[s] \in Seq(Share)
    BY <1>1, Types
  <2>. QED  BY <2>1
<1>3. PICK b \in Seq(Entries) : /\ b = carried[s][1].tasks /\ b = Head(carried[s]).tasks
                                /\ b # <<>> /\ NoRepeats(b) /\ In(b) \subseteq Tasks
                                /\ \A i \in DOMAIN b : b[i] # Moved
                                /\ \A t \in In(b) : fate[t] = "new"
  <2>1. /\ carried[s][1].tasks \in Seq(Entries) /\ In(carried[s][1].tasks) \subseteq Tasks
        /\ \A i \in DOMAIN carried[s][1].tasks : carried[s][1].tasks[i] # Moved
    BY <1>1, <1>2, SharesTyped
  <2>2. carried[s][1].tasks # <<>>
    BY <1>1, <1>2 DEF SendersInOrder
  <2>3. NoRepeats(carried[s][1].tasks) /\ \A t \in In(carried[s][1].tasks) : fate[t] = "new"
    BY <1>1, <1>2 DEF CarriedNew
  <2>. QED  BY <1>2, <2>1, <2>2, <2>3
<1>4. Push(v, b, pcs) /\ Offered(In(b), "queued")
  BY <1>3
<1>5. /\ publicQueue'[v] = publicQueue[v] \o b
      /\ \A u \in Workers : u # v => publicQueue'[u] = publicQueue[u]
      /\ publicQueue' \in [Workers -> Seq(Tasks \cup {Moved})]
      /\ found' \in [Workers -> BOOLEAN] /\ idle' \in [Workers -> BOOLEAN]
      /\ wpc' \in [Workers -> WorkerPCs]
  <2>1. publicQueue'[v] = publicQueue[v] \o b
    BY <1>1, <1>4, PushDoes
  <2>2. \A u \in Workers : u # v => publicQueue'[u] = publicQueue[u]
    BY <1>1, <1>4 DEF Push, TypeOK
  <2>3. publicQueue' \in [Workers -> Seq(Tasks \cup {Moved})]
    BY <1>1, <1>4, PushDoes
  <2>4. found' \in [Workers -> BOOLEAN] /\ idle' \in [Workers -> BOOLEAN]
    <3>1. found \in [Workers -> BOOLEAN] /\ idle \in [Workers -> BOOLEAN]
      BY <1>1, Types
    <3>. QED  BY <1>4, <3>1 DEF Push
  <2>5. wpc' \in [Workers -> WorkerPCs]
    BY <1>4 DEF Push, WorkerPCs
  <2>. QED  BY <2>1, <2>2, <2>3, <2>4, <2>5
<1>6. /\ wpc'[v] = IF idle[v] THEN "drain" ELSE pcs[v]
      /\ \A u \in Workers : u # v => wpc'[u] = pcs[u]
  BY <1>4 DEF Push
<1>7. /\ \A t \in Tasks : fate'[t] = IF t \in In(b) THEN "queued" ELSE fate[t]
      /\ fate' \in [Tasks -> {"new", "queued", "running", "executed", "destroyed", "refused"}]
  BY <1>1, <1>4 DEF Offered, TypeOK
<1>8. QueuesApart'
  BY <1>1, <1>3, <1>5, <1>7, QueuesPushed
<1>9. \A u \in Workers : /\ Running(u)' <=> Running(u)
                         /\ Donating(u)' <=> Donating(u)
                         /\ wpc'[u] = "pop" => wpc[u] = "pop"
  <2>1. \A u \in Workers : /\ pcs[u] \in {"run", "enqueue", "release"} <=> Running(u)
                           /\ pcs[u] \in {"donate", "releaseDonation"} <=> Donating(u)
                           /\ pcs[u] = "pop" => wpc[u] = "pop"
    BY DEF Running, Donating
  <2>2. idle[v] => ~Running(v) /\ ~Donating(v)
    BY <1>1 DEF OffIsIdle, Running, Donating
  <2>. QED  BY <1>6, <2>1, <2>2 DEF Running, Donating
<1>10. RunningApart'
  <2>1. \A t \in Tasks : fate'[t] = "running" <=> fate[t] = "running"
    BY <1>3, <1>7
  <2>. QED  BY <1>1, <1>9, <2>1, RunningKept
<1>11. /\ CarriedNew'
       /\ carried' \in [Workers \cup Producers -> Seq(Share)]
       /\ carried'[s] = Tail(carried[s]) /\ \A r \in Senders : r # s => carried'[r] = carried[r]
       /\ \A k \in DOMAIN carried'[s] : k + 1 \in DOMAIN carried[s] /\ carried'[s][k] = carried[s][k + 1]
  <2>1. PICK left : left = Tail(carried[s])
    OBVIOUS
  <2>2. PICK B \in SUBSET Tasks : B = In(b)
    BY <1>3
  <2>3. \A t \in B : \E k \in DOMAIN carried[s] :
          t \in In(carried[s][k].tasks) /\ (k = 1 \/ left = <<>>)
    BY <1>2, <1>3, <2>2
  <2>4. \A t \in Tasks \ B : fate'[t] = fate[t]
    BY <1>7, <2>2
  <2>5. carried' = [carried EXCEPT ![s] = left] /\ (left = Tail(carried[s]) \/ left = <<>>)
        /\ offered' = offered
    BY <2>1
  <2>6. CarriedNew'
    BY <1>1, <2>3, <2>4, <2>5, CarriedHandedOver
  <2>7. carried' \in [Workers \cup Producers -> Seq(Share)]
    BY <1>1, <2>3, <2>4, <2>5, CarriedHandedOver
  <2>8. carried'[s] = left /\ \A r \in Senders : r # s => carried'[r] = carried[r]
    BY <1>1, <2>1 DEF TypeOK, Senders
  <2>9. \A k \in DOMAIN left : k + 1 \in DOMAIN carried[s] /\ left[k] = carried[s][k + 1]
    BY <1>2, <2>1
  <2>. QED  BY <2>1, <2>6, <2>7, <2>8, <2>9
<1>12. \A k \in DOMAIN carried'[s] : carried'[s][k].tasks # <<>>
  BY <1>1, <1>11 DEF SendersInOrder
<1>13. DonationsInOrder'
  <2> SUFFICES ASSUME NEW u \in Workers PROVE Donation(u)'
    BY DEF DonationsInOrder
  <2>1. Donation(u)
    BY <1>1 DEF DonationsInOrder
  <2>2. \/ publicQueue'[u] = publicQueue[u]
        \/ ~poolAbort => \A i \in DOMAIN publicQueue'[u] : publicQueue'[u][i] # Moved
    <3>1. CASE u # v
      BY <1>5, <3>1
    <3>2. CASE u = v
      <4> SUFFICES ASSUME ~poolAbort
                   PROVE  \A i \in DOMAIN publicQueue'[v] : publicQueue'[v][i] # Moved
        BY <3>2
      <4>1. \A i \in DOMAIN publicQueue[v] : publicQueue[v][i] # Moved
        BY <2>1, <3>2 DEF Donation
      <4>2. publicQueue[v] \in Seq(Entries) /\ NoRepeats(publicQueue[v]) /\ In(publicQueue[v]) \cap In(b) = {}
        <5>1. publicQueue[v] \in Seq(Entries) /\ NoRepeats(publicQueue[v])
          BY <1>1, Types DEF QueuesApart
        <5>2. \A t \in In(publicQueue[v]) : t \in Tasks => fate[t] = "queued"
          BY <1>1 DEF QueuesApart, Has
        <5>. QED  BY <1>3, <5>1, <5>2
      <4>3. \A i \in DOMAIN (publicQueue[v] \o b) : (publicQueue[v] \o b)[i] # Moved
        BY <1>3, <4>1, <4>2, Appended
      <4>. QED  BY <1>5, <4>3
    <3>. QED  BY <3>1, <3>2
  <2>. QED  BY <1>9, <2>1, <2>2, DonationKept DEF balance
<1>. QED  BY <1>3, <1>5, <1>7, <1>8, <1>10, <1>11, <1>12, <1>13

-----------------------------------------------------------------------------
(* A thread outside the pool.                                              *)

(* A producer has found the worker for its next share.                     *)
LEMMA FindWorkerIInv ==
  ASSUME IInv, NEW p \in Producers, ppc[p] \in {"idle", "next"}, NEW share \in Share,
         FindWorker(p, share),
         carried' \in [Workers \cup Producers -> Seq(Share)], offered' \in 0 .. N, CarriedNew',
         carried'[p] # <<>>, \A k \in DOMAIN carried'[p] : carried'[p][k].tasks # <<>>,
         \A r \in Senders : r # p => carried'[r] = carried[r]
  PROVE  IInv'
<1> USE DEF queues, flags, aborts, balance, closer
<1>1. /\ TypeOK /\ OffIsIdle /\ CloserInOrder /\ SendersInOrder /\ DonationsInOrder
      /\ Wakeups /\ MarkedIdle /\ QueuesApart /\ RunningApart
      /\ p \notin Workers /\ p \in Senders /\ Workers \subseteq Senders /\ Producers \subseteq Senders
      /\ W \in Nat \ {0} /\ Workers = 1 .. W
  BY PoolAssumption DEF IInv, Senders, Workers
<1>2. /\ ppc' = [ppc EXCEPT ![p] = "enqueue"]
      /\ UNCHANGED <<queues, idle, flags, aborts, balance, wpc, current, closer, fate>>
  BY DEF FindWorker
<1>3. PICK v \in Workers : /\ target' = [target EXCEPT ![p] = v]
                           /\ idleSet' \in SUBSET Workers /\ idleSet \ {v} \subseteq idleSet'
                           /\ cursor' \in 0 .. W - 1
  <2>1. idleSet \in SUBSET Workers /\ cursor \in 0 .. W - 1
    BY <1>1 DEF TypeOK
  <2>2. CASE share.to # Nobody /\ target' = [target EXCEPT ![p] = share.to]
             /\ UNCHANGED <<idleSet, cursor>>
    <3>1. share.to \in Workers
      BY <2>2 DEF Share
    <3>. QED  BY <2>1, <2>2, <3>1
  <2>3. CASE (\E v \in Workers : TryAcquireFlag(v) /\ target' = [target EXCEPT ![p] = v])
             /\ UNCHANGED cursor
    BY <2>1, <2>3 DEF TryAcquireFlag, SetActive
  <2>4. CASE target' = [target EXCEPT ![p] = cursor + 1] /\ cursor' = (cursor + 1) % W
             /\ UNCHANGED idleSet
    <3>1. cursor + 1 \in Workers /\ (cursor + 1) % W \in 0 .. W - 1
      BY <1>1, <2>1
    <3>. QED  BY <2>1, <2>4, <3>1
  <2>. QED  BY <2>2, <2>3, <2>4 DEF FindWorker
<1>4. /\ ppc'[p] = "enqueue" /\ target'[p] = v
      /\ \A q \in Producers : q # p => ppc'[q] = ppc[q] /\ target'[q] = target[q]
      /\ \A w \in Workers : target'[w] = target[w] /\ carried'[w] = carried[w]
      /\ ppc' \in [Producers -> ProducerPCs]
      /\ target' \in [Workers \cup Producers -> Workers \cup {Nobody}]
  BY <1>1, <1>2, <1>3 DEF TypeOK, ProducerPCs
<1>5. TypeOK'
  <2>1. \A f \in {idle', found', signalled', abort', atomicAbort'} : f \in [Workers -> BOOLEAN]
    BY <1>1, <1>2, Types
  <2>. QED  BY <1>1, <1>2, <1>3, <1>4, <2>1 DEF TypeOK
<1>6. OffIsIdle' /\ CloserInOrder'
  BY <1>1, <1>2, CloserKept DEF OffIsIdle
<1>7. SendersInOrder'
  <2>1. \A q \in Producers :
          /\ ppc'[q] \in {"enqueue", "next"} => carried'[q] # <<>>
          /\ ppc'[q] = "idle" => carried'[q] = <<>>
          /\ ppc'[q] \in {"enqueue", "release"} => target'[q] \in Workers
    BY <1>1, <1>4 DEF SendersInOrder
  <2>2. \A w \in Workers :
          /\ IF wpc'[w] = "enqueue" THEN Len(carried'[w]) = 1 ELSE carried'[w] = <<>>
          /\ wpc'[w] \in {"enqueue", "release", "releaseDonation"} => target'[w] \in Workers
    <3>1. \A w \in Workers :
            /\ IF wpc[w] = "enqueue" THEN Len(carried[w]) = 1 ELSE carried[w] = <<>>
            /\ wpc[w] \in {"enqueue", "release", "releaseDonation"} => target[w] \in Workers
      BY <1>1 DEF SendersInOrder
    <3>2. wpc' = wpc
      BY <1>2
    <3>. QED  BY <1>4, <3>1, <3>2
  <2>3. \A s \in Senders : \A k \in DOMAIN carried'[s] : carried'[s][k].tasks # <<>>
    BY <1>1 DEF SendersInOrder
  <2>. QED  BY <2>1, <2>2, <2>3 DEF SendersInOrder
<1>8. \A u \in Workers : /\ Donating(u)' <=> Donating(u)
                         /\ Running(u)' <=> Running(u)
                         /\ Unemployed(u)' <=> Unemployed(u)
  BY <1>2 DEF Donating, Running, Unemployed
<1>9. DonationsInOrder'
  BY <1>1, <1>2, <1>8, DonationKept DEF DonationsInOrder
<1>10. \A u \in Workers : (WillSignal(u) => WillSignal(u)') /\ (Marked(u) => Marked(u)')
  <2> SUFFICES ASSUME NEW u \in Workers
               PROVE  (WillSignal(u) => WillSignal(u)') /\ (Marked(u) => Marked(u)')
    OBVIOUS
  <2>1. WillSignal(u) => WillSignal(u)'
    BY <1>2, <1>4 DEF WillSignal
  <2>2. u \in idleSet => u \in idleSet' \/ u = v
    BY <1>3
  <2>3. \A q \in Producers : ppc[q] = "enqueue" /\ target[q] = u => ppc'[q] = "enqueue" /\ target'[q] = u
    BY <1>4
  <2>4. \A w \in Workers : wpc[w] = "enqueue" /\ target[w] = u => wpc'[w] = "enqueue" /\ target'[w] = u
    BY <1>2, <1>4
  <2>5. Marked(u) => Marked(u)'
    BY <1>2, <1>4, <1>8, <2>2, <2>3, <2>4 DEF Marked
  <2>. QED  BY <2>1, <2>5
<1>11. Wakeups'
  BY <1>1, <1>2, <1>10 DEF Wakeups, Wakeup
<1>12. MarkedIdle'
  BY <1>1, <1>2, <1>8, <1>10 DEF MarkedIdle
<1>13. QueuesApart' /\ RunningApart'
  BY <1>1, <1>2, <1>8, QueuesKept, RunningKept
<1>. QED  BY <1>5, <1>6, <1>7, <1>9, <1>11, <1>12, <1>13 DEF IInv

LEMMA EnqueueIInv == ASSUME IInv, NEW p \in Producers, Enqueue(p) PROVE IInv'
<1>1. TypeOK /\ CarriedNew /\ SendersInOrder /\ ppc[p] = "idle" /\ p \in Senders
  BY DEF IInv, Enqueue, Senders
<1>2. PICK n \in 1 .. N - offered : \E shares \in Shares(n) :
        /\ Offer(n)
        /\ carried' = [carried EXCEPT ![p] = shares]
        /\ FindWorker(p, Head(shares))
  BY DEF Enqueue
<1>3. PICK shares \in Shares(n) : /\ offered' = offered + n
                                  /\ carried' = [carried EXCEPT ![p] = shares]
                                  /\ FindWorker(p, Head(shares))
  BY <1>2 DEF Offer
<1>4. AreFresh(shares, n)
  BY <1>1, Fresh
<1>5. carried[p] = <<>> /\ fate' = fate
  BY <1>1, <1>3 DEF SendersInOrder, FindWorker
<1>6. /\ CarriedNew'
      /\ carried' \in [Workers \cup Producers -> Seq(Share)] /\ offered' \in 0 .. N
      /\ carried'[p] = shares /\ \A r \in Senders : r # p => carried'[r] = carried[r]
  BY <1>1, <1>3, <1>4, <1>5, CarriedOffered
<1>7. Head(shares) \in Share /\ shares # <<>> /\ \A k \in DOMAIN shares : shares[k].tasks # <<>>
  <2>1. shares \in Seq(Share) /\ shares # <<>>
    BY <1>4 DEF AreFresh
  <2>2. Head(shares) \in Share
    BY <2>1
  <2>. QED  BY <1>4, <2>1, <2>2 DEF AreFresh
<1>. QED  BY <1>1, <1>3, <1>6, <1>7, FindWorkerIInv

LEMMA EnqueueNextIInv == ASSUME IInv, NEW p \in Producers, EnqueueNext(p) PROVE IInv'
<1>1. /\ TypeOK /\ CarriedNew /\ SendersInOrder /\ ppc[p] = "next" /\ p \in Senders
      /\ FindWorker(p, Head(carried[p])) /\ UNCHANGED <<carried, offered>>
  BY DEF IInv, EnqueueNext, Senders
<1>2. carried[p] # <<>> /\ \A k \in DOMAIN carried[p] : carried[p][k].tasks # <<>>
  BY <1>1 DEF SendersInOrder
<1>3. Head(carried[p]) \in Share
  <2>1. carried[p] \in Seq(Share)
    BY <1>1, Types
  <2>. QED  BY <1>2, <2>1
<1>4. fate' = fate
  BY <1>1 DEF FindWorker
<1>5. CarriedNew'
  BY <1>1, <1>4, CarriedKept
<1>6. carried' \in [Workers \cup Producers -> Seq(Share)] /\ offered' \in 0 .. N
  BY <1>1 DEF TypeOK
<1>. QED  BY <1>1, <1>2, <1>3, <1>5, <1>6, FindWorkerIInv

LEMMA ReleaseIInv == ASSUME IInv, NEW p \in Producers, Release(p) PROVE IInv'
<1> USE DEF queues, aborts, balance, closer, tasks
<1>1. /\ TypeOK /\ OffIsIdle /\ CloserInOrder /\ SendersInOrder /\ DonationsInOrder
      /\ Wakeups /\ MarkedIdle /\ QueuesApart /\ RunningApart /\ CarriedNew
      /\ ppc[p] = "release" /\ p \notin Workers /\ p \in Senders
      /\ signalled' = [signalled EXCEPT ![target[p]] = TRUE]
      /\ UNCHANGED <<queues, idleSet, idle, found, aborts, balance, wpc, current, cursor, closer,
                     tasks>>
  BY PoolAssumption DEF IInv, Release, Senders
<1>2. /\ target' = [target EXCEPT ![p] = Nobody]
      /\ ppc' = [ppc EXCEPT ![p] = IF carried[p] = <<>> THEN "idle" ELSE "next"]
      /\ carried' = [carried EXCEPT ![p] = carried[p]]
  BY DEF Release, Returns
<1>3. PICK v \in Workers : v = target[p]
  BY <1>1 DEF SendersInOrder
<1>4. /\ signalled'[v] = TRUE /\ \A u \in Workers : signalled[u] => signalled'[u]
      /\ signalled' \in [Workers -> BOOLEAN]
  <2>1. signalled \in [Workers -> BOOLEAN]
    BY <1>1, Types
  <2>. QED  BY <1>1, <1>3, <2>1
<1>5. /\ carried' = carried
      /\ ppc'[p] = (IF carried[p] = <<>> THEN "idle" ELSE "next")
      /\ \A q \in Producers : q # p => ppc'[q] = ppc[q] /\ target'[q] = target[q]
      /\ \A w \in Workers : target'[w] = target[w]
      /\ ppc' \in [Producers -> ProducerPCs]
      /\ target' \in [Workers \cup Producers -> Workers \cup {Nobody}]
  BY <1>1, <1>2 DEF TypeOK, ProducerPCs
<1>6. TypeOK'
  <2>1. \A f \in {idle', found', signalled', abort', atomicAbort'} : f \in [Workers -> BOOLEAN]
    BY <1>1, <1>4, Types
  <2>. QED  BY <1>1, <1>5, <2>1 DEF TypeOK
<1>7. OffIsIdle' /\ CloserInOrder'
  BY <1>1, CloserKept DEF OffIsIdle
<1>8. SendersInOrder'
  BY <1>1, <1>5 DEF SendersInOrder
<1>9. \A u \in Workers : /\ Donating(u)' <=> Donating(u)
                         /\ Running(u)' <=> Running(u)
                         /\ Unemployed(u)' <=> Unemployed(u)
  BY <1>1 DEF Donating, Running, Unemployed
<1>10. DonationsInOrder'
  BY <1>1, <1>9, DonationKept DEF DonationsInOrder
<1>11. Wakeups'
  <2> SUFFICES ASSUME NEW u \in Workers PROVE Wakeup(u)'
    BY DEF Wakeups
  <2>1. WillSignal(u) => signalled'[u] \/ WillSignal(u)'
    BY <1>1, <1>3, <1>4, <1>5 DEF WillSignal
  <2>. QED  BY <1>1, <1>4, <2>1 DEF Wakeups, Wakeup
<1>12. MarkedIdle'
  <2>1. \A u \in Workers : Marked(u) => Marked(u)'
    BY <1>1, <1>5, <1>9 DEF Marked
  <2>. QED  BY <1>1, <1>9, <2>1 DEF MarkedIdle
<1>13. QueuesApart' /\ RunningApart' /\ CarriedNew'
  BY <1>1, <1>5, <1>9, QueuesKept, RunningKept, CarriedKept
<1>. QED  BY <1>6, <1>7, <1>8, <1>10, <1>11, <1>12, <1>13 DEF IInv

(* The pool is shut down, and refuses tasks.                               *)
LEMMA RefusedIInv ==
  ASSUME IInv, poolAbort, NEW B \in SUBSET Tasks, \A t \in B : fate[t] = "new",
         \A t \in Tasks : fate'[t] = IF t \in B THEN "refused" ELSE fate[t],
         fate' \in [Tasks -> {"new", "queued", "running", "executed", "destroyed", "refused"}],
         UNCHANGED <<queues, idleSet, idle, flags, aborts, balance, current, cursor, closer>>,
         \A u \in Workers : wpc'[u] = wpc[u] \/ (wpc[u] = "enqueue" /\ wpc'[u] = "run"),
         wpc' \in [Workers -> WorkerPCs], ppc' \in [Producers -> ProducerPCs],
         target' \in [Workers \cup Producers -> Workers \cup {Nobody}],
         carried' \in [Workers \cup Producers -> Seq(Share)], offered' \in 0 .. N,
         SendersInOrder', CarriedNew',
         \A u \in Workers : WillSignal(u) => WillSignal(u)'
  PROVE  IInv'
<1> USE DEF queues, flags, aborts, balance, closer
<1>1. /\ TypeOK /\ OffIsIdle /\ CloserInOrder /\ DonationsInOrder /\ Wakeups
      /\ QueuesApart /\ RunningApart
  BY DEF IInv
<1>2. TypeOK'
  <2>1. \A f \in {idle', found', signalled', abort', atomicAbort'} : f \in [Workers -> BOOLEAN]
    BY <1>1, Types
  <2>. QED  BY <1>1, <2>1 DEF TypeOK
<1>3. \A u \in Workers : /\ wpc'[u] = "off" <=> wpc[u] = "off"
                         /\ wpc'[u] \in {"markIdle", "wait"} <=> wpc[u] \in {"markIdle", "wait"}
                         /\ Donating(u)' <=> Donating(u)
                         /\ Running(u)' <=> Running(u)
                         /\ wpc'[u] = "pop" => wpc[u] = "pop"
  BY DEF Donating, Running
<1>4. OffIsIdle' /\ CloserInOrder'
  BY <1>1, <1>3, CloserKept DEF OffIsIdle
<1>5. DonationsInOrder'
  BY <1>1, <1>3, DonationKept DEF DonationsInOrder
<1>6. Wakeups'
  BY <1>1, <1>3 DEF Wakeups, Wakeup
<1>7. MarkedIdle'
  BY DEF MarkedIdle
<1>8. /\ \A t \in Tasks : fate'[t] = "queued" <=> fate[t] = "queued"
      /\ \A t \in Tasks : fate'[t] = "running" <=> fate[t] = "running"
  OBVIOUS
<1>9. QueuesApart'
  <2>1. \A u \in Workers : Has(u)' = Has(u)
    BY DEF Has
  <2>2. \A u \in Workers : /\ NoRepeats(publicQueue'[u]) /\ NoRepeats(privateQueue'[u])
                           /\ In(publicQueue'[u]) \cap In(privateQueue'[u]) = {}
    BY <1>1 DEF QueuesApart
  <2>3. \A u, w \in Workers : u # w => Has(u)' \cap Has(w)' = {}
    BY <1>1, <2>1 DEF QueuesApart
  <2>4. \A t \in Tasks : fate'[t] = "queued" <=> \E u \in Workers : t \in Has(u)'
    <3>1. \A t \in Tasks : fate[t] = "queued" <=> \E u \in Workers : t \in Has(u)
      BY <1>1 DEF QueuesApart
    <3>. QED  BY <1>8, <2>1, <3>1
  <2>. QED  BY <2>2, <2>3, <2>4 DEF QueuesApart
<1>10. RunningApart'
  BY <1>1, <1>3, <1>8, RunningKept
<1>. QED  BY <1>2, <1>4, <1>5, <1>6, <1>7, <1>9, <1>10 DEF IInv

LEMMA EnqueueForeignIInv == ASSUME IInv, NEW p \in Producers, EnqueueForeign(p) PROVE IInv'
<1> USE DEF balance, tasks
<1>1. /\ TypeOK /\ OffIsIdle /\ SendersInOrder /\ CloserInOrder /\ CarriedNew
      /\ ppc[p] = "enqueue" /\ p \notin Workers /\ p \in Senders
      /\ UNCHANGED <<privateQueue, idleSet, signalled, aborts, balance, current, cursor, closer,
                     offered>>
      /\ wpc \in [Workers -> WorkerPCs]
  BY PoolAssumption DEF IInv, EnqueueForeign, Senders, TypeOK
<1>2. PICK v \in Workers : v = target[p]
  BY <1>1 DEF SendersInOrder
<1>3. carried[p] # <<>>
  BY <1>1 DEF SendersInOrder
<1>4. CASE /\ ~abort[v]
           /\ Push(v, Head(carried[p]).tasks, wpc)
           /\ Offered(In(Head(carried[p]).tasks), "queued")
           /\ Returns(p, Tail(carried[p]), MustRelease(v))
  <2>1. /\ carried' = [carried EXCEPT ![p] = Tail(carried[p])]
        /\ target' = [target EXCEPT ![p] = IF MustRelease(v) THEN v ELSE Nobody]
        /\ ppc' = [ppc EXCEPT ![p] = IF MustRelease(v) THEN "release"
                                     ELSE IF Tail(carried[p]) = <<>> THEN "idle" ELSE "next"]
    BY <1>2, <1>4 DEF Returns
  <2>2. /\ QueuesApart' /\ RunningApart' /\ CarriedNew' /\ DonationsInOrder'
        /\ publicQueue' \in [Workers -> Seq(Tasks \cup {Moved})]
        /\ found' \in [Workers -> BOOLEAN] /\ idle' \in [Workers -> BOOLEAN]
        /\ wpc' \in [Workers -> WorkerPCs]
        /\ fate' \in [Tasks -> {"new", "queued", "running", "executed", "destroyed", "refused"}]
        /\ carried' \in [Workers \cup Producers -> Seq(Share)]
        /\ \A k \in DOMAIN carried'[p] : carried'[p][k].tasks # <<>>
        /\ Head(carried[p]).tasks \in Seq(Entries) /\ Head(carried[p]).tasks # <<>>
    BY <1>1, <1>3, <1>4, <2>1, HandOver
  <2>3. /\ carried'[p] = Tail(carried[p])
        /\ \A r \in Senders : r # p => carried'[r] = carried[r] /\ target'[r] = target[r]
        /\ target'[p] = (IF MustRelease(v) THEN v ELSE Nobody)
        /\ ppc'[p] = (IF MustRelease(v) THEN "release"
                      ELSE IF Tail(carried[p]) = <<>> THEN "idle" ELSE "next")
        /\ \A q \in Producers : q # p => ppc'[q] = ppc[q]
        /\ ppc' \in [Producers -> ProducerPCs]
        /\ target' \in [Workers \cup Producers -> Workers \cup {Nobody}]
    BY <1>1, <2>1 DEF TypeOK, ProducerPCs, Senders
  <2>4. \A w \in Workers : wpc'[w] = wpc[w] \/ (wpc[w] = "off" /\ wpc'[w] = "drain")
    BY <1>1, <1>4 DEF Push, OffIsIdle
  <2>5. TypeOK'
    <3>1. \A f \in {idle', found', signalled', abort', atomicAbort'} : f \in [Workers -> BOOLEAN]
      BY <1>1, <2>2, Types DEF aborts
    <3>. QED  BY <1>1, <2>2, <2>3, <3>1 DEF TypeOK, aborts, closer
  <2>6. SendersInOrder'
    <3>1. \A q \in Producers :
            /\ ppc'[q] \in {"enqueue", "next"} => carried'[q] # <<>>
            /\ ppc'[q] = "idle" => carried'[q] = <<>>
            /\ ppc'[q] \in {"enqueue", "release"} => target'[q] \in Workers
      BY <1>1, <2>3 DEF SendersInOrder, Senders
    <3>2. \A w \in Workers :
            /\ IF wpc'[w] = "enqueue" THEN Len(carried'[w]) = 1 ELSE carried'[w] = <<>>
            /\ wpc'[w] \in {"enqueue", "release", "releaseDonation"} => target'[w] \in Workers
      <4>1. \A w \in Workers :
              /\ IF wpc[w] = "enqueue" THEN Len(carried[w]) = 1 ELSE carried[w] = <<>>
              /\ wpc[w] \in {"enqueue", "release", "releaseDonation"} => target[w] \in Workers
        BY <1>1 DEF SendersInOrder
      <4>2. \A w \in Workers : carried'[w] = carried[w] /\ target'[w] = target[w]
        BY <1>1, <2>3 DEF Senders
      <4>. QED  BY <2>4, <4>1, <4>2
    <3>3. ASSUME NEW s \in Senders, NEW k \in DOMAIN carried'[s] PROVE carried'[s][k].tasks # <<>>
      <4>1. CASE s = p
        BY <2>2, <3>3, <4>1
      <4>2. CASE s # p
        <5>1. \A j \in DOMAIN carried[s] : carried[s][j].tasks # <<>>
          BY <1>1 DEF SendersInOrder
        <5>2. carried'[s] = carried[s]
          BY <2>3, <4>2
        <5>. QED  BY <3>3, <5>1, <5>2
      <4>. QED  BY <4>1, <4>2
    <3>. QED  BY <3>1, <3>2, <3>3 DEF SendersInOrder
  <2>7. /\ MustRelease(v) => WillSignal(v)'
        /\ \A u \in Workers : WillSignal(u) => WillSignal(u)'
    <3>1. MustRelease(v) => WillSignal(v)'
      BY <2>3 DEF WillSignal
    <3>2. ASSUME NEW u \in Workers, WillSignal(u) PROVE WillSignal(u)'
      BY <1>1, <2>3, <2>4, <3>2 DEF WillSignal, Senders, closer
    <3>. QED  BY <3>1, <3>2
  <2>8. ASSUME NEW u \in Workers, u # v, Marked(u) PROVE Marked(u)'
    <3>1. \A q \in Producers : ppc[q] = "enqueue" /\ target[q] = u => ppc'[q] = "enqueue" /\ target'[q] = u
      BY <1>1, <1>2, <2>3, <2>8 DEF Senders
    <3>2. \A w \in Workers : wpc[w] = "enqueue" /\ target[w] = u => wpc'[w] = "enqueue" /\ target'[w] = u
      BY <1>1, <2>3, <2>4 DEF Senders
    <3>3. \A w \in Workers : Donating(w) => Donating(w)'
      BY <2>4 DEF Donating
    <3>. QED  BY <1>1, <2>8, <3>1, <3>2, <3>3 DEF Marked
  <2>9. OffIsIdle' /\ CloserInOrder' /\ Wakeups' /\ MarkedIdle'
    <3>1. privateQueue' = privateQueue
      BY <1>1
    <3>. QED  BY <1>1, <1>4, <2>2, <2>7, <2>8, <3>1, PushKeeps
  <2>. QED  BY <2>2, <2>5, <2>6, <2>9 DEF IInv
<1> DEFINE left == UNION {In(carried[p][k].tasks) : k \in DOMAIN carried[p]}
<1>5. CASE /\ abort[v] /\ Offered(left, "refused") /\ Returns(p, <<>>, FALSE)
           /\ UNCHANGED <<publicQueue, found, idle, wpc>>
  <2>1. poolAbort
    BY <1>1, <1>5, AbortIsShutDown
  <2>2. /\ carried' = [carried EXCEPT ![p] = <<>>]
        /\ target' = [target EXCEPT ![p] = Nobody]
        /\ ppc' = [ppc EXCEPT ![p] = "idle"]
    BY <1>5 DEF Returns
  <2>3. PICK B \in SUBSET Tasks : B = left
    BY <1>1, SharesTyped
  <2>4. /\ \A t \in Tasks : fate'[t] = IF t \in B THEN "refused" ELSE fate[t]
        /\ fate' \in [Tasks -> {"new", "queued", "running", "executed", "destroyed", "refused"}]
    BY <1>1, <1>5, <2>3 DEF Offered, TypeOK
  <2>5. /\ CarriedNew' /\ carried' \in [Workers \cup Producers -> Seq(Share)]
        /\ \A t \in B : fate[t] = "new"
    <3>1. PICK rest : rest = <<>>
      OBVIOUS
    <3>2. \A t \in B : \E k \in DOMAIN carried[p] :
            t \in In(carried[p][k].tasks) /\ (k = 1 \/ rest = <<>>)
      BY <2>3, <3>1
    <3>3. \A t \in Tasks \ B : fate'[t] = fate[t]
      BY <2>4
    <3>4. carried' = [carried EXCEPT ![p] = rest] /\ offered' = offered
      BY <1>1, <2>2, <3>1
    <3>5. CarriedNew'
      BY <1>1, <1>3, <3>1, <3>2, <3>3, <3>4, CarriedHandedOver
    <3>6. carried' \in [Workers \cup Producers -> Seq(Share)]
      BY <1>1, <2>2 DEF TypeOK
    <3>7. \A t \in B : fate[t] = "new"
      BY <1>1, <3>2 DEF CarriedNew
    <3>. QED  BY <3>5, <3>6, <3>7
  <2>6. /\ carried'[p] = <<>> /\ ppc'[p] = "idle"
        /\ \A r \in Senders : r # p => carried'[r] = carried[r] /\ target'[r] = target[r]
        /\ \A q \in Producers : q # p => ppc'[q] = ppc[q]
        /\ ppc' \in [Producers -> ProducerPCs]
        /\ target' \in [Workers \cup Producers -> Workers \cup {Nobody}]
        /\ offered' \in 0 .. N
    BY <1>1, <2>2 DEF TypeOK, ProducerPCs, Senders
  <2>7. SendersInOrder'
    <3>1. \A q \in Producers :
            /\ ppc'[q] \in {"enqueue", "next"} => carried'[q] # <<>>
            /\ ppc'[q] = "idle" => carried'[q] = <<>>
            /\ ppc'[q] \in {"enqueue", "release"} => target'[q] \in Workers
      BY <1>1, <2>6 DEF SendersInOrder, Senders
    <3>2. \A w \in Workers :
            /\ IF wpc'[w] = "enqueue" THEN Len(carried'[w]) = 1 ELSE carried'[w] = <<>>
            /\ wpc'[w] \in {"enqueue", "release", "releaseDonation"} => target'[w] \in Workers
      <4>1. \A w \in Workers :
              /\ IF wpc[w] = "enqueue" THEN Len(carried[w]) = 1 ELSE carried[w] = <<>>
              /\ wpc[w] \in {"enqueue", "release", "releaseDonation"} => target[w] \in Workers
        BY <1>1 DEF SendersInOrder
      <4>2. \A w \in Workers : carried'[w] = carried[w] /\ target'[w] = target[w] /\ wpc'[w] = wpc[w]
        BY <1>1, <1>5, <2>6 DEF Senders
      <4>. QED  BY <4>1, <4>2
    <3>3. \A s \in Senders : \A k \in DOMAIN carried'[s] : carried'[s][k].tasks # <<>>
      BY <1>1, <2>6 DEF SendersInOrder
    <3>. QED  BY <3>1, <3>2, <3>3 DEF SendersInOrder
  <2>8. ASSUME NEW u \in Workers, WillSignal(u) PROVE WillSignal(u)'
    BY <1>1, <1>5, <2>6, <2>8 DEF WillSignal, Senders, closer
  <2>9. /\ UNCHANGED <<queues, idleSet, idle, flags, aborts, balance, current, cursor, closer>>
        /\ \A u \in Workers : wpc'[u] = wpc[u]
        /\ wpc' \in [Workers -> WorkerPCs]
    BY <1>1, <1>5 DEF queues, flags
  <2>. QED  BY <2>1, <2>4, <2>5, <2>6, <2>7, <2>8, <2>9, RefusedIInv
<1>. QED  BY <1>2, <1>4, <1>5 DEF EnqueueForeign

-----------------------------------------------------------------------------
(* The thread of a worker enqueues.                                        *)

LEMMA OneShare ==
  ASSUME NEW c \in Seq(Share), Len(c) = 1
  PROVE  c # <<>> /\ Tail(c) = <<>> /\ DOMAIN c = {1} /\ Head(c) = c[1]
<1>1. \A q \in Seq(Share) : Len(q) = 0 <=> q = <<>>
  OBVIOUS
<1>2. c # <<>>
  OBVIOUS
<1>3. DOMAIN c = 1 .. Len(c) /\ 1 .. 1 = {1} /\ Head(c) = c[1]
  BY <1>2
<1>4. Tail(c) \in Seq(Share) /\ Len(Tail(c)) = 0
  BY <1>2
<1>. QED  BY <1>1, <1>2, <1>3, <1>4

LEMMA EnqueueOtherIInv == ASSUME IInv, NEW w \in Workers, EnqueueOther(w) PROVE IInv'
<1> USE DEF balance
<1>1. /\ TypeOK /\ OffIsIdle /\ SendersInOrder /\ CloserInOrder /\ CarriedNew
      /\ wpc[w] = "enqueue" /\ w \notin Producers /\ w \in Senders
      /\ carried' = [carried EXCEPT ![w] = <<>>]
      /\ UNCHANGED <<privateQueue, idleSet, signalled, aborts, balance, current, target, ppc,
                     cursor, closer, offered>>
      /\ wpc \in [Workers -> WorkerPCs]
  BY PoolAssumption DEF IInv, EnqueueOther, Senders, TypeOK
<1>2. PICK v \in Workers : v = target[w]
  BY <1>1 DEF SendersInOrder
<1>3. /\ Len(carried[w]) = 1 /\ carried[w] \in Seq(Share) /\ carried[w] # <<>>
      /\ Tail(carried[w]) = <<>> /\ DOMAIN carried[w] = {1} /\ Head(carried[w]) = carried[w][1]
  <2>1. Len(carried[w]) = 1 /\ carried[w] \in Seq(Share)
    BY <1>1, Types DEF SendersInOrder
  <2>. QED  BY <2>1, OneShare
<1>4. /\ carried'[w] = <<>> /\ \A r \in Senders : r # w => carried'[r] = carried[r]
  BY <1>1 DEF TypeOK, Senders
<1>5. /\ \A s \in Senders : \A k \in DOMAIN carried'[s] : carried'[s][k].tasks # <<>>
      /\ \A p \in Producers :
           /\ ppc'[p] \in {"enqueue", "next"} => carried'[p] # <<>>
           /\ ppc'[p] = "idle" => carried'[p] = <<>>
           /\ ppc'[p] \in {"enqueue", "release"} => target'[p] \in Workers
  <2>1. ASSUME NEW s \in Senders, NEW k \in DOMAIN carried'[s] PROVE carried'[s][k].tasks # <<>>
    <3>1. s # w
      BY <1>4, <2>1
    <3>2. \A j \in DOMAIN carried[s] : carried[s][j].tasks # <<>>
      BY <1>1 DEF SendersInOrder
    <3>3. carried'[s] = carried[s]
      BY <1>4, <3>1
    <3>. QED  BY <2>1, <3>2, <3>3
  <2>2. \A p \in Producers : p # w /\ carried'[p] = carried[p]
    BY <1>1, <1>4 DEF Senders
  <2>. QED  BY <1>1, <2>1, <2>2 DEF SendersInOrder
<1>6. ASSUME wpc'[w] \in {"release", "run", "drain"},
             \A u \in Workers : u # w => wpc'[u] = wpc[u] \/ (wpc[u] = "off" /\ wpc'[u] = "drain")
      PROVE  SendersInOrder'
  <2>1. ASSUME NEW u \in Workers
        PROVE  /\ IF wpc'[u] = "enqueue" THEN Len(carried'[u]) = 1 ELSE carried'[u] = <<>>
               /\ wpc'[u] \in {"enqueue", "release", "releaseDonation"} => target'[u] \in Workers
    <3>1. CASE u = w
      BY <1>1, <1>2, <1>4, <1>6, <3>1
    <3>2. CASE u # w
      <4>1. /\ IF wpc[u] = "enqueue" THEN Len(carried[u]) = 1 ELSE carried[u] = <<>>
            /\ wpc[u] \in {"enqueue", "release", "releaseDonation"} => target[u] \in Workers
        BY <1>1 DEF SendersInOrder
      <4>2. carried'[u] = carried[u] /\ target' = target
        BY <1>1, <1>4, <3>2 DEF Senders
      <4>3. wpc'[u] = wpc[u] \/ (wpc[u] = "off" /\ wpc'[u] = "drain")
        BY <1>6, <3>2
      <4>. QED  BY <4>1, <4>2, <4>3
    <3>. QED  BY <3>1, <3>2
  <2>. QED  BY <1>5, <2>1 DEF SendersInOrder
<1> DEFINE next == IF MustRelease(v) THEN "release" ELSE "run"
           pcs == [wpc EXCEPT ![w] = next]
<1>7. /\ next \in {"release", "run"} /\ pcs \in [Workers -> WorkerPCs]
      /\ pcs[w] = next /\ \A u \in Workers : u # w => pcs[u] = wpc[u]
  BY <1>1 DEF WorkerPCs
<1>8. CASE /\ ~abort[v]
           /\ Push(v, Head(carried[w]).tasks, pcs)
           /\ Offered(In(Head(carried[w]).tasks), "queued")
  <2>0. (MustRelease(v) => pcs[w] = "release") /\ pcs[w] \in {"release", "run"}
    BY <1>7
  <2> HIDE DEF next, pcs
  <2>1. carried' = [carried EXCEPT ![w] = Tail(carried[w])]
    BY <1>1, <1>3
  <2>2. /\ QueuesApart' /\ RunningApart' /\ CarriedNew' /\ DonationsInOrder'
        /\ publicQueue' \in [Workers -> Seq(Tasks \cup {Moved})]
        /\ found' \in [Workers -> BOOLEAN] /\ idle' \in [Workers -> BOOLEAN]
        /\ wpc' \in [Workers -> WorkerPCs]
        /\ fate' \in [Tasks -> {"new", "queued", "running", "executed", "destroyed", "refused"}]
        /\ carried' \in [Workers \cup Producers -> Seq(Share)]
        /\ Head(carried[w]).tasks \in Seq(Entries) /\ Head(carried[w]).tasks # <<>>
    <3>1. /\ Push(v, Head(carried[w]).tasks, pcs) /\ Offered(In(Head(carried[w]).tasks), "queued")
          /\ \A u \in Workers : \/ pcs[u] = wpc[u]
                                \/ wpc[u] = "enqueue" /\ pcs[u] \in {"release", "run"}
          /\ UNCHANGED <<privateQueue, aborts, balance, current, offered>>
          /\ IInv /\ carried[w] # <<>> /\ pcs \in [Workers -> WorkerPCs]
      BY <1>1, <1>3, <1>7, <1>8, <2>0
    <3>. QED  BY <1>1, <2>1, <3>1, HandOver
  <2>3. TypeOK'
    <3>1. \A f \in {idle', found', signalled', abort', atomicAbort'} : f \in [Workers -> BOOLEAN]
      BY <1>1, <2>2, Types DEF aborts
    <3>. QED  BY <1>1, <2>2, <3>1 DEF TypeOK, aborts, closer
  <2>4. /\ wpc'[v] = (IF idle[v] THEN "drain" ELSE pcs[v])
        /\ \A u \in Workers : u # v => wpc'[u] = pcs[u]
    BY <1>7, <1>8 DEF Push
  <2>5. /\ wpc'[w] = pcs[w]
        /\ \A u \in Workers : u # w => wpc'[u] = wpc[u] \/ (wpc[u] = "off" /\ wpc'[u] = "drain")
    BY <1>1, <1>7, <2>4 DEF OffIsIdle
  <2>6. SendersInOrder'
    BY <1>6, <2>0, <2>5
  <2>7. MustRelease(v) => WillSignal(v)'
    BY <1>1, <1>2, <2>0, <2>5 DEF WillSignal
  <2>8. ASSUME NEW u \in Workers, WillSignal(u) PROVE WillSignal(u)'
    <3>1. \A x \in Workers : wpc[x] \in {"release", "releaseDonation"} => wpc'[x] = wpc[x]
      BY <1>1, <2>5
    <3>. QED  BY <1>1, <2>8, <3>1 DEF WillSignal, closer
  <2>9. ASSUME NEW u \in Workers, u # v, Marked(u) PROVE Marked(u)'
    <3>1. \A x \in Workers : wpc[x] = "enqueue" /\ target[x] = u => wpc'[x] = "enqueue" /\ target'[x] = u
      BY <1>1, <1>2, <2>5, <2>9
    <3>2. \A x \in Workers : Donating(x) => Donating(x)'
      BY <1>1, <2>5 DEF Donating
    <3>. QED  BY <1>1, <2>9, <3>1, <3>2 DEF Marked
  <2>10. OffIsIdle' /\ CloserInOrder' /\ Wakeups' /\ MarkedIdle'
    <3>1. PICK b \in Seq(Entries) : b = Head(carried[w]).tasks /\ b # <<>> /\ Push(v, b, pcs)
      BY <1>8, <2>2
    <3>2. \A u \in Workers : pcs[u] = wpc[u] \/ (wpc[u] \in Sending /\ pcs[u] \in Sending)
      BY <1>1, <1>7, <2>0 DEF Sending
    <3>3. privateQueue' = privateQueue /\ signalled' = signalled /\ UNCHANGED aborts /\ UNCHANGED closer
      BY <1>1
    <3>. QED  BY <1>7, <1>8, <2>7, <2>8, <2>9, <3>1, <3>2, <3>3, PushKeeps
  <2>. QED  BY <2>2, <2>3, <2>6, <2>10 DEF IInv
<1>9. CASE /\ abort[v] /\ Offered(In(Head(carried[w]).tasks), "refused")
           /\ wpc' = [wpc EXCEPT ![w] = "run"]
           /\ UNCHANGED <<publicQueue, found, idle>>
  <2>1. poolAbort
    BY <1>1, <1>9, AbortIsShutDown
  <2>2. PICK B \in SUBSET Tasks : B = In(Head(carried[w]).tasks)
    BY <1>1, <1>3, SharesTyped
  <2>3. /\ \A t \in Tasks : fate'[t] = IF t \in B THEN "refused" ELSE fate[t]
        /\ fate' \in [Tasks -> {"new", "queued", "running", "executed", "destroyed", "refused"}]
    BY <1>1, <1>9, <2>2 DEF Offered, TypeOK
  <2>4. /\ CarriedNew' /\ carried' \in [Workers \cup Producers -> Seq(Share)]
        /\ \A t \in B : fate[t] = "new"
    <3>1. PICK rest : rest = <<>>
      OBVIOUS
    <3>2. \A t \in B : \E k \in DOMAIN carried[w] :
            t \in In(carried[w][k].tasks) /\ (k = 1 \/ rest = <<>>)
      BY <1>3, <2>2
    <3>3. \A t \in Tasks \ B : fate'[t] = fate[t]
      BY <2>3
    <3>4. carried' = [carried EXCEPT ![w] = rest] /\ offered' = offered
      BY <1>1, <3>1
    <3>5. CarriedNew'
      BY <1>1, <1>3, <3>1, <3>2, <3>3, <3>4, CarriedHandedOver
    <3>6. carried' \in [Workers \cup Producers -> Seq(Share)]
      BY <1>1 DEF TypeOK
    <3>7. \A t \in B : fate[t] = "new"
      BY <1>1, <3>2 DEF CarriedNew
    <3>. QED  BY <3>5, <3>6, <3>7
  <2>5. /\ wpc'[w] = "run" /\ \A u \in Workers : u # w => wpc'[u] = wpc[u]
        /\ wpc' \in [Workers -> WorkerPCs]
    BY <1>1, <1>9 DEF WorkerPCs
  <2>6. SendersInOrder'
    BY <1>6, <2>5
  <2>7. ASSUME NEW u \in Workers, WillSignal(u) PROVE WillSignal(u)'
    BY <1>1, <2>5, <2>7 DEF WillSignal, closer
  <2>8. /\ UNCHANGED <<queues, idleSet, idle, flags, aborts, balance, current, cursor, closer>>
        /\ \A u \in Workers : wpc'[u] = wpc[u] \/ (wpc[u] = "enqueue" /\ wpc'[u] = "run")
        /\ ppc' \in [Producers -> ProducerPCs]
        /\ target' \in [Workers \cup Producers -> Workers \cup {Nobody}] /\ offered' \in 0 .. N
    BY <1>1, <1>9, <2>5 DEF queues, flags, TypeOK
  <2>. QED  BY <2>1, <2>3, <2>4, <2>5, <2>6, <2>7, <2>8, RefusedIInv
<1>10. /\ wpc[w] = "enqueue"
       /\ \/ /\ ~abort[v] /\ Push(v, Head(carried[w]).tasks, pcs)
             /\ Offered(In(Head(carried[w]).tasks), "queued")
          \/ /\ abort[v] /\ Offered(In(Head(carried[w]).tasks), "refused")
             /\ wpc' = [wpc EXCEPT ![w] = "run"]
             /\ UNCHANGED <<publicQueue, found, idle>>
  BY <1>2 DEF EnqueueOther
<1>. QED  BY <1>8, <1>9, <1>10

(* The tasks that a running task enqueues to its own worker.               *)
LEMMA EnqueueLocalIInv ==
  ASSUME IInv, NEW w \in Workers, wpc[w] = "run", EnqueueLocal(w),
         UNCHANGED <<publicQueue, idle, flags, aborts, balance, current, ppc, cursor, closer>>
  PROVE  IInv'
<1> USE DEF flags, aborts, balance, closer, sending
<1>1. /\ TypeOK /\ OffIsIdle /\ CloserInOrder /\ SendersInOrder /\ DonationsInOrder
      /\ Wakeups /\ MarkedIdle /\ QueuesApart /\ RunningApart /\ CarriedNew
      /\ UNCHANGED <<publicQueue, idle, flags, aborts, balance, current, ppc, cursor, closer,
                     idleSet, wpc, sending>>
  BY DEF IInv, EnqueueLocal
<1>2. PICK n \in 1 .. N - offered :
        /\ offered' = offered + n
        /\ \/ /\ atomicAbort[w] /\ Offered(In(Span(n)), "refused") /\ UNCHANGED privateQueue
           \/ /\ ~atomicAbort[w] /\ Offered(In(Span(n)), "queued")
              /\ privateQueue' = [privateQueue EXCEPT ![w] = @ \o Span(n)]
  BY DEF EnqueueLocal, Offer
<1>3. PICK b \in Seq(Entries) : /\ b = Span(n) /\ NoRepeats(b)
                                /\ \A i \in DOMAIN b : b[i] # Moved
                                /\ In(b) \subseteq Tasks
                                /\ In(b) = offered + 1 .. offered + n
  <2>1. Span(n) \in Seq(Tasks) /\ NoRepeats(Span(n)) /\ In(Span(n)) = offered + 1 .. offered + n
    BY <1>1, Spans
  <2>. QED  BY <2>1, Batch
<1>4. \A t \in In(b) : fate[t] = "new"
  <2>1. \A t \in offered + 1 .. offered + n : t > offered
    BY <1>1, Spans
  <2>. QED  BY <1>1, <1>3, <2>1 DEF CarriedNew
<1>5. /\ fate' \in [Tasks -> {"new", "queued", "running", "executed", "destroyed", "refused"}]
      /\ \A t \in Tasks : t \notin In(b) => fate'[t] = fate[t]
  BY <1>1, <1>2, <1>3 DEF Offered, TypeOK
<1>6. CarriedNew' /\ offered' \in 0 .. N
  <2>1. carried' = carried /\ \A t \in Tasks : t \notin offered + 1 .. offered + n => fate'[t] = fate[t]
    BY <1>1, <1>3, <1>5
  <2>. QED  BY <1>1, <1>2, <2>1, CarriedLocal
<1>7. SendersInOrder' /\ OffIsIdle'
  BY <1>1 DEF SendersInOrder, OffIsIdle
<1>8. \A u \in Workers : /\ WillSignal(u) <=> WillSignal(u)'
                         /\ Donating(u)' <=> Donating(u) 
                         /\ Running(u)' <=> Running(u)
                         /\ Unemployed(u)' <=> Unemployed(u)
  BY <1>1 DEF WillSignal, Donating, Running, Unemployed
<1>9. CASE atomicAbort[w] /\ Offered(In(b), "refused") /\ UNCHANGED privateQueue
  <2>1. poolAbort
    BY <1>1, <1>9, AbortIsShutDown
  <2>2. PICK B \in SUBSET Tasks : B = In(b)
    BY <1>3
  <2>3. \A t \in Tasks : fate'[t] = IF t \in B THEN "refused" ELSE fate[t]
    BY <1>9, <2>2 DEF Offered
  <2>4. /\ wpc' \in [Workers -> WorkerPCs] /\ ppc' \in [Producers -> ProducerPCs]
        /\ target' \in [Workers \cup Producers -> Workers \cup {Nobody}]
        /\ carried' \in [Workers \cup Producers -> Seq(Share)]
    BY <1>1 DEF TypeOK
  <2>5. UNCHANGED <<queues, idleSet, idle, flags, aborts, balance, current, cursor, closer>>
    BY <1>1, <1>9 DEF queues
  <2>6. \A t \in B : fate[t] = "new"
    BY <1>4, <2>2
  <2>7. \A u \in Workers : wpc'[u] = wpc[u] /\ (WillSignal(u) => WillSignal(u)')
    BY <1>1, <1>8
  <2>. QED  BY <1>5, <1>6, <1>7, <2>1, <2>3, <2>4, <2>5, <2>6, <2>7, RefusedIInv
<1>10. CASE ~atomicAbort[w] /\ Offered(In(b), "queued")
            /\ privateQueue' = [privateQueue EXCEPT ![w] = @ \o b]
  <2>1. privateQueue \in [Workers -> Seq(Entries)] /\ privateQueue[w] \in Seq(Entries)
    BY <1>1 DEF TypeOK, Entries
  <2>2. privateQueue[w] \o b \in Seq(Entries)
    BY <2>1
  <2>3. /\ privateQueue'[w] = privateQueue[w] \o b
        /\ \A u \in Workers : u # w => privateQueue'[u] = privateQueue[u]
        /\ privateQueue' \in [Workers -> Seq(Tasks \cup {Moved})]
    BY <1>10, <2>1, <2>2 DEF Entries
  <2>4. \A t \in Tasks : fate'[t] = IF t \in In(b) THEN "queued" ELSE fate[t]
    BY <1>10 DEF Offered
  <2>5. QueuesApart'
    <3>1. \A u \in Workers : publicQueue'[u] = publicQueue[u]
      BY <1>1
    <3>. QED  BY <1>1, <1>3, <1>4, <2>3, <2>4, <3>1, QueuesPushed
  <2>6. RunningApart'
    <3>1. \A t \in Tasks : fate'[t] = "running" <=> fate[t] = "running"
      BY <1>4, <2>4
    <3>. QED  BY <1>1, <1>8, <3>1, RunningKept
  <2>7. DonationsInOrder'
    <3>1. \A u \in Workers : Donation(u)
      BY <1>1 DEF DonationsInOrder
    <3>2. ASSUME NEW u \in Workers, u # w PROVE Donation(u)'
      BY <1>1, <1>8, <2>3, <3>1, <3>2, DonationKept
    <3>3. ~Donating(w) /\ ~Donating(w)' /\ wpc'[w] # "pop"
      BY <1>1 DEF Donating
    <3>4. In(privateQueue[w]) \cap In(b) = {} /\ NoRepeats(privateQueue[w])
      <4>1. \A t \in In(privateQueue[w]) : t \in Tasks => fate[t] = "queued"
        BY <1>1 DEF QueuesApart, Has
      <4>. QED  BY <1>1, <1>3, <1>4, <4>1 DEF QueuesApart
    <3>5. (\A i \in DOMAIN privateQueue[w] : privateQueue[w][i] # Moved)
            => \A i \in DOMAIN privateQueue'[w] : privateQueue'[w][i] # Moved
      BY <1>3, <2>1, <2>3, <3>4, Appended
    <3>6. ~poolAbort => \A i \in DOMAIN privateQueue'[w] : privateQueue'[w][i] # Moved
      <4>1. DOMAIN privateQueue[w] = 1 .. Len(privateQueue[w])
        BY <2>1
      <4>. QED  BY <3>1, <3>3, <3>5, <4>1 DEF Donation
    <3>7. DOMAIN privateQueue'[w] = 1 .. Len(privateQueue'[w])
      BY <2>2, <2>3
    <3>8. Donation(w)'
      BY <1>1, <3>1, <3>3, <3>6, <3>7 DEF Donation
    <3>. QED  BY <3>2, <3>8 DEF DonationsInOrder
  <2>8. CloserInOrder'
    BY <1>1, <2>3, CloserKept
  <2>9. Wakeups'
    BY <1>1, <1>8 DEF Wakeups, Wakeup
  <2>10. MarkedIdle'
    <3>1. \A u \in Workers : Marked(u) => Marked(u)'
      BY <1>1, <1>8 DEF Marked
    <3>. QED  BY <1>1, <1>8, <3>1 DEF MarkedIdle
  <2>11. TypeOK'
    <3>1. \A f \in {idle', found', signalled', abort', atomicAbort'} : f \in [Workers -> BOOLEAN]
      BY <1>1, Types
    <3>. QED  BY <1>1, <1>5, <1>6, <2>3, <3>1 DEF TypeOK
  <2>. QED  BY <1>6, <1>7, <2>5, <2>6, <2>7, <2>8, <2>9, <2>10, <2>11 DEF IInv
<1>. QED  BY <1>2, <1>3, <1>9, <1>10

(* A task that a running task enqueues to a worker that is marked idle.    *)
LEMMA EnqueueFromTaskIInv == ASSUME IInv, NEW w \in Workers, EnqueueFromTask(w) PROVE IInv'
<1> USE DEF queues, flags, aborts, balance, closer
<1>1. CASE EnqueueLocal(w)
  BY <1>1, EnqueueLocalIInv DEF EnqueueFromTask
<1>2. CASE ~EnqueueLocal(w)
  <2>1. PICK v \in Workers \ {w} : v \in idleSet /\ idleSet' = idleSet \ {v}
                                   /\ target' = [target EXCEPT ![w] = v]
    BY <1>2 DEF EnqueueFromTask, TryAcquireFlag, SetActive
  <2>2. /\ TypeOK /\ OffIsIdle /\ CloserInOrder /\ SendersInOrder /\ DonationsInOrder
        /\ Wakeups /\ MarkedIdle /\ QueuesApart /\ RunningApart /\ CarriedNew
        /\ wpc[w] = "run" /\ offered < N /\ offered' = offered + 1
        /\ carried' = [carried EXCEPT ![w] = OneByOne(1)]
        /\ wpc' = [wpc EXCEPT ![w] = "enqueue"]
        /\ UNCHANGED <<queues, fate, idle, flags, aborts, balance, current, ppc, cursor, closer>>
        /\ w \notin Producers /\ w \in Senders
    BY <1>2, PoolAssumption DEF EnqueueFromTask, Offer, IInv, Senders
  <2>3. 1 \in 1 .. N - offered
    BY <2>2, PoolAssumption DEF TypeOK
  <2>4. AreFresh(OneByOne(1), 1) /\ Len(OneByOne(1)) = 1
    BY <2>2, <2>3, FreshOneByOne
  <2>5. carried[w] = <<>>
    BY <2>2 DEF SendersInOrder
  <2>6. PICK shares : shares = OneByOne(1)
    OBVIOUS
  <2>7. /\ CarriedNew'
        /\ carried' \in [Workers \cup Producers -> Seq(Share)] /\ offered' \in 0 .. N
        /\ carried'[w] = shares /\ \A r \in Senders : r # w => carried'[r] = carried[r]
    <3>1. AreFresh(shares, 1) /\ carried' = [carried EXCEPT ![w] = shares] /\ fate' = fate
      BY <2>2, <2>4, <2>6
    <3>. QED  BY <2>2, <2>3, <2>5, <3>1, CarriedOffered
  <2>8. /\ wpc'[w] = "enqueue" /\ \A u \in Workers : u # w => wpc'[u] = wpc[u]
        /\ target'[w] = v /\ \A r \in Senders : r # w => target'[r] = target[r]
        /\ wpc' \in [Workers -> WorkerPCs]
        /\ target' \in [Workers \cup Producers -> Workers \cup {Nobody}]
    BY <2>1, <2>2 DEF TypeOK, WorkerPCs, Senders
  <2>9. TypeOK'
    <3>1. \A f \in {idle', found', signalled', abort', atomicAbort'} : f \in [Workers -> BOOLEAN]
      BY <2>2, Types
    <3>. QED  BY <2>1, <2>2, <2>7, <2>8, <3>1 DEF TypeOK
  <2>10. OffIsIdle' /\ CloserInOrder'
    BY <2>2, <2>8, CloserKept DEF OffIsIdle
  <2>11. SendersInOrder'
    <3>1. \A p \in Producers :
            /\ ppc'[p] \in {"enqueue", "next"} => carried'[p] # <<>>
            /\ ppc'[p] = "idle" => carried'[p] = <<>>
            /\ ppc'[p] \in {"enqueue", "release"} => target'[p] \in Workers
      <4>1. \A p \in Producers : p # w /\ carried'[p] = carried[p] /\ target'[p] = target[p]
        BY <2>2, <2>7, <2>8 DEF Senders
      <4>. QED  BY <2>2, <4>1 DEF SendersInOrder
    <3>2. ASSUME NEW u \in Workers
          PROVE  /\ IF wpc'[u] = "enqueue" THEN Len(carried'[u]) = 1 ELSE carried'[u] = <<>>
                 /\ wpc'[u] \in {"enqueue", "release", "releaseDonation"} => target'[u] \in Workers
      <4>1. CASE u = w
        BY <2>1, <2>4, <2>6, <2>7, <2>8, <4>1
      <4>2. CASE u # w
        <5>1. /\ IF wpc[u] = "enqueue" THEN Len(carried[u]) = 1 ELSE carried[u] = <<>>
              /\ wpc[u] \in {"enqueue", "release", "releaseDonation"} => target[u] \in Workers
          BY <2>2 DEF SendersInOrder
        <5>2. carried'[u] = carried[u] /\ target'[u] = target[u] /\ wpc'[u] = wpc[u]
          BY <2>7, <2>8, <4>2 DEF Senders
        <5>. QED  BY <5>1, <5>2
      <4>. QED  BY <4>1, <4>2
    <3>3. ASSUME NEW s \in Senders, NEW k \in DOMAIN carried'[s] PROVE carried'[s][k].tasks # <<>>
      <4>1. CASE s = w
        BY <2>4, <2>6, <2>7, <3>3, <4>1 DEF AreFresh
      <4>2. CASE s # w
        <5>1. \A j \in DOMAIN carried[s] : carried[s][j].tasks # <<>>
          BY <2>2 DEF SendersInOrder
        <5>2. carried'[s] = carried[s]
          BY <2>7, <4>2
        <5>. QED  BY <3>3, <5>1, <5>2
      <4>. QED  BY <4>1, <4>2
    <3>. QED  BY <3>1, <3>2, <3>3 DEF SendersInOrder
  <2>12. \A u \in Workers : /\ Donating(u)' <=> Donating(u)
                            /\ Running(u)' <=> Running(u)
                            /\ Unemployed(u)' <=> Unemployed(u)
                            /\ wpc'[u] = "pop" => wpc[u] = "pop"
    BY <2>2, <2>8 DEF Donating, Running, Unemployed
  <2>13. DonationsInOrder'
    BY <2>2, <2>12, DonationKept DEF DonationsInOrder
  <2>14. ASSUME NEW u \in Workers PROVE WillSignal(u) => WillSignal(u)'
    <3>1. \A p \in Producers : target'[p] = target[p]
      BY <2>2, <2>8 DEF Senders
    <3>2. \A x \in Workers : wpc[x] \in {"release", "releaseDonation"}
            => wpc'[x] = wpc[x] /\ target'[x] = target[x]
      BY <2>2, <2>8 DEF Senders
    <3>. QED  BY <2>2, <3>1, <3>2 DEF WillSignal
  <2>15. Wakeups'
    <3>1. \A u \in Workers : wpc'[u] \in {"markIdle", "wait"} => wpc[u] = wpc'[u]
      BY <2>8
    <3>. QED  BY <2>2, <2>14, <3>1 DEF Wakeups, Wakeup
  <2>16. ASSUME NEW u \in Workers, Marked(u) PROVE Marked(u)'
    <3>1. CASE u = v
      BY <2>8, <3>1 DEF Marked
    <3>2. CASE u # v
      <4>1. \A p \in Producers : target'[p] = target[p]
        BY <2>2, <2>8 DEF Senders
      <4>2. \A x \in Workers : wpc[x] = "enqueue" => wpc'[x] = wpc[x] /\ target'[x] = target[x]
        BY <2>2, <2>8 DEF Senders
      <4>. QED  BY <2>1, <2>2, <2>12, <2>16, <3>2, <4>1, <4>2 DEF Marked
    <3>. QED  BY <3>1, <3>2
  <2>17. MarkedIdle'
    BY <2>2, <2>12, <2>16 DEF MarkedIdle
  <2>18. QueuesApart' /\ RunningApart'
    BY <2>2, <2>12, QueuesKept, RunningKept
  <2>. QED  BY <2>7, <2>9, <2>10, <2>11, <2>13, <2>15, <2>17, <2>18 DEF IInv
<1>. QED  BY <1>1, <1>2

-----------------------------------------------------------------------------
(* Donations.                                                              *)

LEMMA QueuesDonated ==
  ASSUME TypeOK, QueuesApart, NEW v \in Workers, NEW w \in Workers, NEW q \in Seq(Entries),
         q = privateQueue[w], NEW a \in Nat, NEW e \in 0 .. Len(q),
         publicQueue'[v] = publicQueue[v] \o SubSeq(q, a + 1, e),
         \A u \in Workers : u # v => publicQueue'[u] = publicQueue[u],
         privateQueue'[w] \in Seq(Entries), WithoutPart(q, a, e, privateQueue'[w]),
         \A u \in Workers : u # w => privateQueue'[u] = privateQueue[u],
         fate' = fate
  PROVE  QueuesApart'
<1>1. PICK b \in Seq(Entries) : b = SubSeq(q, a + 1, e) /\ NoRepeats(b) /\ In(b) \subseteq In(q)
  <2>1. NoRepeats(q)
    BY DEF QueuesApart
  <2>2. SubSeq(q, a + 1, e) \in Seq(Entries) /\ NoRepeats(SubSeq(q, a + 1, e))
    BY <2>1, PartOf
  <2>3. In(SubSeq(q, a + 1, e)) \subseteq In(q)
    BY InPart
  <2>. QED  BY <2>2, <2>3
<1>2. PICK rest \in Seq(Entries) : rest = privateQueue'[w] /\ NoRepeats(rest) /\ In(rest) = In(q) \ In(b)
  <2>1. NoRepeats(q)
    BY DEF QueuesApart
  <2>2. PICK rest \in Seq(Entries) : rest = privateQueue'[w] /\ WithoutPart(q, a, e, rest)
    OBVIOUS
  <2>3. /\ NoRepeats(rest)
        /\ In(rest) = In(q) \ In(SubSeq(q, a + 1, e))
    BY <2>1, <2>2, MovedOut
  <2>. QED  BY <1>1, <2>2, <2>3
<1>3. /\ publicQueue'[v] = publicQueue[v] \o b
      /\ privateQueue'[w] = rest /\ privateQueue[w] = q
  BY <1>1, <1>2
<1>4. \A u \in Workers :
        /\ publicQueue[u] \in Seq(Entries)
        /\ NoRepeats(publicQueue[u]) /\ NoRepeats(privateQueue[u])
        /\ In(publicQueue[u]) \cap In(privateQueue[u]) = {}
  BY Types DEF QueuesApart
<1>5. /\ \A u, x \in Workers : u # x => Has(u) \cap Has(x) = {}
      /\ \A t \in Tasks : fate[t] = "queued" <=> \E u \in Workers : t \in Has(u)
  BY DEF QueuesApart
<1>6. In(b) \subseteq Has(w) /\ In(publicQueue[w]) \cap In(b) = {} /\ In(publicQueue[v]) \cap In(b) = {}
  <2>1. In(b) \subseteq Has(w) /\ In(publicQueue[w]) \cap In(b) = {}
    BY <1>1, <1>3, <1>4 DEF Has
  <2>2. v # w => In(publicQueue[v]) \cap In(b) = {}
    BY <1>5, <2>1 DEF Has
  <2>. QED  BY <2>1, <2>2
<1>7. PICK p \in Seq(Entries) : p = publicQueue'[v] /\ NoRepeats(p) /\ In(p) = In(publicQueue[v]) \cup In(b)
  BY <1>1, <1>3, <1>4, <1>6, Appended
<1>8. v = w => Has(w)' = Has(w)
  BY <1>1, <1>2, <1>3, <1>7 DEF Has
<1>9. v # w => Has(w)' = Has(w) \ In(b) /\ Has(v)' = Has(v) \cup In(b)
  <2>1. v # w => /\ In(publicQueue'[w]) = In(publicQueue[w])
                 /\ In(privateQueue'[w]) = In(privateQueue[w]) \ In(b)
                 /\ In(publicQueue'[v]) = In(publicQueue[v]) \cup In(b)
                 /\ In(privateQueue'[v]) = In(privateQueue[v])
    BY <1>2, <1>3, <1>7
  <2>. QED  BY <1>6, <2>1 DEF Has
<1>10. \A u \in Workers : u # v /\ u # w => Has(u)' = Has(u)
  BY DEF Has
<1>11. \A u \in Workers : NoRepeats(publicQueue'[u]) /\ NoRepeats(privateQueue'[u])
  BY <1>2, <1>4, <1>7
<1>12. ASSUME NEW u \in Workers PROVE In(publicQueue'[u]) \cap In(privateQueue'[u]) = {}
  <2>1. CASE u = v /\ u = w
    BY <1>2, <1>3, <1>4, <1>7, <2>1
  <2>2. CASE u = v /\ u # w
    <3>1. In(b) \cap In(privateQueue[v]) = {}
      BY <1>5, <1>6, <2>2 DEF Has
    <3>. QED  BY <1>4, <1>7, <2>2, <3>1
  <2>3. CASE u # v /\ u = w
    BY <1>2, <1>3, <1>4, <2>3
  <2>4. CASE u # v /\ u # w
    BY <1>4, <2>4
  <2>. QED  BY <2>1, <2>2, <2>3, <2>4
<1>13. \A u, x \in Workers : u # x => Has(u)' \cap Has(x)' = {}
  <2>1. CASE v = w
    BY <1>5, <1>8, <1>10, <2>1
  <2>2. CASE v # w
    <3>1. ASSUME NEW u \in Workers, u # v, u # w
          PROVE  Has(u)' \cap Has(v)' = {} /\ Has(u)' \cap Has(w)' = {}
      <4>1. Has(u) \cap Has(v) = {} /\ Has(u) \cap Has(w) = {} /\ Has(u)' = Has(u)
        BY <1>5, <1>10, <3>1
      <4>. QED  BY <1>6, <1>9, <2>2, <4>1
    <3>2. Has(v)' \cap Has(w)' = {}
      <4>1. Has(v) \cap Has(w) = {}
        BY <1>5, <2>2
      <4>. QED  BY <1>6, <1>9, <2>2, <4>1
    <3>3. \A u, x \in Workers : u \notin {v, w} /\ x \notin {v, w} /\ u # x => Has(u)' \cap Has(x)' = {}
      BY <1>5, <1>10
    <3>. QED  BY <3>1, <3>2, <3>3
  <2>. QED  BY <2>1, <2>2
<1>14. \A t \in Tasks : fate'[t] = "queued" <=> \E u \in Workers : t \in Has(u)'
  <2>1. CASE v = w
    <3>1. \A u \in Workers : Has(u)' = Has(u)
      BY <1>8, <1>10, <2>1
    <3>. QED  BY <1>5, <3>1
  <2>2. CASE v # w
    <3>1. \A t : (\E u \in Workers : t \in Has(u)') <=> \E u \in Workers : t \in Has(u)
      BY <1>6, <1>9, <1>10, <2>2
    <3>. QED  BY <1>5, <3>1
  <2>. QED  BY <2>1, <2>2
<1>. QED  BY <1>11, <1>12, <1>13, <1>14 DEF QueuesApart

(* Two queues from which nothing was moved.                                *)
LEMMA BothUnmoved ==
  ASSUME NEW q \in Seq(Entries), NEW b \in Seq(Entries),
         \A i \in DOMAIN q : q[i] # Moved, \A i \in DOMAIN b : b[i] # Moved
  PROVE  \A i \in DOMAIN (q \o b) : (q \o b)[i] # Moved
OBVIOUS

(* The donation of the next share, its parts by name.                      *)
LEMMA DonateDoes ==
  ASSUME IInv, NEW w \in Workers, wpc[w] = "donate", donated[w] < Len(idleBuffer[w])
  PROVE  /\ privateQueue[w] \in Seq(Entries) /\ donated[w] \in Nat
         /\ Len(privateQueue[w]) \in Nat /\ Len(idleBuffer[w]) \in Nat
         /\ idleBuffer[w][donated[w] + 1] \in Workers
         /\ LET n == Len(privateQueue[w])
                k == Len(idleBuffer[w])
                d == donated[w]
            IN /\ DonationEnd(n, k, d) \in 0 .. n /\ DonationEnd(n, k, d + 1) \in 0 .. n
               /\ DonationEnd(n, k, d) <= DonationEnd(n, k, d + 1)
               /\ k < n => DonationEnd(n, k, d) < DonationEnd(n, k, d + 1)
               /\ ~poolAbort => k < n
<1>1. /\ privateQueue[w] \in Seq(Entries) /\ donated[w] \in Nat /\ idleBuffer[w] \in Seq(Workers)
  BY Types DEF IInv
<1>2. PICK n \in Nat, k \in Nat, d \in Nat :
        n = Len(privateQueue[w]) /\ k = Len(idleBuffer[w]) /\ d = donated[w]
  BY <1>1
<1>3. d + 1 \in 1 .. k /\ d \in 0 .. k + 1 /\ d + 1 \in 0 .. k + 1 /\ d \in 0 .. k
  BY <1>2
<1>4. idleBuffer[w][d + 1] \in Workers
  BY <1>1, <1>2, <1>3
<1>5. /\ DonationEnd(n, k, d) \in 0 .. n /\ DonationEnd(n, k, d + 1) \in 0 .. n
      /\ DonationEnd(n, k, d) <= DonationEnd(n, k, d + 1)
      /\ k < n => DonationEnd(n, k, d) < DonationEnd(n, k, d + 1)
  <2>1. /\ \A j \in 0 .. k + 1 : DonationEnd(n, k, j) \in 0 .. n
        /\ \A i, j \in 0 .. k + 1 : i <= j => DonationEnd(n, k, i) <= DonationEnd(n, k, j)
        /\ k < n => \A j \in 0 .. k : DonationEnd(n, k, j) < DonationEnd(n, k, j + 1)
    BY DonationEnds
  <2>2. d <= d + 1
    OBVIOUS
  <2>. QED  BY <1>3, <2>1, <2>2
<1>6. ~poolAbort => k < n
  <2>1. Donation(w) /\ CloserInOrder
    BY DEF IInv, DonationsInOrder
  <2>2. \A i \in d + 1 .. k : idleBuffer[w][i] \in Workers
    BY <1>1, <1>2, <1>3
  <2>3. k < n \/ \E i \in d + 1 .. k : abort[idleBuffer[w][i]]
    BY <1>2, <2>1 DEF Donation, Donating
  <2>4. \A u \in Workers : abort[u] => poolAbort
    BY <2>1, AbortIsShutDown
  <2>. QED  BY <2>2, <2>3, <2>4
<1>. QED  BY <1>1, <1>2, <1>4, <1>5, <1>6

(* The worker that donates next was shut down.                             *)
LEMMA DonateFailsIInv ==
  ASSUME IInv, NEW w \in Workers, wpc[w] = "donate", donated[w] < Len(idleBuffer[w]),
         abort[idleBuffer[w][donated[w] + 1]],
         wpc' = [wpc EXCEPT ![w] = "ending"],
         UNCHANGED <<queues, idleSet, idle, flags, aborts, balance, current, sending, ppc, cursor,
                     closer, tasks>>
  PROVE  IInv'
<1> USE DEF queues, flags, aborts, balance, closer, sending, tasks
<1>1. /\ TypeOK /\ OffIsIdle /\ CloserInOrder /\ SendersInOrder /\ DonationsInOrder
      /\ Wakeups /\ QueuesApart /\ RunningApart /\ CarriedNew
  BY DEF IInv
<1>2. PICK d \in Nat, k \in Nat : /\ d = donated[w] /\ k = Len(idleBuffer[w])
                                  /\ d + 1 \in 1 .. k /\ idleBuffer[w][d + 1] \in Workers
  <2>1. donated[w] \in Nat /\ Len(idleBuffer[w]) \in Nat /\ idleBuffer[w][donated[w] + 1] \in Workers
    BY DonateDoes
  <2>. QED  BY <2>1
<1>3. poolAbort
  BY <1>1, <1>2, AbortIsShutDown
<1>4. wpc'[w] = "ending" /\ \A u \in Workers : u # w => wpc'[u] = wpc[u]
  BY <1>1 DEF TypeOK
<1>5. TypeOK'
  <2>1. \A f \in {idle', found', signalled', abort', atomicAbort'} : f \in [Workers -> BOOLEAN]
    BY <1>1, Types
  <2>2. wpc' \in [Workers -> WorkerPCs]
    BY <1>1 DEF TypeOK, WorkerPCs
  <2>. QED  BY <1>1, <2>1, <2>2 DEF TypeOK
<1>6. OffIsIdle' /\ CloserInOrder'
  BY <1>1, <1>4, CloserKept DEF OffIsIdle
<1>7. SendersInOrder'
  <2>1. ASSUME NEW u \in Workers
        PROVE  /\ IF wpc'[u] = "enqueue" THEN Len(carried'[u]) = 1 ELSE carried'[u] = <<>>
               /\ wpc'[u] \in {"enqueue", "release", "releaseDonation"} => target'[u] \in Workers
    <3>1. /\ IF wpc[u] = "enqueue" THEN Len(carried[u]) = 1 ELSE carried[u] = <<>>
          /\ wpc[u] \in {"enqueue", "release", "releaseDonation"} => target[u] \in Workers
      BY <1>1 DEF SendersInOrder
    <3>2. wpc'[u] = wpc[u] \/ (wpc[u] = "donate" /\ wpc'[u] = "ending")
      BY <1>4
    <3>. QED  BY <3>1, <3>2
  <2>2. /\ \A p \in Producers :
             /\ ppc'[p] \in {"enqueue", "next"} => carried'[p] # <<>>
             /\ ppc'[p] = "idle" => carried'[p] = <<>>
             /\ ppc'[p] \in {"enqueue", "release"} => target'[p] \in Workers
        /\ \A s \in Senders : \A j \in DOMAIN carried'[s] : carried'[s][j].tasks # <<>>
    BY <1>1 DEF SendersInOrder
  <2>. QED  BY <2>1, <2>2 DEF SendersInOrder
<1>8. DonationsInOrder'
  <2>1. \A u \in Workers : Donation(u)
    BY <1>1 DEF DonationsInOrder
  <2>2. ASSUME NEW u \in Workers, u # w PROVE Donation(u)'
    BY <1>4, <2>1, <2>2, DonationKept DEF Donating
  <2>3. ~Donating(w)' /\ wpc'[w] # "pop" /\ poolAbort' = poolAbort
    BY <1>4 DEF Donating
  <2>4. \E i \in 1 .. Len(idleBuffer'[w]) : abort'[idleBuffer'[w][i]]
    BY <1>2
  <2>5. Donation(w)'
    BY <1>3, <2>3, <2>4 DEF Donation
  <2>. QED  BY <2>2, <2>5 DEF DonationsInOrder
<1>9. Wakeups'
  <2>1. \A u \in Workers : WillSignal(u) => WillSignal(u)'
    BY <1>4 DEF WillSignal
  <2>2. \A u \in Workers : wpc'[u] \in {"markIdle", "wait"} => wpc[u] = wpc'[u]
    BY <1>4
  <2>. QED  BY <1>1, <2>1, <2>2 DEF Wakeups, Wakeup
<1>10. MarkedIdle'
  BY <1>3 DEF MarkedIdle
<1>11. QueuesApart' /\ RunningApart' /\ CarriedNew'
  <2>1. \A u \in Workers : Running(u)' <=> Running(u)
    BY <1>4 DEF Running
  <2>. QED  BY <1>1, <2>1, QueuesKept, RunningKept, CarriedKept
<1>. QED  BY <1>5, <1>6, <1>7, <1>8, <1>9, <1>10, <1>11 DEF IInv

LEMMA DonateIInv == ASSUME IInv, NEW w \in Workers, Donate(w) PROVE IInv'
<1>1. /\ TypeOK /\ OffIsIdle /\ CloserInOrder /\ SendersInOrder /\ DonationsInOrder
      /\ Wakeups /\ MarkedIdle /\ QueuesApart /\ RunningApart /\ CarriedNew
      /\ wpc[w] = "donate" /\ donated[w] < Len(idleBuffer[w])
      /\ wpc \in [Workers -> WorkerPCs]
  BY DEF IInv, Donate, TypeOK
<1>a. PICK n \in Nat, k \in Nat, d \in Nat :
        n = Len(privateQueue[w]) /\ k = Len(idleBuffer[w]) /\ d = donated[w]
  BY <1>1, DonateDoes
<1>b. /\ DonationEnd(n, k, d) \in 0 .. n /\ DonationEnd(n, k, d + 1) \in 0 .. n
      /\ DonationEnd(n, k, d) <= DonationEnd(n, k, d + 1)
      /\ k < n => DonationEnd(n, k, d) < DonationEnd(n, k, d + 1)
      /\ ~poolAbort => k < n
      /\ idleBuffer[w][d + 1] \in Workers
  BY <1>1, <1>a, DonateDoes
<1>c. PICK v \in Workers : v = idleBuffer[w][d + 1]
  BY <1>b
<1>d. PICK a \in Nat : a = DonationEnd(n, k, d)
  BY <1>b
<1>e. PICK e \in Nat : e = DonationEnd(n, k, d + 1)
  BY <1>b
<1>2. /\ n = Len(privateQueue[w]) /\ k = Len(idleBuffer[w]) /\ d = donated[w]
      /\ v = idleBuffer[w][d + 1] /\ v \in Workers
      /\ a = DonationEnd(n, k, d) /\ e = DonationEnd(n, k, d + 1)
      /\ a \in 0 .. n /\ e \in 0 .. n /\ a <= e /\ n \in Nat /\ k \in Nat /\ d \in Nat
      /\ ~poolAbort => a < e
  BY <1>a, <1>b, <1>c, <1>d, <1>e
<1>3. CASE abort[v] /\ wpc' = [wpc EXCEPT ![w] = "ending"]
           /\ UNCHANGED <<queues, idle, found, target, donated>>
  <2>1. /\ abort[idleBuffer[w][donated[w] + 1]]
        /\ UNCHANGED <<queues, idleSet, idle, flags, aborts, balance, current, sending, ppc, cursor,
                       closer, tasks>>
    BY <1>2, <1>3 DEF Donate, flags, balance, sending
  <2>. QED  BY <1>1, <1>3, <2>1, DonateFailsIInv
<1> DEFINE next == IF MustRelease(v) THEN "releaseDonation" ELSE "donate"
           pcs == [wpc EXCEPT ![w] = next]
<1>4. CASE /\ ~abort[v] /\ Push(v, SubSeq(privateQueue[w], a + 1, e), pcs)
           /\ privateQueue' = [privateQueue EXCEPT ![w] =
                                 [i \in DOMAIN @ |-> IF i \in a + 1 .. e THEN Moved ELSE @[i]]]
           /\ target' = [target EXCEPT ![w] = v]
           /\ donated' = [donated EXCEPT ![w] = d + 1]
  <2>1. /\ MustRelease(v) => next = "releaseDonation"
        /\ next \in {"donate", "releaseDonation"} /\ pcs \in [Workers -> WorkerPCs]
        /\ pcs[w] = next /\ \A u \in Workers : u # w => pcs[u] = wpc[u]
    BY <1>1 DEF WorkerPCs
  <2> HIDE DEF next, pcs
  <2>2. UNCHANGED <<idleSet, signalled, aborts, idleBuffer, current, carried, ppc, cursor, closer,
                    tasks>>
    BY DEF Donate
  <2>3. PICK q \in Seq(Entries) : q = privateQueue[w] /\ NoRepeats(q) /\ Len(q) = n /\ DOMAIN q = 1 .. n
    <3>1. privateQueue[w] \in Seq(Entries) /\ NoRepeats(privateQueue[w])
      BY <1>1, Types DEF QueuesApart
    <3>. QED  BY <1>2, <3>1
  <2>4. PICK b \in Seq(Entries) : /\ b = SubSeq(q, a + 1, e) /\ Push(v, b, pcs)
                                  /\ ~poolAbort => b # <<>>
                                  /\ \A i \in DOMAIN b : a + i \in DOMAIN q /\ i \in Nat \ {0}
                                                       /\ b[i] = q[a + i]
    <3>0. a \in Nat /\ e \in 0 .. Len(q) /\ NoRepeats(q)
      BY <1>2, <2>3
    <3>1. /\ SubSeq(q, a + 1, e) \in Seq(Entries)
          /\ Len(SubSeq(q, a + 1, e)) = (IF a < e THEN e - a ELSE 0)
          /\ \A i \in DOMAIN SubSeq(q, a + 1, e) : a + i \in DOMAIN q /\ SubSeq(q, a + 1, e)[i] = q[a + i]
      BY <3>0, PartOf
    <3>2. PICK b \in Seq(Entries) : b = SubSeq(q, a + 1, e)
      BY <3>1
    <3>3. DOMAIN b = 1 .. Len(b)
      OBVIOUS
    <3>4. ~poolAbort => b # <<>>
      <4>1. ~poolAbort => Len(b) # 0
        BY <1>2, <3>1, <3>2
      <4>. QED  BY <4>1
    <3>5. Push(v, b, pcs)
      BY <1>4, <2>3, <3>2
    <3>6. \A i \in DOMAIN b : a + i \in DOMAIN q /\ i \in Nat \ {0} /\ b[i] = q[a + i]
      BY <3>1, <3>2, <3>3
    <3>. QED  BY <3>2, <3>4, <3>5, <3>6
  <2>5. PICK rest \in Seq(Entries) : /\ rest = privateQueue'[w] /\ WithoutPart(q, a, e, rest)
                                     /\ privateQueue' = [privateQueue EXCEPT ![w] = rest]
    <3>1. PICK rest : rest = [i \in DOMAIN q |-> IF i \in a + 1 .. e THEN Moved ELSE q[i]]
      OBVIOUS
    <3>2. privateQueue' = [privateQueue EXCEPT ![w] = rest]
      BY <1>4, <2>3, <3>1
    <3>3. privateQueue'[w] = rest
      BY <1>1, <3>2 DEF TypeOK
    <3>4. rest \in Seq(Entries)
      <4>1. \A i \in DOMAIN q : q[i] \in Entries
        OBVIOUS
      <4>2. rest \in [1 .. n -> Entries]
        BY <2>3, <3>1, <4>1 DEF Entries
      <4>3. n \in Nat
        BY <1>2
      <4>. QED  BY <4>2, <4>3
    <3>5. WithoutPart(q, a, e, rest)
      BY <3>1 DEF WithoutPart
    <3>. QED  BY <3>2, <3>3, <3>4, <3>5
  <2>6. /\ publicQueue'[v] = publicQueue[v] \o b
        /\ \A u \in Workers : u # v => publicQueue'[u] = publicQueue[u]
        /\ publicQueue' \in [Workers -> Seq(Tasks \cup {Moved})]
        /\ found' \in [Workers -> BOOLEAN] /\ idle' \in [Workers -> BOOLEAN]
        /\ wpc' \in [Workers -> WorkerPCs]
    <3>1. publicQueue'[v] = publicQueue[v] \o b
      <4>1. Push(v, b, pcs)
        BY <2>4
      <4>. QED  BY <1>1, <2>1, <4>1, PushDoes
    <3>2. \A u \in Workers : u # v => publicQueue'[u] = publicQueue[u]
      BY <1>1, <2>4 DEF Push, TypeOK
    <3>3. publicQueue' \in [Workers -> Seq(Tasks \cup {Moved})]
      BY <1>1, <2>1, <2>4, PushDoes
    <3>4. found' \in [Workers -> BOOLEAN] /\ idle' \in [Workers -> BOOLEAN]
      <4>1. found \in [Workers -> BOOLEAN] /\ idle \in [Workers -> BOOLEAN]
        BY <1>1, Types
      <4>. QED  BY <2>4, <4>1 DEF Push
    <3>5. wpc' \in [Workers -> WorkerPCs]
      BY <2>1, <2>4 DEF Push, WorkerPCs
    <3>. QED  BY <3>1, <3>2, <3>3, <3>4, <3>5
  <2>7. /\ \A u \in Workers : u # w => privateQueue'[u] = privateQueue[u] /\ donated'[u] = donated[u]
        /\ donated'[w] = d + 1 /\ target'[w] = v
        /\ \A r \in Senders : r # w => target'[r] = target[r]
        /\ privateQueue' \in [Workers -> Seq(Tasks \cup {Moved})]
        /\ donated' \in [Workers -> Nat]
        /\ target' \in [Workers \cup Producers -> Workers \cup {Nobody}]
    <3>1. /\ \A u \in Workers : u # w => privateQueue'[u] = privateQueue[u]
          /\ privateQueue' \in [Workers -> Seq(Tasks \cup {Moved})]
      BY <1>1, <2>5 DEF TypeOK, Entries
    <3>2. /\ \A u \in Workers : u # w => donated'[u] = donated[u]
          /\ donated'[w] = d + 1 /\ donated' \in [Workers -> Nat]
      <4>1. donated \in [Workers -> Nat]
        BY <1>1 DEF TypeOK
      <4>2. donated' = [donated EXCEPT ![w] = d + 1]
        BY <1>4
      <4>3. d + 1 \in Nat
        BY <1>2
      <4>. QED  BY <4>1, <4>2, <4>3
    <3>3. /\ target'[w] = v /\ \A r \in Senders : r # w => target'[r] = target[r]
          /\ target' \in [Workers \cup Producers -> Workers \cup {Nobody}]
      BY <1>1, <1>4 DEF TypeOK, Senders
    <3>. QED  BY <3>1, <3>2, <3>3
  <2>8. TypeOK'
    <3>1. \A f \in {idle', found', signalled', abort', atomicAbort'} : f \in [Workers -> BOOLEAN]
      BY <1>1, <2>2, <2>6, Types DEF aborts
    <3>. QED  BY <1>1, <2>2, <2>6, <2>7, <3>1 DEF TypeOK, aborts, closer, tasks
  <2>9. /\ wpc'[w] = next
        /\ \A u \in Workers : u # w => wpc'[u] = wpc[u] \/ (wpc[u] = "off" /\ wpc'[u] = "drain")
    <3>1. /\ wpc'[v] = (IF idle[v] THEN "drain" ELSE pcs[v])
          /\ \A u \in Workers : u # v => wpc'[u] = pcs[u]
      BY <2>1, <2>4 DEF Push
    <3>. QED  BY <1>1, <2>1, <3>1 DEF OffIsIdle
  <2>10. \A u \in Workers : /\ Donating(u)' <=> Donating(u)
                            /\ Running(u)' <=> Running(u)
                            /\ wpc'[u] = "pop" => wpc[u] = "pop"
    BY <1>1, <2>1, <2>9 DEF Donating, Running
  <2>11. SendersInOrder'
    <3>1. \A p \in Producers : p # w /\ p \in Senders
      BY PoolAssumption DEF Senders
    <3>2. \A p \in Producers :
            /\ ppc'[p] \in {"enqueue", "next"} => carried'[p] # <<>>
            /\ ppc'[p] = "idle" => carried'[p] = <<>>
            /\ ppc'[p] \in {"enqueue", "release"} => target'[p] \in Workers
      BY <1>1, <2>2, <2>7, <3>1 DEF SendersInOrder
    <3>3. ASSUME NEW u \in Workers
          PROVE  /\ IF wpc'[u] = "enqueue" THEN Len(carried'[u]) = 1 ELSE carried'[u] = <<>>
                 /\ wpc'[u] \in {"enqueue", "release", "releaseDonation"} => target'[u] \in Workers
      <4>1. /\ IF wpc[u] = "enqueue" THEN Len(carried[u]) = 1 ELSE carried[u] = <<>>
            /\ wpc[u] \in {"enqueue", "release", "releaseDonation"} => target[u] \in Workers
        BY <1>1 DEF SendersInOrder
      <4>2. CASE u = w
        BY <1>1, <2>1, <2>2, <2>7, <2>9, <4>1, <4>2
      <4>3. CASE u # w
        <5>1. wpc'[u] = wpc[u] \/ (wpc[u] = "off" /\ wpc'[u] = "drain")
          BY <2>9, <4>3
        <5>2. carried' = carried /\ target'[u] = target[u]
          BY <2>2, <2>7, <4>3 DEF Senders
        <5>. QED  BY <4>1, <5>1, <5>2
      <4>. QED  BY <4>2, <4>3
    <3>4. \A s \in Senders : \A j \in DOMAIN carried'[s] : carried'[s][j].tasks # <<>>
      BY <1>1, <2>2 DEF SendersInOrder
    <3>. QED  BY <3>2, <3>3, <3>4 DEF SendersInOrder
  <2>12. QueuesApart'
    <3>1. /\ a \in Nat /\ e \in 0 .. Len(q) /\ q = privateQueue[w]
          /\ publicQueue'[v] = publicQueue[v] \o SubSeq(q, a + 1, e)
          /\ \A u \in Workers : u # v => publicQueue'[u] = publicQueue[u]
          /\ privateQueue'[w] \in Seq(Entries) /\ WithoutPart(q, a, e, privateQueue'[w])
          /\ \A u \in Workers : u # w => privateQueue'[u] = privateQueue[u]
          /\ fate' = fate
      BY <1>2, <2>2, <2>3, <2>4, <2>5, <2>6, <2>7 DEF tasks
    <3>. QED  BY <1>1, <3>1, QueuesDonated
  <2>13. RunningApart' /\ CarriedNew'
    BY <1>1, <2>2, <2>10, RunningKept, CarriedKept DEF tasks
  <2>14. (MustRelease(v) => WillSignal(v)') /\ \A u \in Workers : WillSignal(u) => WillSignal(u)'
    <3>1. MustRelease(v) => WillSignal(v)'
      BY <2>1, <2>7, <2>9 DEF WillSignal
    <3>2. ASSUME NEW u \in Workers, WillSignal(u) PROVE WillSignal(u)'
      <4>1. \A p \in Producers : target'[p] = target[p]
        BY <2>7, PoolAssumption DEF Senders
      <4>2. \A x \in Workers : wpc[x] \in {"release", "releaseDonation"}
              => wpc'[x] = wpc[x] /\ target'[x] = target[x]
        BY <1>1, <2>7, <2>9 DEF Senders
      <4>. QED  BY <2>2, <3>2, <4>1, <4>2 DEF WillSignal, closer
    <3>. QED  BY <3>1, <3>2
  <2>15. ASSUME NEW u \in Workers, u # v, Marked(u) PROVE Marked(u)'
    <3>1. \A p \in Producers : target'[p] = target[p]
      BY <2>7, PoolAssumption DEF Senders
    <3>2. \A x \in Workers : wpc[x] = "enqueue" => wpc'[x] = wpc[x] /\ target'[x] = target[x]
      BY <1>1, <2>7, <2>9 DEF Senders
    <3>3. ASSUME NEW x \in Workers, Donating(x),
                 \E i \in donated[x] + 1 .. Len(idleBuffer[x]) : idleBuffer[x][i] = u
          PROVE  Donating(x)' /\ \E i \in donated'[x] + 1 .. Len(idleBuffer'[x]) : idleBuffer'[x][i] = u
      <4>1. Donating(x)' /\ idleBuffer' = idleBuffer
        BY <2>2, <2>10, <3>3
      <4>2. CASE x # w
        BY <2>7, <3>3, <4>1, <4>2
      <4>3. CASE x = w
        <5>1. PICK i \in d + 1 .. k : idleBuffer[w][i] = u
          BY <1>2, <3>3, <4>3
        <5>2. i # d + 1
          BY <1>2, <2>15, <5>1
        <5>3. i \in (d + 1) + 1 .. k
          BY <5>1, <5>2
        <5>. QED  BY <1>2, <2>7, <4>1, <4>3, <5>1, <5>3
      <4>. QED  BY <4>2, <4>3
    <3>. QED  BY <2>2, <2>15, <3>1, <3>2, <3>3 DEF Marked
  <2>16. OffIsIdle' /\ CloserInOrder' /\ Wakeups' /\ MarkedIdle'
    <3>1. \A u \in Workers : pcs[u] = wpc[u] \/ (wpc[u] \in Sending /\ pcs[u] \in Sending)
      BY <1>1, <2>1 DEF Sending
    <3>2. \A u \in Workers : wpc[u] = "off" => privateQueue'[u] = privateQueue[u]
      BY <1>1, <2>7
    <3>3. UNCHANGED <<signalled, aborts, closer>>
      BY <2>2
    <3>4. ~abort[v] /\ (b # <<>> \/ poolAbort)
      BY <1>4, <2>4
    <3>. QED  BY <2>1, <2>4, <2>14, <2>15, <3>1, <3>2, <3>3, <3>4, PushKeeps
  <2>17. ~poolAbort => \A u \in Workers : \A i \in DOMAIN publicQueue'[u] : publicQueue'[u][i] # Moved
    <3> SUFFICES ASSUME ~poolAbort, NEW u \in Workers
                 PROVE  \A i \in DOMAIN publicQueue'[u] : publicQueue'[u][i] # Moved
      OBVIOUS
    <3>1. \A x \in Workers : Donation(x)
      BY <1>1 DEF DonationsInOrder
    <3>2. CASE u # v
      BY <2>6, <3>1, <3>2 DEF Donation
    <3>3. CASE u = v
      <4>1. \A i \in a + 1 .. n : q[i] # Moved
        BY <1>1, <1>2, <2>3, <3>1 DEF Donation, Donating
      <4>2. \A i \in DOMAIN b : b[i] # Moved
        <5>1. \A i \in DOMAIN b : a + i \in a + 1 .. n
          BY <1>2, <2>3, <2>4
        <5>. QED  BY <2>4, <4>1, <5>1
      <4>3. publicQueue[v] \in Seq(Entries) /\ \A i \in DOMAIN publicQueue[v] : publicQueue[v][i] # Moved
        BY <1>1, <3>1, Types DEF Donation
      <4>4. \A i \in DOMAIN (publicQueue[v] \o b) : (publicQueue[v] \o b)[i] # Moved
        BY <4>2, <4>3, BothUnmoved
      <4>. QED  BY <2>6, <3>3, <4>4
    <3>. QED  BY <3>2, <3>3
  <2>18. DonationsInOrder'
    <3>1. \A u \in Workers : Donation(u)
      BY <1>1 DEF DonationsInOrder
    <3>2. ASSUME NEW u \in Workers, u # w PROVE Donation(u)'
      <4>1. ~poolAbort => \A i \in DOMAIN publicQueue'[u] : publicQueue'[u][i] # Moved
        BY <2>17
      <4>2. idleBuffer'[u] = idleBuffer[u] /\ UNCHANGED aborts
        BY <2>2
      <4>. QED  BY <2>7, <2>10, <3>1, <3>2, <4>1, <4>2, DonationKept
    <3>3. /\ Len(privateQueue'[w]) = n /\ Len(idleBuffer'[w]) = k /\ donated'[w] = d + 1
          /\ Donating(w)' /\ wpc'[w] # "pop" /\ idleBuffer' = idleBuffer
          /\ abort' = abort /\ poolAbort' = poolAbort
      <4>1. Len(rest) = n
        BY <1>2, <2>3, <2>5, MovedOut
      <4>. QED  BY <1>2, <2>1, <2>2, <2>5, <2>7, <2>9, <4>1 DEF Donating, aborts
    <3>4. d + 1 <= k
      BY <1>1, <1>2
    <3>5. k < n \/ \E i \in (d + 1) + 1 .. k : abort[idleBuffer[w][i]]
      <4>1. k < n \/ \E i \in d + 1 .. k : abort[idleBuffer[w][i]]
        BY <1>1, <1>2, <3>1 DEF Donation, Donating
      <4>2. \A i \in d + 1 .. k : abort[idleBuffer[w][i]] => i \in (d + 1) + 1 .. k
        <5> SUFFICES ASSUME NEW i \in d + 1 .. k, abort[idleBuffer[w][i]]
                     PROVE  i \in (d + 1) + 1 .. k
          OBVIOUS
        <5>1. ~abort[idleBuffer[w][d + 1]]
          BY <1>2, <1>4
        <5>2. i # d + 1
          BY <5>1
        <5>. QED  BY <1>2, <5>2
      <4>. QED  BY <4>1, <4>2
    <3>6. \A i \in 1 .. e : privateQueue'[w][i] = Moved
      <4>1. \A i \in 1 .. a : q[i] = Moved
        BY <1>1, <1>2, <2>3, <3>1 DEF Donation, Donating
      <4>2. \A i \in 1 .. e : i \in DOMAIN q /\ (i \in 1 .. a \/ i \in a + 1 .. e)
        BY <1>2, <2>3
      <4>. QED  BY <2>5, <4>1, <4>2 DEF WithoutPart
    <3>7. ~poolAbort => \A i \in e + 1 .. n : privateQueue'[w][i] # Moved
      <4>1. ~poolAbort => \A i \in a + 1 .. n : q[i] # Moved
        BY <1>1, <1>2, <2>3, <3>1 DEF Donation, Donating
      <4>2. \A i \in e + 1 .. n : i \in DOMAIN q /\ i \in a + 1 .. n /\ i \notin a + 1 .. e
        BY <1>2, <2>3
      <4>. QED  BY <2>5, <4>1, <4>2 DEF WithoutPart
    <3>8. e = DonationEnd(n, k, d + 1)
      BY <1>2
    <3>9. Donation(w)'
      BY <2>17, <3>3, <3>4, <3>5, <3>6, <3>7, <3>8 DEF Donation
    <3>. QED  BY <3>2, <3>9 DEF DonationsInOrder
  <2>. QED  BY <2>8, <2>11, <2>12, <2>13, <2>16, <2>18 DEF IInv
<1>5. \/ /\ ~abort[v] /\ Push(v, SubSeq(privateQueue[w], a + 1, e), pcs)
         /\ privateQueue' = [privateQueue EXCEPT ![w] =
                               [i \in DOMAIN @ |-> IF i \in a + 1 .. e THEN Moved ELSE @[i]]]
         /\ target' = [target EXCEPT ![w] = v]
         /\ donated' = [donated EXCEPT ![w] = d + 1]
      \/ /\ abort[v] /\ wpc' = [wpc EXCEPT ![w] = "ending"]
         /\ UNCHANGED <<queues, idle, found, target, donated>>
  BY <1>2 DEF Donate
<1>. QED  BY <1>3, <1>4, <1>5

-----------------------------------------------------------------------------
(* The invariant holds.                                                    *)

LEMMA InitIInv == ASSUME Init PROVE IInv
<1> USE DEF Init
<1>1. W \in Nat \ {0} /\ N \in Nat \ {0} /\ Workers = 1 .. W /\ \A w \in Workers : w \in Nat /\ w >= 1
  BY PoolAssumption DEF Workers
<1>2. TypeOK
  <2>1. 0 \in 0 .. W - 1 /\ 1 \in 1 .. W + 1 /\ 0 \in 0 .. N
    BY <1>1
  <2>2. \A f \in {idle, found, signalled, abort, atomicAbort} : f \in [Workers -> BOOLEAN]
    OBVIOUS
  <2>3. /\ publicQueue \in [Workers -> Seq(Tasks \cup {Moved})]
        /\ privateQueue \in [Workers -> Seq(Tasks \cup {Moved})]
        /\ idleBuffer \in [Workers -> Seq(Workers)] /\ donated \in [Workers -> Nat]
        /\ carried \in [Workers \cup Producers -> Seq(Share)]
    OBVIOUS
  <2>. QED  BY <2>1, <2>2, <2>3 DEF TypeOK, WorkerPCs, ProducerPCs, CloserPCs
<1>3. OffIsIdle
  BY DEF OffIsIdle
<1>4. CloserInOrder
  BY <1>1 DEF CloserInOrder
<1>5. SendersInOrder
  BY DEF SendersInOrder, Senders
<1>6. \A w \in Workers : Has(w) = {} /\ NoRepeats(publicQueue[w]) /\ NoRepeats(privateQueue[w])
                         /\ In(publicQueue[w]) = {} /\ In(privateQueue[w]) = {}
  BY Entered DEF Has
<1>7. DonationsInOrder
  <2> SUFFICES ASSUME NEW w \in Workers PROVE Donation(w)
    BY DEF DonationsInOrder
  <2>1. /\ ~Donating(w) /\ wpc[w] # "pop" /\ idleBuffer[w] = <<>>
        /\ privateQueue[w] = <<>> /\ publicQueue[w] = <<>>
    BY DEF Donating
  <2>2. Len(<<>>) = 0 /\ DOMAIN <<>> = 1 .. 0
    OBVIOUS
  <2>. QED  BY <2>1, <2>2 DEF Donation
<1>8. Wakeups
  BY DEF Wakeups, Wakeup
<1>9. MarkedIdle
  BY DEF MarkedIdle, Marked
<1>10. QueuesApart
  BY <1>6 DEF QueuesApart
<1>11. RunningApart
  BY DEF RunningApart, Running
<1>12. CarriedNew
  BY DEF CarriedNew, SharesApart, Senders
<1>. QED  BY <1>2, <1>3, <1>4, <1>5, <1>7, <1>8, <1>9, <1>10, <1>11, <1>12 DEF IInv

LEMMA WorkerStepIInv == ASSUME IInv, NEW w \in Workers, WorkerStep(w) PROVE IInv'
BY DrainQueueIInv, MarkIdleIInv, AcquireIInv, RecheckIInv, EndThreadIInv, StartBalanceIInv,
   DonateIInv, ReleaseOtherIInv, FinishBalanceIInv, PopTaskIInv, EnqueueOtherIInv, FinishTaskIInv
   DEF WorkerStep

LEMMA CloserStepIInv == ASSUME IInv, CloserStep PROVE IInv'
BY SetAtomicAbortIInv, SetAbortIInv, SetFoundIInv, ReleaseForAbortIInv, JoinIInv, ClearQueuesIInv
   DEF CloserStep

LEMMA NextIInv == ASSUME IInv, [Next]_vars PROVE IInv'
<1>1. CASE UNCHANGED vars
  BY <1>1, StutterIInv
<1>2. CASE Quiet
  BY <1>2, StutterIInv DEF Quiet
<1>3. ASSUME NEW p \in Producers, Enqueue(p) \/ EnqueueNext(p) \/ EnqueueForeign(p) \/ Release(p)
      PROVE  IInv'
  BY <1>3, EnqueueIInv, EnqueueNextIInv, EnqueueForeignIInv, ReleaseIInv
<1>4. ASSUME NEW w \in Workers, WorkerStep(w) \/ TimeOut(w) \/ EnqueueFromTask(w) PROVE IInv'
  BY <1>4, WorkerStepIInv, TimeOutIInv, EnqueueFromTaskIInv
<1>5. CASE ShutDown \/ CloserStep
  BY <1>5, ShutDownIInv, CloserStepIInv
<1>. QED  BY <1>1, <1>2, <1>3, <1>4, <1>5 DEF Next

(* The inductive invariant: where every task is and who is about to hand   *)
(* it over, which flags the shutdown has set, what each donation may       *)
(* assume, and who will wake a worker that sleeps.                         *)
THEOREM Invariance == Spec => []IInv
<1>1. Init => IInv
  BY InitIInv
<1>2. IInv /\ [Next]_vars => IInv'
  BY NextIInv
<1>. QED  BY <1>1, <1>2, PTL DEF Spec

-----------------------------------------------------------------------------
(* What follows from it.                                                   *)

LEMMA PlacesNone ==
  ASSUME NEW queue \in [Workers -> Seq(Entries)], NEW t \in Tasks,
         \A w \in Workers : t \notin In(queue[w])
  PROVE  Cardinality(Places(t, queue)) = 0
<1>1. \A w \in Workers : \A k \in DOMAIN queue[w] : queue[w][k] # t
  BY Entered DEF In
<1>2. Places(t, queue) = {}
  BY <1>1 DEF Places
<1>. QED  BY <1>2, FS_EmptySet

LEMMA PlacesOne ==
  ASSUME NEW queue \in [Workers -> Seq(Entries)], NEW t \in Tasks, NEW w \in Workers,
         t \in In(queue[w]), NoRepeats(queue[w]),
         \A u \in Workers : u # w => t \notin In(queue[u])
  PROVE  Cardinality(Places(t, queue)) = 1
<1>1. t # Moved
  BY Entered
<1>2. PICK i \in DOMAIN queue[w] : queue[w][i] = t
  BY DEF In
<1>3. \A k \in DOMAIN queue[w] : queue[w][k] = t <=> k = i
  BY <1>1, <1>2 DEF NoRepeats
<1>4. \A u \in Workers : u # w => \A k \in DOMAIN queue[u] : queue[u][k] # t
  BY <1>1 DEF In
<1>5. Places(t, queue) = {<<w, i>>}
  <2>1. {k \in DOMAIN queue[w] : queue[w][k] = t} = {i}
    BY <1>2, <1>3
  <2>2. \A u \in Workers : u # w => {k \in DOMAIN queue[u] : queue[u][k] = t} = {}
    BY <1>4
  <2>3. \A x : x \in Places(t, queue)
          <=> \E u \in Workers : \E k \in {j \in DOMAIN queue[u] : queue[u][j] = t} : x = <<u, k>>
    BY DEF Places
  <2>4. \A x : x \in Places(t, queue) <=> x = <<w, i>>
    BY <2>1, <2>2, <2>3
  <2>. QED  BY <2>4
<1>. QED  BY <1>5, FS_Singleton

(* No accepted task is lost or doubled: as long as its fate is open it is  *)
(* in one place of one queue, through swaps, donations, failed donations,  *)
(* restarted threads and the clearing of the queues.                       *)
THEOREM TasksAreInOnePlace == Spec => []QueuesHoldOpenTasks
<1>1. ASSUME IInv PROVE QueuesHoldOpenTasks
  <2>1. TypeOK /\ QueuesApart
    BY <1>1 DEF IInv
  <2>2. publicQueue \in [Workers -> Seq(Entries)] /\ privateQueue \in [Workers -> Seq(Entries)]
    BY <2>1 DEF TypeOK, Entries
  <2> SUFFICES ASSUME NEW t \in Tasks
               PROVE  Cardinality(Places(t, publicQueue)) + Cardinality(Places(t, privateQueue))
                        = IF t \in Queued THEN 1 ELSE 0
    BY <2>1 DEF QueuesHoldOpenTasks
  <2>3. t \in Queued <=> \E w \in Workers : t \in Has(w)
    BY <2>1 DEF Queued, QueuesApart
  <2>4. CASE t \notin Queued
    <3>1. \A w \in Workers : t \notin In(publicQueue[w]) /\ t \notin In(privateQueue[w])
      BY <2>3, <2>4 DEF Has
    <3>2. Cardinality(Places(t, publicQueue)) = 0 /\ Cardinality(Places(t, privateQueue)) = 0
      BY <2>2, <3>1, PlacesNone
    <3>. QED  BY <2>4, <3>2
  <2>5. CASE t \in Queued
    <3>1. PICK w \in Workers : t \in Has(w)
      BY <2>3, <2>5
    <3>2. \A u \in Workers : u # w => t \notin In(publicQueue[u]) /\ t \notin In(privateQueue[u])
      BY <2>1, <3>1 DEF QueuesApart, Has
    <3>3. NoRepeats(publicQueue[w]) /\ NoRepeats(privateQueue[w])
          /\ In(publicQueue[w]) \cap In(privateQueue[w]) = {}
      BY <2>1 DEF QueuesApart
    <3>4. CASE t \in In(publicQueue[w])
      <4>1. Cardinality(Places(t, publicQueue)) = 1
        BY <2>2, <3>2, <3>3, <3>4, PlacesOne
      <4>2. \A u \in Workers : t \notin In(privateQueue[u])
        BY <3>2, <3>3, <3>4
      <4>3. Cardinality(Places(t, privateQueue)) = 0
        BY <2>2, <4>2, PlacesNone
      <4>. QED  BY <2>5, <4>1, <4>3
    <3>5. CASE t \in In(privateQueue[w])
      <4>1. Cardinality(Places(t, privateQueue)) = 1
        BY <2>2, <3>2, <3>3, <3>5, PlacesOne
      <4>2. \A u \in Workers : t \notin In(publicQueue[u])
        BY <3>2, <3>3, <3>5
      <4>3. Cardinality(Places(t, publicQueue)) = 0
        BY <2>2, <4>2, PlacesNone
      <4>. QED  BY <2>5, <4>1, <4>3
    <3>. QED  BY <3>1, <3>4, <3>5 DEF Has
  <2>. QED  BY <2>4, <2>5
<1>. QED  BY <1>1, Invariance, PTL

(* No worker sleeps on tasks or on the abort without a signal, and a       *)
(* worker whose thread has ended is marked idle until somebody has taken   *)
(* the mark to give it something.                                          *)
THEOREM SleepersAreWoken == Spec => []NoLostWakeup
<1>1. ASSUME IInv PROVE NoLostWakeup
  <2>1. Wakeups /\ MarkedIdle
    BY <1>1 DEF IInv
  <2> SUFFICES ASSUME NEW w \in Workers
               PROVE  /\ Wakeup(w)
                      /\ wpc[w] = "off" /\ ~poolAbort /\ publicQueue[w] = <<>> => Marked(w)
    BY DEF NoLostWakeup, Wakeup, Marked, Donating
  <2>. QED  BY <2>1 DEF Wakeups, MarkedIdle, Unemployed
<1>. QED  BY <1>1, Invariance, PTL

(* When ShutDown has returned, nothing is left.                            *)
LEMMA ClosedIsEmpty ==
  ASSUME IInv, \A w \in Workers : wpc[w] = "off" /\ publicQueue[w] = <<>> /\ privateQueue[w] = <<>>
  PROVE  \A t \in Tasks : fate[t] \notin {"queued", "running"}
<1>1. \A w \in Workers : Has(w) = {} /\ ~Running(w)
  BY Entered DEF Has, Running
<1>. QED  BY <1>1 DEF IInv, QueuesApart, RunningApart

(* The asserts of BalanceWork, DrainQueueImpl and the worker's destructor: *)
(* until the shutdown a donation is a range of tasks that are there, a     *)
(* worker never takes a task from an empty queue, and afterwards no thread *)
(* and no task is left.                                                    *)
THEOREM AssertionsHold == Spec => []AssertsHold
<1>1. ASSUME IInv PROVE AssertsHold
  <2>1. TypeOK /\ OffIsIdle /\ CloserInOrder /\ DonationsInOrder
    BY <1>1 DEF IInv
  <2>2. ASSUME NEW w \in Workers
        PROVE  LET n == Len(privateQueue[w])
                   k == Len(idleBuffer[w])
                   d == donated[w]
               IN  /\ wpc[w] = "donate" /\ d < k /\ ~poolAbort
                        => /\ k < n
                           /\ DonationEnd(n, k, d) < DonationEnd(n, k, d + 1)
                           /\ \A i \in DonationEnd(n, k, d) + 1 .. n : privateQueue[w][i] # Moved
                   /\ wpc[w] = "pop" => n > 0
    <3>1. Donation(w)
      BY <2>1 DEF DonationsInOrder
    <3>2. ASSUME wpc[w] = "donate", donated[w] < Len(idleBuffer[w]), ~poolAbort
          PROVE  LET n == Len(privateQueue[w])
                     k == Len(idleBuffer[w])
                     d == donated[w]
                 IN  k < n /\ DonationEnd(n, k, d) < DonationEnd(n, k, d + 1)
      BY <1>1, <3>2, DonateDoes
    <3>. QED  BY <3>1, <3>2 DEF Donation, Donating
  <2>3. ASSUME Closed
        PROVE  /\ \A w \in Workers : wpc[w] = "off" /\ idle[w]
               /\ \A t \in Tasks : fate[t] \notin {"queued", "running"}
    <3>1. \A w \in Workers : w < W + 1
      BY PoolAssumption DEF Workers
    <3>2. \A w \in Workers : wpc[w] = "off" /\ publicQueue[w] = <<>> /\ privateQueue[w] = <<>>
      BY <2>1, <2>3, <3>1 DEF CloserInOrder, Closed
    <3>. QED  BY <1>1, <2>1, <3>2, ClosedIsEmpty DEF OffIsIdle
  <2>. QED  BY <2>2, <2>3 DEF AssertsHold
<1>. QED  BY <1>1, Invariance, PTL

-----------------------------------------------------------------------------
(* The pool keeps the contract of an executor.                             *)

LEMMA AcceptSimulates ==
  ASSUME NEW batch \in SUBSET Tasks, \A t \in batch : fate[t] = "new",
         Offered(batch, "queued"), ~Closed, UNCHANGED <<poolAbort, Closed>>
  PROVE  Contract!ENext
<1>1. batch \in SUBSET {t \in Tasks : fate[t] = "new"}
  OBVIOUS
<1>2. Contract!Accept
  BY <1>1 DEF Contract!Accept, Offered
<1>. QED  BY <1>2 DEF Contract!ENext

LEMMA RefuseSimulates ==
  ASSUME NEW batch \in SUBSET Tasks, \A t \in batch : fate[t] = "new",
         Offered(batch, "refused"), poolAbort, UNCHANGED <<poolAbort, Closed>>
  PROVE  Contract!ENext
<1>1. batch \in SUBSET {t \in Tasks : fate[t] = "new"}
  OBVIOUS
<1>2. Contract!Refuse
  BY <1>1 DEF Contract!Refuse, Offered
<1>. QED  BY <1>2 DEF Contract!ENext

(* The pool that is closed accepts nothing.                                *)
LEMMA ClosedAborts ==
  ASSUME CloserInOrder, Closed, NEW w \in Workers
  PROVE  abort[w] /\ atomicAbort[w]
<1>1. w < W + 1
  BY PoolAssumption DEF Workers
<1>. QED  BY <1>1 DEF CloserInOrder, Closed

LEMMA ProducerSimulates ==
  ASSUME IInv, NEW p \in Producers,
         Enqueue(p) \/ EnqueueNext(p) \/ EnqueueForeign(p) \/ Release(p)
  PROVE  [Contract!ENext]_(Contract!evars)
<1>1. UNCHANGED <<poolAbort, Closed>>
  BY DEF Enqueue, EnqueueNext, EnqueueForeign, Release, FindWorker, aborts, closer, Closed
<1>2. CASE Enqueue(p) \/ EnqueueNext(p) \/ Release(p)
  BY <1>1, <1>2 DEF Enqueue, EnqueueNext, Release, FindWorker, tasks, Contract!evars
<1>3. CASE EnqueueForeign(p)
  <2>1. TypeOK /\ CloserInOrder /\ SendersInOrder /\ CarriedNew /\ p \in Senders
    BY DEF IInv, Senders
  <2>2. target[p] \in Workers /\ carried[p] # <<>> /\ carried[p] \in Seq(Share)
    BY <1>3, <2>1, Types DEF EnqueueForeign, SendersInOrder
  <2>3. Head(carried[p]) = carried[p][1] /\ 1 \in DOMAIN carried[p]
    BY <2>2
  <2>4. \A k \in DOMAIN carried[p] :
          /\ In(carried[p][k].tasks) \subseteq Tasks
          /\ \A t \in In(carried[p][k].tasks) : fate[t] = "new"
    BY <2>1, SharesTyped DEF CarriedNew
  <2>5. CASE ~abort[target[p]] /\ Offered(In(Head(carried[p]).tasks), "queued")
    <3>1. PICK batch \in SUBSET Tasks : /\ batch = In(Head(carried[p]).tasks)
                                        /\ \A t \in batch : fate[t] = "new"
      BY <2>3, <2>4
    <3>2. ~Closed
      BY <2>1, <2>2, <2>5, ClosedAborts
    <3>. QED  BY <1>1, <2>5, <3>1, <3>2, AcceptSimulates
  <2>6. CASE /\ abort[target[p]]
             /\ Offered(UNION {In(carried[p][k].tasks) : k \in DOMAIN carried[p]}, "refused")
    <3>1. PICK batch \in SUBSET Tasks :
            /\ batch = UNION {In(carried[p][k].tasks) : k \in DOMAIN carried[p]}
            /\ \A t \in batch : fate[t] = "new"
      BY <2>4
    <3>2. poolAbort
      BY <2>1, <2>2, <2>6, AbortIsShutDown
    <3>. QED  BY <1>1, <2>6, <3>1, <3>2, RefuseSimulates
  <2>. QED  BY <1>3, <2>5, <2>6 DEF EnqueueForeign
<1>. QED  BY <1>2, <1>3

LEMMA WorkerSimulates ==
  ASSUME IInv, NEW w \in Workers, WorkerStep(w) \/ TimeOut(w) \/ EnqueueFromTask(w)
  PROVE  [Contract!ENext]_(Contract!evars)
<1>1. UNCHANGED <<poolAbort, Closed>>
  BY DEF WorkerStep, TimeOut, EnqueueFromTask, DrainQueue, MarkIdle, Acquire, Recheck, EndThread,
         StartBalance, Donate, ReleaseOther, FinishBalance, PopTask, EnqueueOther, FinishTask,
         aborts, closer, Closed
<1>2. TypeOK /\ CloserInOrder /\ SendersInOrder /\ CarriedNew /\ QueuesApart /\ RunningApart
      /\ DonationsInOrder /\ w \in Senders
  BY DEF IInv, Senders
<1>3. CASE \/ DrainQueue(w) \/ MarkIdle(w) \/ Acquire(w) \/ Recheck(w) \/ EndThread(w)
           \/ StartBalance(w) \/ Donate(w) \/ ReleaseOther(w) \/ FinishBalance(w) \/ TimeOut(w)
  BY <1>1, <1>3
     DEF DrainQueue, MarkIdle, Acquire, Recheck, EndThread, StartBalance, Donate, ReleaseOther,
         FinishBalance, TimeOut, tasks, Contract!evars
<1>4. CASE PopTask(w)
  <2>1. CASE fate' = fate
    BY <1>1, <2>1 DEF Contract!evars
  <2>2. CASE fate' # fate
    <3>1. PICK t : /\ t = privateQueue[w][Len(privateQueue[w])] /\ t # Moved
                   /\ fate' = [fate EXCEPT ![t] = "running"]
      BY <1>4, <2>2 DEF PopTask
    <3>2. privateQueue[w] \in Seq(Entries) /\ Len(privateQueue[w]) > 0 /\ NoRepeats(privateQueue[w])
      BY <1>2, <1>4, Types DEF PopTask, DonationsInOrder, Donation, QueuesApart
    <3>3. t \in In(privateQueue[w])
      BY <3>1, <3>2, Popped
    <3>4. t \in Tasks /\ fate[t] = "queued"
      BY <1>2, <3>2, <3>3, Entered DEF QueuesApart, Has
    <3>5. Contract!Start(t)
      BY <1>1, <3>1, <3>4 DEF Contract!Start
    <3>. QED  BY <3>4, <3>5 DEF Contract!ENext
  <2>. QED  BY <2>1, <2>2
<1>5. CASE FinishTask(w)
  <2>1. current[w] \in Tasks /\ fate[current[w]] = "running"
    BY <1>2, <1>5 DEF FinishTask, RunningApart, Running
  <2>2. Contract!Finish(current[w])
    BY <1>1, <1>5, <2>1 DEF FinishTask, Contract!Finish
  <2>. QED  BY <2>1, <2>2 DEF Contract!ENext
<1>6. CASE EnqueueOther(w)
  <2>1. /\ target[w] \in Workers /\ carried[w] \in Seq(Share) /\ Len(carried[w]) = 1
    BY <1>2, <1>6, Types DEF EnqueueOther, SendersInOrder
  <2>2. Head(carried[w]) = carried[w][1] /\ 1 \in DOMAIN carried[w]
    BY <2>1
  <2>3. PICK batch \in SUBSET Tasks : /\ batch = In(Head(carried[w]).tasks)
                                      /\ \A t \in batch : fate[t] = "new"
    BY <1>2, <2>2, SharesTyped DEF CarriedNew
  <2>4. CASE ~abort[target[w]] /\ Offered(batch, "queued")
    <3>1. ~Closed
      BY <1>2, <2>1, <2>4, ClosedAborts
    <3>. QED  BY <1>1, <2>3, <2>4, <3>1, AcceptSimulates
  <2>5. CASE abort[target[w]] /\ Offered(batch, "refused")
    <3>1. poolAbort
      BY <1>2, <2>1, <2>5, AbortIsShutDown
    <3>. QED  BY <1>1, <2>3, <2>5, <3>1, RefuseSimulates
  <2>. QED  BY <1>6, <2>3, <2>4, <2>5 DEF EnqueueOther
<1>7. CASE EnqueueFromTask(w)
  <2>1. CASE EnqueueLocal(w)
    <3>1. PICK n \in 1 .. N - offered : \/ atomicAbort[w] /\ Offered(In(Span(n)), "refused")
                                        \/ ~atomicAbort[w] /\ Offered(In(Span(n)), "queued")
      BY <2>1 DEF EnqueueLocal
    <3>2. PICK batch \in SUBSET Tasks : batch = In(Span(n)) /\ \A t \in batch : fate[t] = "new"
      <4>1. \A t \in In(Span(n)) : t > offered /\ t \in Tasks
        BY <1>2, Spans DEF Tasks
      <4>. QED  BY <1>2, <4>1 DEF CarriedNew
    <3>3. CASE atomicAbort[w] /\ Offered(batch, "refused")
      <4>1. poolAbort
        BY <1>2, <3>3, AbortIsShutDown
      <4>. QED  BY <1>1, <3>2, <3>3, <4>1, RefuseSimulates
    <3>4. CASE ~atomicAbort[w] /\ Offered(batch, "queued")
      <4>1. ~Closed
        BY <1>2, <3>4, ClosedAborts
      <4>. QED  BY <1>1, <3>2, <3>4, <4>1, AcceptSimulates
    <3>. QED  BY <3>1, <3>2, <3>3, <3>4
  <2>2. CASE fate' = fate
    BY <1>1, <2>2 DEF Contract!evars
  <2>. QED  BY <1>7, <2>1, <2>2 DEF EnqueueFromTask
<1>. QED  BY <1>3, <1>4, <1>5, <1>6, <1>7 DEF WorkerStep

LEMMA CloserSimulates ==
  ASSUME IInv, ShutDown \/ CloserStep
  PROVE  [Contract!ENext]_(Contract!evars)
<1>1. CASE ShutDown
  <2>1. fate' = fate /\ poolAbort' = TRUE /\ Closed' = Closed
    BY <1>1 DEF ShutDown, tasks, Closed
  <2>2. Contract!Request
    BY <2>1 DEF Contract!Request
  <2>. QED  BY <2>2 DEF Contract!ENext
<1>2. CASE SetAtomicAbort \/ SetAbort \/ SetFound \/ ReleaseForAbort \/ Join
  <2>1. UNCHANGED <<fate, poolAbort, Closed>>
    BY <1>2 DEF SetAtomicAbort, SetAbort, SetFound, ReleaseForAbort, Join, tasks, aborts, Closed
  <2>. QED  BY <2>1 DEF Contract!evars
<1>3. CASE ClearQueues
  <2>1. PICK c \in Workers : c = closing
    BY <1>3 DEF IInv, CloserInOrder, ClearQueues
  <2>2. /\ CloserInOrder /\ QueuesApart /\ RunningApart
        /\ spc = "clear" /\ poolAbort /\ wpc[c] = "off" /\ poolAbort' = poolAbort
        /\ fate' = [t \in Tasks |-> IF t \in Has(c) THEN "destroyed" ELSE fate[t]]
        /\ spc' = IF c = W THEN "closed" ELSE "atomic"
    BY <1>3, <2>1 DEF IInv, CloserInOrder, ClearQueues, Has, aborts
  <2>3. \A t \in Tasks : t \in Has(c) => fate[t] = "queued"
    BY <2>2 DEF QueuesApart
  <2>4. CASE c # W
    <3>1. PICK batch \in SUBSET {t \in Tasks : fate[t] = "queued"} :
            fate' = [t \in Tasks |-> IF t \in batch THEN "destroyed" ELSE fate[t]]
      <4>1. fate' = [t \in Tasks |-> IF t \in Has(c) \cap Tasks THEN "destroyed" ELSE fate[t]]
        BY <2>2
      <4>. QED  BY <2>3, <4>1
    <3>2. Closed' = Closed
      BY <2>2, <2>4 DEF Closed
    <3>3. Contract!Destroy
      BY <2>2, <3>1, <3>2 DEF Contract!Destroy
    <3>. QED  BY <3>3 DEF Contract!ENext
  <2>5. CASE c = W
    <3>1. \A w \in Workers : w # c => w < closing
      BY <2>1, <2>5, PoolAssumption DEF Workers
    <3>2. \A w \in Workers : w # c => wpc[w] = "off" /\ Has(w) = {}
      BY <2>2, <3>1, Entered DEF CloserInOrder, Has
    <3>3. \A t \in Tasks : fate[t] # "running" /\ (fate[t] = "queued" <=> t \in Has(c))
      BY <2>2, <3>2 DEF QueuesApart, RunningApart, Running
    <3>4. fate' = [t \in Tasks |-> CASE fate[t] = "queued" -> "destroyed"
                                     [] fate[t] = "running" -> "executed"
                                     [] OTHER -> fate[t]]
      BY <2>2, <3>3
    <3>5. Closed' = TRUE
      BY <2>2, <2>5 DEF Closed
    <3>6. Contract!Close
      BY <2>2, <3>4, <3>5 DEF Contract!Close
    <3>. QED  BY <3>6 DEF Contract!ENext
  <2>. QED  BY <2>4, <2>5
<1>. QED  BY <1>1, <1>2, <1>3 DEF CloserStep

(* Every step of the pool, whoever makes it, is a step of the contract of  *)
(* an executor or none: a task is accepted, run and finished once, it is   *)
(* refused or destroyed only after the shutdown was requested, and when    *)
(* ShutDown has returned nothing is left and nothing comes any more.       *)
THEOREM PoolKeepsContract == Spec => KeepsContract
<1>1. Init => Contract!EInit
  BY DEF Init, Contract!EInit, Closed
<1>2. IInv /\ [Next]_vars => [Contract!ENext]_(Contract!evars)
  <2> SUFFICES ASSUME IInv, [Next]_vars PROVE [Contract!ENext]_(Contract!evars)
    OBVIOUS
  <2>1. CASE Quiet \/ UNCHANGED vars
    BY <2>1 DEF Quiet, vars, tasks, aborts, closer, Contract!evars, Closed
  <2>2. ASSUME NEW p \in Producers, Enqueue(p) \/ EnqueueNext(p) \/ EnqueueForeign(p) \/ Release(p)
        PROVE  [Contract!ENext]_(Contract!evars)
    BY <2>2, ProducerSimulates
  <2>3. ASSUME NEW w \in Workers, WorkerStep(w) \/ TimeOut(w) \/ EnqueueFromTask(w)
        PROVE  [Contract!ENext]_(Contract!evars)
    BY <2>3, WorkerSimulates
  <2>4. CASE ShutDown \/ CloserStep
    BY <2>4, CloserSimulates
  <2>. QED  BY <2>1, <2>2, <2>3, <2>4 DEF Next
<1>. QED  BY <1>1, <1>2, Invariance, PTL DEF Spec, KeepsContract
=============================================================================
