-------------------------- MODULE ReportingProofs --------------------------
(***************************************************************************)
(* Proofs about Reporting, for any goroutines, clients, errors and         *)
(* capacities.  The inductive invariant joins a client's channel, its two  *)
(* goroutines and its place in the hub's map; the bounds are kept by the   *)
(* clean-up of the error system and by sends that do not wait.  Who waits  *)
(* for a lock that is never given back waits for ever.                     *)
(***************************************************************************)
EXTENDS Reporting, TLAPS

\* What a client's reader is doing and its channel go together.
ClientInv ==
    /\ \A c \in Clients : reader[c] = "none" <=> channel[c] = "none"
    /\ \A c \in Clients : reader[c] = "registering" => channel[c] = "open"

\* The invariant in its three parts, none of which reads a variable of another
CallsOK ==
    /\ lock \in Goroutines \cup {NoOne}
    /\ pc \in [Goroutines -> {"idle", "logs", "writes", "sends", "warns"}]
    /\ line \in [Goroutines -> Errors \cup {Activity}]

ErrorsOK ==
    /\ known \in Seq(Errors) /\ Len(known) <= MaxErrors /\ IsInjective(known)
    /\ pending \in Seq(Errors) /\ Len(pending) <= PendingCap

HubOK ==
    /\ broadcast \in 0 .. BroadcastCap
    /\ clients \subseteq Clients
    /\ channel \in [Clients -> {"none", "open", "closed"}]
    /\ buffer \in [Clients -> 0 .. SendCap]
    /\ reader \in [Clients -> {"none", "registering", "reads", "answers", "leaves", "gone"}]
    /\ writer \in [Clients -> {"none", "runs", "ended"}]
    /\ crashed \in BOOLEAN
    /\ ClientInv /\ OnlyPongsCrash

ReportingInv == CallsOK /\ ErrorsOK /\ HubOK

-----------------------------------------------------------------------------
(* The error system's map                                                  *)

\* Two sequences, one after the other
LEMMA ConcatFacts ==
    ASSUME NEW s \in Seq(Errors), NEW t \in Seq(Errors)
    PROVE  /\ s \o t \in Seq(Errors)
           /\ Len(s \o t) = Len(s) + Len(t)
           /\ \A j \in 1 .. Len(s) : (s \o t)[j] = s[j]
           /\ \A j \in 1 .. Len(t) : (s \o t)[Len(s) + j] = t[j]
  OBVIOUS

\* Without one of its members a sequence has no repetition either.
LEMMA RemoveKeeps ==
    ASSUME NEW k \in Seq(Errors), IsInjective(k), NEW i \in 1 .. Len(k)
    PROVE  /\ RemoveAt(k, i) \in Seq(Errors)
           /\ Len(RemoveAt(k, i)) = Len(k) - 1
           /\ IsInjective(RemoveAt(k, i))
           /\ \A j \in 1 .. Len(RemoveAt(k, i)) : RemoveAt(k, i)[j] # k[i]
<1> DEFINE a == SubSeq(k, 1, i - 1)
           b == SubSeq(k, i + 1, Len(k))
           r == a \o b
<1>a. Len(k) \in Nat /\ i \in Nat /\ RemoveAt(k, i) = r
  BY DEF RemoveAt
<1>b. a \in Seq(Errors) /\ Len(a) = i - 1 /\ \A j \in 1 .. i - 1 : a[j] = k[j]
  BY <1>a
<1>c. b \in Seq(Errors) /\ Len(b) = Len(k) - i /\ \A j \in 1 .. Len(k) - i : b[j] = k[i + j]
  BY <1>a
<1> HIDE DEF a, b
<1>1. r \in Seq(Errors) /\ Len(r) = Len(k) - 1
  BY <1>a, <1>b, <1>c, ConcatFacts
<1>d. ASSUME NEW j \in 1 .. i - 1
      PROVE  r[j] = k[j]
  BY <1>a, <1>b, <1>c, ConcatFacts
<1>e. ASSUME NEW j \in i .. Len(k) - 1
      PROVE  r[j] = k[j + 1]
  <2>1. j - (i - 1) \in 1 .. Len(k) - i /\ j = Len(a) + (j - (i - 1))
    BY <1>a, <1>b
  <2>2. r[j] = b[j - (i - 1)]
    BY <1>b, <1>c, <2>1, ConcatFacts
  <2> QED
    BY <1>a, <1>c, <2>1, <2>2
<1> HIDE DEF r
<1>2. \A j \in 1 .. Len(k) - 1 : r[j] = IF j < i THEN k[j] ELSE k[j + 1]
  BY <1>a, <1>d, <1>e
<1>3. DOMAIN r = 1 .. Len(k) - 1 /\ DOMAIN k = 1 .. Len(k)
  BY <1>a, <1>1
<1> HIDE DEF r
<1>4. IsInjective(r)
  <2> SUFFICES ASSUME NEW x \in 1 .. Len(k) - 1, NEW y \in 1 .. Len(k) - 1, r[x] = r[y]
               PROVE  x = y
    BY <1>3 DEF IsInjective
  <2> DEFINE p == IF x < i THEN x ELSE x + 1
             q == IF y < i THEN y ELSE y + 1
  <2>1. p \in 1 .. Len(k) /\ q \in 1 .. Len(k) /\ r[x] = k[p] /\ r[y] = k[q]
    BY <1>a, <1>2
  <2>2. p = q
    BY <1>3, <2>1 DEF IsInjective
  <2> QED
    BY <1>a, <2>2
<1>5. \A j \in 1 .. Len(k) - 1 : r[j] # k[i]
  BY <1>a, <1>2, <1>3 DEF IsInjective
<1> QED
  BY <1>a, <1>1, <1>4, <1>5 DEF r

\* Nor has the rest after the oldest are forgotten.
LEMMA ForgetKeeps ==
    ASSUME NEW k \in Seq(Errors), IsInjective(k), NEW n \in 1 .. Len(k)
    PROVE  /\ SubSeq(k, n + 1, Len(k)) \in Seq(Errors)
           /\ Len(SubSeq(k, n + 1, Len(k))) = Len(k) - n
           /\ IsInjective(SubSeq(k, n + 1, Len(k)))
<1> DEFINE r == SubSeq(k, n + 1, Len(k))
<1>1. r \in Seq(Errors) /\ Len(r) = Len(k) - n
  OBVIOUS
<1>2. \A j \in 1 .. Len(k) - n : r[j] = k[j + n]
  OBVIOUS
<1>3. DOMAIN r = 1 .. Len(k) - n /\ DOMAIN k = 1 .. Len(k)
  BY <1>1
<1> HIDE DEF r
<1>4. IsInjective(r)
  BY <1>2, <1>3 DEF IsInjective
<1> QED
  BY <1>1, <1>4 DEF r

\* The clean-up forgets one error at least.
LEMMA CleanedUpKeeps ==
    ASSUME NEW k \in Seq(Errors), IsInjective(k), Len(k) > 0
    PROVE  /\ CleanedUp(k) \in Seq(Errors) /\ IsInjective(CleanedUp(k))
           /\ Len(CleanedUp(k)) < Len(k)
<1> DEFINE n == IF Len(k) < 10 THEN 1 ELSE Len(k) \div 10
<1>1. n \in 1 .. Len(k)
  OBVIOUS
<1>2. CleanedUp(k) = SubSeq(k, n + 1, Len(k))
  BY DEF CleanedUp
<1> HIDE DEF n
<1> QED
  BY <1>1, <1>2, ForgetKeeps

\* An error seen again changes its place, a new one makes the map longer by one.
LEMMA SeenKeeps ==
    ASSUME known \in Seq(Errors), IsInjective(known), NEW e \in Errors
    PROVE  /\ Seen(e) \in Seq(Errors) /\ IsInjective(Seen(e)) /\ Len(Seen(e)) > 0
           /\ e \in ToSet(known) => Len(Seen(e)) = Len(known)
           /\ e \notin ToSet(known) => Len(Seen(e)) = Len(known) + 1
<1>1. ASSUME NEW r \in Seq(Errors), IsInjective(r), \A j \in 1 .. Len(r) : r[j] # e
      PROVE  /\ Append(r, e) \in Seq(Errors) /\ IsInjective(Append(r, e))
             /\ Len(Append(r, e)) = Len(r) + 1
  <2> DEFINE a == Append(r, e)
  <2>1. a \in Seq(Errors) /\ Len(a) = Len(r) + 1
    OBVIOUS
  <2>2. \A j \in 1 .. Len(r) + 1 : a[j] = IF j <= Len(r) THEN r[j] ELSE e
    OBVIOUS
  <2>3. DOMAIN a = 1 .. Len(r) + 1 /\ DOMAIN r = 1 .. Len(r)
    BY <2>1
  <2> HIDE DEF a
  <2>4. IsInjective(a)
    BY <1>1, <2>2, <2>3 DEF IsInjective
  <2> QED
    BY <2>1, <2>4 DEF a
<1>2. CASE e \in ToSet(known)
  <2> DEFINE i == CHOOSE i \in DOMAIN known : known[i] = e
             r == RemoveAt(known, i)
  <2>1. \E j \in DOMAIN known : known[j] = e
    BY <1>2 DEF ToSet
  <2>2. i \in DOMAIN known /\ known[i] = e
    BY <2>1
  <2>3. Seen(e) = Append(r, e)
    BY <1>2 DEF Seen
  <2> HIDE DEF i
  <2>4. i \in 1 .. Len(known)
    BY <2>2
  <2>5. /\ r \in Seq(Errors) /\ Len(r) = Len(known) - 1 /\ IsInjective(r)
        /\ \A j \in 1 .. Len(r) : r[j] # e
    BY <2>2, <2>4, RemoveKeeps
  <2> HIDE DEF r
  <2>6. /\ Append(r, e) \in Seq(Errors) /\ IsInjective(Append(r, e))
        /\ Len(Append(r, e)) = Len(r) + 1
    BY <1>1, <2>5
  <2>7. Len(known) \in Nat /\ Len(known) > 0
    BY <2>4
  <2> QED
    BY <1>2, <2>3, <2>5, <2>6, <2>7
<1>3. CASE e \notin ToSet(known)
  <2>1. Seen(e) = Append(known, e)
    BY <1>3 DEF Seen
  <2>2. \A j \in 1 .. Len(known) : known[j] # e
    BY <1>3 DEF ToSet
  <2>3. /\ Append(known, e) \in Seq(Errors) /\ IsInjective(Append(known, e))
        /\ Len(Append(known, e)) = Len(known) + 1
    BY <1>1, <2>2
  <2> QED
    BY <1>3, <2>1, <2>3
<1> QED
  BY <1>2, <1>3

\* Reporting an error keeps the map's bound and the channel's.
LEMMA LogErrorKeeps ==
    ASSUME ErrorsOK, NEW e \in Errors, LogError(e)
    PROVE  ErrorsOK'
<1>1. MaxErrors \in Nat /\ PendingCap \in Nat
  BY ReportingAssumption
<1>2. known' \in Seq(Errors) /\ IsInjective(known') /\ Len(known') <= MaxErrors
  <2> DEFINE s == Seen(e)
  <2>1. /\ s \in Seq(Errors) /\ IsInjective(s) /\ Len(s) > 0
        /\ e \in ToSet(known) => Len(s) = Len(known)
        /\ e \notin ToSet(known) => Len(s) = Len(known) + 1
    BY SeenKeeps DEF ErrorsOK
  <2>2. known' = IF Len(s) > MaxErrors /\ e \notin ToSet(known) THEN CleanedUp(s) ELSE s
    BY DEF LogError
  <2> HIDE DEF s
  <2>3. CASE Len(s) > MaxErrors /\ e \notin ToSet(known)
    <3>1. CleanedUp(s) \in Seq(Errors) /\ IsInjective(CleanedUp(s)) /\ Len(CleanedUp(s)) < Len(s)
      BY <2>1, CleanedUpKeeps
    <3>2. known' = CleanedUp(s)
      BY <2>2, <2>3
    <3>3. Len(CleanedUp(s)) \in Nat /\ Len(known) \in Nat
      BY <3>1 DEF ErrorsOK
    <3> QED
      BY <1>1, <2>1, <2>3, <3>1, <3>2, <3>3 DEF ErrorsOK
  <2>4. CASE ~(Len(s) > MaxErrors /\ e \notin ToSet(known))
    <3>1. Len(s) \in Nat /\ Len(known) \in Nat
      BY <2>1 DEF ErrorsOK
    <3> QED
      BY <1>1, <2>1, <2>2, <2>4, <3>1 DEF ErrorsOK
  <2> QED
    BY <2>3, <2>4
<1>3. pending' \in Seq(Errors) /\ Len(pending') <= PendingCap
  <2>1. (pending' = Append(pending, e) /\ Len(pending) < PendingCap) \/ pending' = pending
    BY DEF LogError
  <2> QED
    BY <1>1, <2>1 DEF ErrorsOK
<1> QED
  BY <1>2, <1>3 DEF ErrorsOK

-----------------------------------------------------------------------------
(* The steps                                                               *)

LEMMA CallsFrame ==
    ASSUME CallsOK, UNCHANGED calls
    PROVE  CallsOK'
  BY DEF CallsOK, calls

LEMMA ErrorsFrame ==
    ASSUME ErrorsOK, UNCHANGED errors
    PROVE  ErrorsOK'
  BY DEF ErrorsOK, errors

LEMMA HubFrame ==
    ASSUME HubOK, UNCHANGED <<clients, conns, crashed>>, broadcast' \in 0 .. BroadcastCap
    PROVE  HubOK'
  BY DEF HubOK, conns, ClientInv, OnlyPongsCrash

\* A goroutine's own steps
LEMMA CallsStep ==
    ASSUME CallsOK, NEW g \in Goroutines,
           lock' \in {lock, g, NoOne},
           \E to \in {"idle", "logs", "writes", "sends", "warns"} : pc' = [pc EXCEPT ![g] = to],
           \/ line' = line
           \/ \E l \in Errors \cup {Activity} : line' = [line EXCEPT ![g] = l]
    PROVE  CallsOK'
  BY DEF CallsOK

LEMMA SpeakingKeeps ==
    ASSUME ReportingInv, NEW g \in Goroutines,
           TakeLock(g) \/ Write(g) \/ BroadcastUpdate(g)
    PROVE  ReportingInv'
<1>1. CallsOK /\ ErrorsOK /\ HubOK
  BY DEF ReportingInv
<1>2. CASE TakeLock(g)
  <2>1. CallsOK'
    <3>1. line[g] \in Errors \cup {Activity}
      BY <1>1 DEF CallsOK
    <3> QED
      BY <1>1, <1>2, <3>1, CallsStep DEF TakeLock, Goes
  <2>2. ErrorsOK' /\ HubOK'
    BY <1>1, <1>2, ErrorsFrame, HubFrame DEF TakeLock, HubOK
  <2> QED
    BY <2>1, <2>2 DEF ReportingInv
<1>3. CASE Write(g)
  <2>1. CallsOK'
    BY <1>1, <1>3, CallsStep DEF Write, Goes, Returns
  <2>2. ErrorsOK'
    BY <1>1, <1>3, ErrorsFrame, LogErrorKeeps DEF Write
  <2>3. HubOK'
    BY <1>1, <1>3, HubFrame DEF Write, HubOK
  <2> QED
    BY <2>1, <2>2, <2>3 DEF ReportingInv
<1>4. CASE BroadcastUpdate(g)
  <2>1. CallsOK'
    BY <1>1, <1>4, CallsStep DEF BroadcastUpdate, Goes, Returns
  <2>2. ErrorsOK'
    BY <1>1, <1>4, ErrorsFrame DEF BroadcastUpdate
  <2>3. broadcast' \in 0 .. BroadcastCap
    BY <1>1, <1>4, ReportingAssumption DEF BroadcastUpdate, HubOK
  <2>4. HubOK'
    BY <1>1, <1>4, <2>3, HubFrame DEF BroadcastUpdate
  <2> QED
    BY <2>1, <2>2, <2>4 DEF ReportingInv
<1> QED
  BY <1>2, <1>3, <1>4

LEMMA CallingKeeps ==
    ASSUME ReportingInv, NEW g \in Loggers, LogLine(g) \/ Report(g) \/ Update(g)
    PROVE  ReportingInv'
<1>1. CallsOK /\ ErrorsOK /\ HubOK /\ g \in Goroutines
  BY DEF ReportingInv, Goroutines
<1>2. CASE LogLine(g)
  <2>1. CallsOK'
    BY <1>1, <1>2, CallsStep DEF LogLine, Logs, Goes
  <2>2. ErrorsOK' /\ HubOK'
    BY <1>1, <1>2, ErrorsFrame, HubFrame DEF LogLine, HubOK
  <2> QED
    BY <2>1, <2>2 DEF ReportingInv
<1>3. CASE Report(g)
  <2>1. ErrorsOK'
    BY <1>1, <1>3, LogErrorKeeps DEF Report
  <2>2. CallsOK' /\ HubOK'
    BY <1>1, <1>3, CallsFrame, HubFrame DEF Report, HubOK
  <2> QED
    BY <2>1, <2>2 DEF ReportingInv
<1>4. CASE Update(g)
  <2>1. CallsOK'
    BY <1>1, <1>4, CallsStep DEF Update, Goes
  <2>2. ErrorsOK' /\ HubOK'
    BY <1>1, <1>4, ErrorsFrame, HubFrame DEF Update, HubOK
  <2> QED
    BY <2>1, <2>2 DEF ReportingInv
<1> QED
  BY <1>2, <1>3, <1>4

LEMMA ErrorSystemKeeps ==
    ASSUME ReportingInv, BackgroundMaintenance \/ Forward
    PROVE  ReportingInv'
<1>1. CallsOK /\ ErrorsOK /\ HubOK /\ MaxErrors \in Nat
  BY ReportingAssumption DEF ReportingInv
<1>2. CASE BackgroundMaintenance
  <2>1. Len(known) \in Nat /\ Len(known) > 0
    BY <1>1, <1>2 DEF BackgroundMaintenance, ErrorsOK
  <2>2. /\ CleanedUp(known) \in Seq(Errors) /\ IsInjective(CleanedUp(known))
        /\ Len(CleanedUp(known)) < Len(known)
    BY <1>1, <2>1, CleanedUpKeeps DEF ErrorsOK
  <2>3. ErrorsOK'
    BY <1>1, <1>2, <2>1, <2>2 DEF BackgroundMaintenance, ErrorsOK
  <2>4. CallsOK' /\ HubOK'
    BY <1>1, <1>2, CallsFrame, HubFrame DEF BackgroundMaintenance, HubOK
  <2> QED
    BY <2>3, <2>4 DEF ReportingInv
<1>3. CASE Forward
  <2>1. CallsOK'
    BY <1>1, <1>3, CallsStep DEF Forward, Goes, Goroutines
  <2>2. ErrorsOK'
    BY <1>1, <1>3, ReportingAssumption DEF Forward, ErrorsOK
  <2>3. HubOK'
    BY <1>1, <1>3, HubFrame DEF Forward, HubOK
  <2> QED
    BY <2>1, <2>2, <2>3 DEF ReportingInv
<1> QED
  BY <1>2, <1>3

LEMMA DeliverKeeps ==
    ASSUME ReportingInv, Deliver
    PROVE  ReportingInv'
<1>1. CallsOK /\ ErrorsOK /\ HubOK
  BY DEF ReportingInv
<1> DEFINE full == {c \in clients : buffer[c] = SendCap}
<1>2. /\ broadcast > 0 /\ broadcast' = broadcast - 1
      /\ clients' = clients \ full
      /\ channel' = [c \in Clients |-> IF c \in full THEN "closed" ELSE channel[c]]
      /\ buffer' = [c \in Clients |-> IF c \in clients \ full THEN buffer[c] + 1 ELSE buffer[c]]
      /\ crashed' = (\E c \in clients : channel[c] = "closed")
      /\ UNCHANGED <<calls, errors, reader, writer>>
  BY DEF Deliver
<1>3. crashed' = FALSE
  BY <1>1, <1>2 DEF HubOK, OnlyPongsCrash
<1>4. buffer' \in [Clients -> 0 .. SendCap]
  <2>1. \A c \in Clients : buffer[c] \in 0 .. SendCap /\ SendCap \in Nat
    BY <1>1, ReportingAssumption DEF HubOK
  <2> QED
    BY <1>2, <2>1
<1>5. channel' \in [Clients -> {"none", "open", "closed"}] /\ clients' \subseteq Clients
      /\ broadcast' \in 0 .. BroadcastCap
  BY <1>1, <1>2, ReportingAssumption DEF HubOK
<1>6. ClientInv' /\ OnlyPongsCrash'
  <2>1. \A c \in full : channel[c] = "open" /\ reader[c] # "registering"
    BY <1>1 DEF HubOK, OnlyPongsCrash
  <2>2. \A c \in Clients : channel'[c] = IF c \in full THEN "closed" ELSE channel[c]
    BY <1>2
  <2>3. full \subseteq clients /\ clients' = clients \ full /\ reader' = reader
    BY <1>2
  <2> HIDE DEF full
  <2>4. ClientInv'
    BY <1>1, <2>1, <2>2, <2>3 DEF HubOK, ClientInv
  <2>5. clients' = {c \in Clients : channel'[c] = "open" /\ reader'[c] # "registering"}
    BY <1>1, <2>2, <2>3 DEF HubOK, OnlyPongsCrash
  <2> QED
    BY <1>3, <2>4, <2>5 DEF OnlyPongsCrash
<1>7. HubOK'
  BY <1>1, <1>2, <1>3, <1>4, <1>5, <1>6 DEF HubOK
<1> QED
  BY <1>1, <1>2, <1>7, CallsFrame, ErrorsFrame DEF ReportingInv

LEMMA RegistrationKeeps ==
    ASSUME ReportingInv, ~crashed, NEW c \in Clients, Register(c) \/ Unregister(c)
    PROVE  ReportingInv'
<1>1. CallsOK /\ ErrorsOK /\ HubOK /\ Hub \in Goroutines
  BY DEF ReportingInv, Goroutines
<1>2. CallsOK'
  BY <1>1, CallsStep, CallsFrame DEF Register, Unregister, Logs, Goes
<1>3. ErrorsOK'
  BY <1>1, ErrorsFrame DEF Register, Unregister
<1>4. HubOK'
  <2>1. CASE Register(c)
    BY <1>1, <2>1 DEF Register, HubOK, ClientInv, OnlyPongsCrash
  <2>2. CASE Unregister(c)
    BY <1>1, <2>2 DEF Unregister, HubOK, ClientInv, OnlyPongsCrash
  <2> QED
    BY <2>1, <2>2
<1> QED
  BY <1>2, <1>3, <1>4 DEF ReportingInv

LEMMA ClientKeeps ==
    ASSUME ReportingInv, ~crashed, NEW c \in Clients, Client(c)
    PROVE  ReportingInv'
<1>1. CallsOK /\ ErrorsOK /\ HubOK /\ SendCap \in Nat
  BY ReportingAssumption DEF ReportingInv
<1>2. CallsOK' /\ ErrorsOK'
  BY <1>1, CallsFrame, ErrorsFrame DEF Client, Connect, Ping, Pong, ReadFails, WritePump
<1>3. HubOK'
  <2>1. CASE Connect(c)
    BY <1>1, <2>1 DEF Connect, HubOK, ClientInv, OnlyPongsCrash
  <2>2. CASE Ping(c)
    BY <1>1, <2>2 DEF Ping, HubOK, ClientInv, OnlyPongsCrash
  <2>3. CASE Pong(c)
    <3>1. CASE channel[c] = "closed" /\ crashed' = TRUE /\ UNCHANGED <<reader, buffer>>
      BY <1>1, <2>3, <3>1 DEF Pong, HubOK, ClientInv, OnlyPongsCrash
    <3>2. CASE /\ channel[c] = "open" /\ buffer[c] < SendCap
               /\ buffer' = [buffer EXCEPT ![c] = @ + 1]
               /\ reader' = [reader EXCEPT ![c] = "reads"]
               /\ UNCHANGED crashed
      <4>1. buffer' \in [Clients -> 0 .. SendCap]
        <5>1. buffer[c] \in 0 .. SendCap
          BY <1>1 DEF HubOK
        <5>2. buffer[c] + 1 \in 0 .. SendCap
          BY <1>1, <3>2, <5>1
        <5> QED
          BY <1>1, <3>2, <5>2 DEF HubOK
      <4>2. ClientInv' /\ OnlyPongsCrash'
        BY <1>1, <2>3, <3>2 DEF Pong, HubOK, ClientInv, OnlyPongsCrash
      <4> QED
        BY <1>1, <2>3, <3>2, <4>1, <4>2 DEF Pong, HubOK
    <3> QED
      BY <2>3, <3>1, <3>2 DEF Pong
  <2>4. CASE ReadFails(c)
    BY <1>1, <2>4 DEF ReadFails, HubOK, ClientInv, OnlyPongsCrash
  <2>5. CASE WritePump(c)
    BY <1>1, <2>5 DEF WritePump, HubOK, ClientInv, OnlyPongsCrash
  <2> QED
    BY <2>1, <2>2, <2>3, <2>4, <2>5 DEF Client
<1> QED
  BY <1>2, <1>3 DEF ReportingInv

LEMMA ReportingInit == Init => ReportingInv
<1> SUFFICES ASSUME Init PROVE ReportingInv
  OBVIOUS
<1>1. CallsOK
  BY ReportingAssumption DEF Init, CallsOK
<1>3. HubOK
  <2>1. BroadcastCap \in Nat /\ SendCap \in Nat
    BY ReportingAssumption
  <2> QED
    <3>1. ClientInv /\ OnlyPongsCrash
      BY DEF Init, ClientInv, OnlyPongsCrash
    <3>2. 0 \in 0 .. BroadcastCap /\ 0 \in 0 .. SendCap
      BY <2>1
    <3> QED
      BY <3>1, <3>2 DEF Init, HubOK
<1>2. ErrorsOK
  BY ReportingAssumption DEF Init, ErrorsOK, IsInjective
<1> QED
  BY <1>1, <1>2, <1>3 DEF ReportingInv

\* The invariant holds in every behaviour, whatever is fair.
LEMMA ReportingInvariant == Spec => []ReportingInv
<1>1. ASSUME ReportingInv, UNCHANGED vars PROVE ReportingInv'
  <2>1. CallsOK /\ ErrorsOK /\ HubOK
    BY <1>1 DEF ReportingInv
  <2> QED
    BY <1>1, <2>1, CallsFrame, ErrorsFrame, HubFrame DEF vars, HubOK, ReportingInv
<1>2. ReportingInv /\ [Next]_vars => ReportingInv'
  BY <1>1, SpeakingKeeps, CallingKeeps, ErrorSystemKeeps, DeliverKeeps, RegistrationKeeps,
     ClientKeeps DEF Next, Speaks, HubSteps
<1> QED
  BY ReportingInit, <1>2, PTL DEF Spec

-----------------------------------------------------------------------------
\* The error system keeps each error once and no more than its bound, and no channel
\* holds more than its capacity (unified_error_system.go: maxErrors; websocket.go:59).
THEOREM ReportingTyped == Spec => []TypeOK
<1>1. ReportingInv => TypeOK
  BY DEF ReportingInv, CallsOK, ErrorsOK, HubOK, TypeOK
<1> QED
  BY ReportingInvariant, <1>1, PTL

\* The hub never sends on nor closes a closed channel: only the answer to a ping can end
\* the process (websocket.go:158).
THEOREM HubNeverCrashes == Spec => []OnlyPongsCrash
<1>1. ReportingInv => OnlyPongsCrash
  BY DEF ReportingInv, HubOK
<1> QED
  BY ReportingInvariant, <1>1, PTL

-----------------------------------------------------------------------------
\* A step leaves a jam as it is.
LEMMA JamStep ==
    ASSUME ReportingInv, [Next]_vars, NEW j \in Goroutines, lock = j, pc[j] = "warns"
    PROVE  /\ lock' = j
           /\ \A g \in Goroutines : pc[g] \in {"logs", "warns"} => pc'[g] = pc[g]
           /\ pc[Hub] \in {"logs", "warns"} => clients' = clients /\ broadcast' >= broadcast
<1>0. /\ pc \in [Goroutines -> {"idle", "logs", "writes", "sends", "warns"}]
      /\ broadcast \in Nat /\ j # NoOne /\ Hub \in Goroutines
  <2>1. broadcast \in 0 .. BroadcastCap /\ BroadcastCap \in Nat
    BY ReportingAssumption DEF ReportingInv, HubOK
  <2> QED
    BY <2>1, ReportingAssumption DEF ReportingInv, CallsOK, Goroutines
<1>1. ASSUME NEW g \in Goroutines, pc[g] \notin {"logs", "warns"}, NEW to,
             pc' = [pc EXCEPT ![g] = to]
      PROVE  \A h \in Goroutines : pc[h] \in {"logs", "warns"} => pc'[h] = pc[h]
  BY <1>0, <1>1
<1>2. ASSUME NEW g \in Goroutines, TakeLock(g)
      PROVE  FALSE
  BY <1>0, <1>2 DEF TakeLock
<1>3. ASSUME NEW g \in Goroutines, Speaks(g)
      PROVE  /\ lock' = j /\ clients' = clients /\ broadcast' >= broadcast
             /\ \A h \in Goroutines : pc[h] \in {"logs", "warns"} => pc'[h] = pc[h]
  <2>1. pc[g] \in {"writes", "sends"} /\ \E to : pc' = [pc EXCEPT ![g] = to]
    BY <1>3 DEF Speaks, Write, BroadcastUpdate, Returns, Goes
  <2>2. g # j
    BY <2>1
  <2>3. lock' = j
    BY <1>3, <2>2 DEF Speaks, Write, BroadcastUpdate, Returns
  <2>4. clients' = clients /\ broadcast' >= broadcast
    BY <1>0, <1>3 DEF Speaks, Write, BroadcastUpdate
  <2> QED
    BY <1>1, <2>1, <2>3, <2>4
<1>4. ASSUME NEW g \in Goroutines, LogLine(g) \/ Report(g) \/ Update(g)
      PROVE  /\ lock' = j /\ clients' = clients /\ broadcast' = broadcast
             /\ \A h \in Goroutines : pc[h] \in {"logs", "warns"} => pc'[h] = pc[h]
  <2>1. pc[g] = "idle" /\ (pc' = pc \/ \E to : pc' = [pc EXCEPT ![g] = to])
    BY <1>4 DEF LogLine, Report, Update, Logs, Goes, calls
  <2>2. lock' = j /\ clients' = clients /\ broadcast' = broadcast
    BY <1>4 DEF LogLine, Report, Update, Logs, calls
  <2> QED
    BY <1>1, <2>1, <2>2
<1>5. ASSUME Forward
      PROVE  /\ lock' = j /\ clients' = clients /\ broadcast' = broadcast
             /\ \A h \in Goroutines : pc[h] \in {"logs", "warns"} => pc'[h] = pc[h]
  <2>1. Forwarder \in Goroutines
    BY DEF Goroutines
  <2> QED
    BY <1>1, <1>5, <2>1 DEF Forward, Goes
<1>6. ASSUME HubSteps
      PROVE  /\ lock' = j /\ pc[Hub] = "idle"
             /\ \A h \in Goroutines : pc[h] \in {"logs", "warns"} => pc'[h] = pc[h]
  <2>1. pc[Hub] = "idle" /\ lock' = j /\ (pc' = pc \/ \E to : pc' = [pc EXCEPT ![Hub] = to])
    BY <1>6 DEF HubSteps, Deliver, Register, Unregister, Logs, Goes, calls
  <2> QED
    BY <1>0, <1>1, <2>1
<1>7. ASSUME NEW c \in Clients, Client(c)
      PROVE  UNCHANGED <<calls, clients, broadcast>>
  BY <1>7 DEF Client, Connect, Ping, Pong, ReadFails, WritePump
<1>8. ASSUME BackgroundMaintenance \/ UNCHANGED vars
      PROVE  UNCHANGED <<calls, clients, broadcast>>
  BY <1>8 DEF BackgroundMaintenance, vars
<1>9. ASSUME UNCHANGED <<calls, clients, broadcast>>
      PROVE  /\ lock' = j /\ clients' = clients /\ broadcast' >= broadcast
             /\ \A h \in Goroutines : pc[h] \in {"logs", "warns"} => pc'[h] = pc[h]
  BY <1>0, <1>9 DEF calls
<1>10. Loggers \subseteq Goroutines
  BY DEF Goroutines
<1> QED
  BY <1>0, <1>2, <1>3, <1>4, <1>5, <1>6, <1>7, <1>8, <1>9, <1>10 DEF Next

\* The exception of the three liveness properties has no end, for any goroutines, clients
\* and capacities: the logger's lock is not given back, whoever waits for it waits for
\* ever, and with the hub among them the dashboard stands still.
THEOREM JamsHaveNoEnd == Spec => JamsForGood
<1>1. ReportingInv /\ [Next]_vars =>
         [Jammed =>
            /\ Jammed' /\ UNCHANGED lock
            /\ \A g \in Goroutines : pc[g] \in {"logs", "warns"} => pc'[g] = pc[g]
            /\ pc[Hub] \in {"logs", "warns"} => clients' = clients /\ broadcast' >= broadcast]_vars
  BY JamStep DEF Jammed
<1> QED
  BY <1>1, ReportingInvariant, PTL DEF Spec, JamsForGood
=============================================================================
