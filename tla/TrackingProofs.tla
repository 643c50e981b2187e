--------------------------- MODULE TrackingProofs ----------------------------
(***************************************************************************)
(* TimesKept, OwnFixesOnly, TrafficForward and LeftOpen of Tracking, for    *)
(* all pilots, devices, clocks, tolerances and orders of events; and        *)
(* FilesSplit and StatsMatchFiles of TrackSessions, for all tracks.         *)
(***************************************************************************)
EXTENDS Tracking, TrackSessions, FiniteSetTheorems, SequenceTheorems, TLAPS

------------------------------------------------------------------------------
(* The time that fixReceived gives a fix *)

(* A time is a whole number of days and a time of day. *)
LEMMA DivMod ==
  ASSUME NEW t \in Int
  PROVE  TimeOfDay(t) \in 0 .. Day - 1 /\ \E q \in Int : t = (Day * q) + TimeOfDay(t)
  <1>1. t % Day \in 0 .. Day - 1
    BY DayAssumption, SMT
  <1>2. t \div Day \in Int /\ t = (Day * (t \div Day)) + (t % Day)
    BY DayAssumption, SMT
  <1>3. QED
    BY <1>1, <1>2 DEF TimeOfDay

(* Two multiples of a day less than a day apart are the same one. *)
LEMMA Multiples ==
  ASSUME NEW p \in Int, NEW q \in Int, NEW n \in Int, n = Day * p - Day * q, n < Day, -Day < n
  PROVE  p = q
  <1>1. CASE p >= q + 1
    <2>1. PICK k \in Nat : p = q + 1 + k
      BY <1>1
    <2>2. Day * p = (Day * q) + Day + (Day * k)
      BY <2>1, DayAssumption
    <2>3. Day * k >= 0
      BY DayAssumption
    <2>4. QED
      BY <2>2, <2>3, DayAssumption
  <1>2. CASE q >= p + 1
    <2>1. PICK k \in Nat : q = p + 1 + k
      BY <1>2
    <2>2. Day * q = (Day * p) + Day + (Day * k)
      BY <2>1, DayAssumption
    <2>3. Day * k >= 0
      BY DayAssumption
    <2>4. QED
      BY <2>2, <2>3, DayAssumption
  <1>3. QED
    BY <1>1, <1>2

(* Two times less than a day and a tolerance apart are on the same day or   *)
(* on neighbouring ones.                                                    *)
LEMMA Neighbours ==
  ASSUME NEW p \in Int, NEW q \in Int, NEW n \in Int, n = Day * p - Day * q,
         n < 2 * Day, -(2 * Day) < n
  PROVE  n \in {-Day, 0, Day}
  <1>1. CASE n >= Day
    <2>1. n - Day = Day * p - Day * (q + 1) /\ n - Day < Day /\ -Day < n - Day
      BY <1>1, DayAssumption
    <2>2. p = q + 1
      BY <2>1, Multiples, DayAssumption
    <2>3. QED
      BY <2>2, DayAssumption
  <1>2. CASE n <= -Day
    <2>1. n + Day = Day * (p + 1) - Day * q /\ n + Day < Day /\ -Day < n + Day
      BY <1>2, DayAssumption
    <2>2. p + 1 = q
      BY <2>1, Multiples, DayAssumption
    <2>3. QED
      BY <2>2, DayAssumption
  <1>3. CASE n < Day /\ -Day < n
    <2>1. p = q
      BY <1>3, Multiples
    <2>2. QED
      BY <2>1, DayAssumption
  <1>4. QED
    BY <1>1, <1>2, <1>3, DayAssumption

(* The time that is given to a fix of a device that is little ahead and not *)
(* late is the device's, unless midnight lies between the two clocks and    *)
(* the device is already past it; whatever the time of day, the time given  *)
(* is near the clock of the server.                                         *)
LEMMA FixTimeKept ==
  ASSUME NEW t \in Int, NEW stamp \in Int
  PROVE  LET time == FixTime(t, TimeOfDay(stamp)) IN
         /\ stamp \in (t - Late + 1) .. t => time = stamp
         /\ stamp \in (t - Late + 1) .. (t + Early - 1) =>
              time - stamp \in (1 - Early) .. (Early - 1)
         /\ time \in (t - Late - (Day - Evening) + 1) .. (t + Early - 1)
  <1> DEFINE s == TimeOfDay(t)
             tod == TimeOfDay(stamp)
             time == FixTime(t, tod)
  <1>1. s \in 0 .. Day - 1 /\ tod \in 0 .. Day - 1
    BY DivMod
  <1>2. PICK a \in Int : t = (Day * a) + s
    BY DivMod
  <1>3. PICK b \in Int : stamp = (Day * b) + tod
    BY DivMod
  <1> DEFINE n == Day * a - Day * b
  <1>4. n \in Int /\ Day * a \in Int /\ t - stamp = n + s - tod /\ Midnight(t) = t - s
    <2>1. Day * a \in Int /\ Day * b \in Int
      BY DayAssumption
    <2>2. Midnight(t) = t - s
      BY DEF Midnight
    <2> HIDE DEF s, tod
    <2> QED BY <1>1, <1>2, <1>3, <2>1, <2>2
  <1>5. time = IF s - Late < tod /\ tod < s + Early THEN t - s + tod
               ELSE IF s < Late /\ tod > Evening THEN t - s + tod - Day ELSE t
    BY <1>4 DEF FixTime
  <1>6. time \in (t - Late - (Day - Evening) + 1) .. (t + Early - 1)
    <2> HIDE DEF s, tod, time
    <2> QED BY <1>1, <1>5, DayAssumption, TimesAssumption
  <1>7. ASSUME stamp \in (t - Late + 1) .. (t + Early - 1)
        PROVE  /\ n \in {-Day, 0, Day}
               /\ time = IF n = -Day THEN t ELSE stamp
    <2>1. n < 2 * Day /\ -(2 * Day) < n
      <3> HIDE DEF s, tod, n
      <3> QED BY <1>1, <1>4, <1>7, DayAssumption, TimesAssumption
    <2>2. n \in {-Day, 0, Day}
      <3> HIDE DEF s, tod
      <3> QED BY <2>1, <1>4, Neighbours
    <2> HIDE DEF s, tod, time, n
    <2>3. CASE n = -Day
      BY <2>3, <1>1, <1>4, <1>5, <1>7, DayAssumption, TimesAssumption
    <2>4. CASE n = 0
      BY <2>4, <1>1, <1>4, <1>5, <1>7, DayAssumption, TimesAssumption
    <2>5. CASE n = Day
      BY <2>5, <1>1, <1>4, <1>5, <1>7, DayAssumption, TimesAssumption
    <2>6. n # -Day \/ Day # 0
      BY DayAssumption
    <2> QED BY <2>2, <2>3, <2>4, <2>5, DayAssumption
  <1>8. ASSUME stamp \in (t - Late + 1) .. (t + Early - 1), n = -Day
        PROVE  t < stamp
    <2> HIDE DEF s, tod, time, n
    <2> QED BY <1>1, <1>4, <1>8, DayAssumption
  <1>9. (t - Late + 1) .. t \subseteq (t - Late + 1) .. (t + Early - 1)
    BY TimesAssumption
  <1>10. stamp \in (t - Late + 1) .. t => time = stamp
    <2> HIDE DEF s, tod, time, n
    <2> QED BY <1>7, <1>8, <1>9
  <1>11. ASSUME stamp \in (t - Late + 1) .. (t + Early - 1)
         PROVE  time - stamp \in (1 - Early) .. (Early - 1)
    <2> HIDE DEF s, tod, time, n
    <2> QED BY <1>7, <1>8, <1>11, TimesAssumption
  <1> QED BY <1>6, <1>10, <1>11

------------------------------------------------------------------------------
(* The times and the pilots of fixes *)

(* The clock and the stamps of datagrams are integers, and each row that    *)
(* came by datagram has the time that fixReceived computed when it came.    *)
Clocked ==
  /\ now \in Int
  /\ \A m \in net : m.stamp \in Int
  /\ \A f \in fixes : f.udp =>
       f.seen \in Int /\ f.stamp \in Int /\ f.time = FixTime(f.seen, TimeOfDay(f.stamp))

LEMMA ClockedInit == Init => Clocked
  BY ClockAssumption DEF Init, Clocked

(* What a datagram adds; nothing else adds a row that came by datagram. *)
LEMMA ClockedStep == Clocked /\ [Next]_vars => Clocked'
  <1> SUFFICES ASSUME Clocked, [Next]_vars PROVE Clocked'
    OBVIOUS
  <1> USE DEF Clocked
  <1>1. ASSUME Tick PROVE Clocked'
    BY <1>1 DEF Tick
  <1>2. ASSUME NEW p \in Pilots, GenerateKey(p) PROVE Clocked'
    BY <1>2 DEF GenerateKey
  <1>3. ASSUME NEW p \in Pilots, Clear(p) PROVE Clocked'
    BY <1>3 DEF Clear
  <1>4. ASSUME NEW m \in net, FixReceived(m) PROVE Clocked'
    <2> DEFINE row(p) == [pilot |-> p, time |-> FixTime(now, TimeOfDay(m.stamp)),
                          user |-> m.key.pilot, stamp |-> m.stamp, seen |-> now, udp |-> TRUE]
    <2>1. /\ net' \subseteq net /\ now' = now
          /\ fixes' = fixes \union {row(p) : p \in ByKey(m.key)}
      BY <1>4 DEF FixReceived
    <2>2. \A p \in ByKey(m.key) :
            row(p).seen \in Int /\ row(p).stamp \in Int
            /\ row(p).time = FixTime(row(p).seen, TimeOfDay(row(p).stamp))
      OBVIOUS
    <2> HIDE DEF row
    <2> QED BY <2>1, <2>2
  <1>5. ASSUME NEW m \in net, Lose(m) PROVE Clocked'
    BY <1>5 DEF Lose
  <1>6. ASSUME NEW d \in Devices, Configure(d) PROVE Clocked'
    BY <1>6 DEF Configure
  <1>7. ASSUME NEW d \in Devices, Send(d) PROVE Clocked'
    <2>1. Stamp(d) \in Int
      BY SkewAssumption DEF Stamp
    <2> QED BY <1>7, <2>1 DEF Send
  <1>8. ASSUME NEW d \in Devices, TrafficRequest(d) PROVE Clocked'
    <2>1. now' = now /\ net' = net /\ fixes' = fixes
      BY <1>8, Zenon DEF TrafficRequest
    <2> QED BY <2>1
  <1>9. ASSUME NEW d \in Devices, Login(d) PROVE Clocked'
    BY <1>9 DEF Login
  <1>10. ASSUME NEW d \in Devices, BeginSession(d) PROVE Clocked'
    BY <1>10 DEF BeginSession
  <1>11. ASSUME NEW d \in Devices, CreateSession(d) PROVE Clocked'
    BY <1>11 DEF CreateSession
  <1>12. ASSUME NEW d \in Devices, SessionFix(d) PROVE Clocked'
    <2>1. /\ now' = now /\ net' = net
          /\ \A f \in fixes' : f \in fixes \/ ~f.udp
      BY <1>12 DEF SessionFix, Position
    <2> QED BY <2>1
  <1>13. ASSUME NEW d \in Devices, SessionlessFix(d) PROVE Clocked'
    <2>1. /\ now' = now /\ net' = net
          /\ \A f \in fixes' : f \in fixes \/ ~f.udp
      BY <1>13 DEF SessionlessFix, Position
    <2> QED BY <2>1
  <1>14. ASSUME NEW d \in Devices, FinishSession(d) PROVE Clocked'
    BY <1>14 DEF FinishSession
  <1>15. ASSUME UNCHANGED vars PROVE Clocked'
    BY <1>15 DEF vars
  <1> QED
    BY <1>1, <1>2, <1>3, <1>4, <1>5, <1>6, <1>7, <1>8, <1>9, <1>10, <1>11, <1>12,
       <1>13, <1>14, <1>15 DEF Next

LEMMA ClockedKept == Clocked => TimesKept
  <1> SUFFICES ASSUME Clocked, NEW f \in fixes, f.udp
               PROVE  /\ f.stamp \in (f.seen - Late + 1) .. f.seen => f.time = f.stamp
                      /\ f.stamp \in (f.seen - Late + 1) .. (f.seen + Early - 1) =>
                           f.time - f.stamp \in (1 - Early) .. (Early - 1)
                      /\ f.time \in (f.seen - Late - (Day - Evening) + 1)
                                      .. (f.seen + Early - 1)
    BY DEF TimesKept
  <1>1. /\ f.seen \in Int /\ f.stamp \in Int
        /\ f.time = FixTime(f.seen, TimeOfDay(f.stamp))
    BY DEF Clocked
  <1> DEFINE seen == f.seen
             stamp == f.stamp
             time == FixTime(seen, TimeOfDay(stamp))
  <1>2. /\ stamp \in (seen - Late + 1) .. seen => time = stamp
        /\ stamp \in (seen - Late + 1) .. (seen + Early - 1) =>
             time - stamp \in (1 - Early) .. (Early - 1)
        /\ time \in (seen - Late - (Day - Evening) + 1) .. (seen + Early - 1)
    <2>1. seen \in Int /\ stamp \in Int
      BY <1>1
    <2> HIDE DEF seen, stamp
    <2> QED BY <2>1, FixTimeKept
  <1>3. f.time = time
    BY <1>1
  <1> HIDE DEF time
  <1> QED
    BY <1>2, <1>3

(* A fix that comes within the half hour has the time of its device, also   *)
(* across midnight, and no datagram gets a row an implausible time          *)
(* (fixReceived): whatever is lost, doubled, delayed or reordered.          *)
THEOREM TimesOfFixesKept == Spec => []TimesKept
  <1>1. Spec => []Clocked
    BY ClockedInit, ClockedStep, PTL DEF Spec
  <1> QED BY <1>1, ClockedKept, PTL

------------------------------------------------------------------------------
(* Whoever's key a user id, a session or a datagram holds is the pilot of   *)
(* the rows that it leads to.                                               *)
Drawn == [pilot: Pilots, n: Int]
Ids == [high: Highs \union {Unset}, low: Drawn]
OwnSession == {s \in [pilot: Pilots, lt24_id: Ids] : s.pilot = s.lt24_id.low.pilot}
Flyer == [state: {"idle", "opening", "flying", "finishing"}, sid: Ids]

Owned ==
  /\ key \in [Pilots -> Drawn] /\ \A p \in Pilots : key[p].pilot = p
  /\ held \in [Devices -> Drawn]
  /\ client \in [Devices -> Flyer]
  /\ sessions \in Seq(OwnSession)
  /\ OwnFixesOnly

(* Only the pilot of a key is found by it. *)
LEMMA PilotOfKey ==
  ASSUME Owned, NEW k, NEW p \in ByKey(k)
  PROVE  p \in Pilots /\ k \in Drawn /\ k.pilot = p
  BY DEF Owned, ByKey

LEMMA OwnedInit == Init => Owned
  <1> SUFFICES ASSUME Init PROVE Owned
    OBVIOUS
  <1>1. \A p \in Pilots : FirstKey(p) \in Drawn /\ FirstKey(p).pilot = p
    BY DEF FirstKey, Drawn
  <1>2. key \in [Pilots -> Drawn] /\ \A p \in Pilots : key[p].pilot = p
    BY <1>1 DEF Init
  <1>3. held \in [Devices -> Drawn]
    BY <1>1 DEF Init
  <1>4. \A d \in Devices : [high |-> Unset, low |-> held[d]] \in Ids
    BY <1>3 DEF Ids
  <1>5. client \in [Devices -> Flyer]
    BY <1>4 DEF Init, Flyer
  <1>6. sessions \in Seq(OwnSession) /\ OwnFixesOnly
    BY DEF Init, OwnFixesOnly
  <1> QED
    BY <1>2, <1>3, <1>5, <1>6 DEF Owned

(* The changes of a client keep its identifier one. *)
LEMMA ClientBecomes ==
  ASSUME Owned, NEW d \in Devices,
         NEW state \in {"idle", "opening", "flying", "finishing"}, Becomes(d, state)
  PROVE  client' \in [Devices -> Flyer]
  <1>1. client[d] \in Flyer
    BY DEF Owned
  <1>2. [high |-> Unset, low |-> client[d].sid.low] \in Ids
    BY <1>1 DEF Flyer, Ids
  <1>3. [[client[d] EXCEPT !.state = state]
            EXCEPT !.sid.high = IF state = "idle" THEN Unset ELSE @]
          \in Flyer
    BY <1>1, <1>2 DEF Flyer, Ids
  <1> QED
    BY <1>3 DEF Becomes, Owned

(* Ending a session leaves the others as they are. *)
LEMMA Shortened ==
  ASSUME NEW S, NEW s \in Seq(S), NEW i \in DOMAIN s
  PROVE  SubSeq(s, 1, i - 1) \o SubSeq(s, i + 1, Len(s)) \in Seq(S)
  <1>1. i \in 1 .. Len(s) /\ Len(s) \in Nat
    OBVIOUS
  <1>2. SubSeq(s, 1, i - 1) \in Seq(S)
    <2>1. \A j \in 1 .. i - 1 : s[j] \in S
      BY <1>1
    <2> QED BY <1>1, <2>1, SubSeqProperties
  <1>3. SubSeq(s, i + 1, Len(s)) \in Seq(S)
    <2>1. \A j \in i + 1 .. Len(s) : s[j] \in S
      BY <1>1
    <2> QED BY <1>1, <2>1, SubSeqProperties
  <1> QED
    BY <1>2, <1>3

LEMMA OwnedStep == Owned /\ [Next]_vars => Owned'
  <1> SUFFICES ASSUME Owned, [Next]_vars PROVE Owned'
    OBVIOUS
  <1>1. ASSUME Tick PROVE Owned'
    BY <1>1 DEF Tick, Owned, OwnFixesOnly
  <1>2. ASSUME NEW p \in Pilots, GenerateKey(p) PROVE Owned'
    <2>1. [key[p] EXCEPT !.n = key[p].n + 1] \in Drawn
      BY DEF Owned, Drawn
    <2>2. key' \in [Pilots -> Drawn] /\ \A q \in Pilots : key'[q].pilot = q
      BY <1>2, <2>1 DEF GenerateKey, Owned, Drawn
    <2> QED BY <1>2, <2>2 DEF GenerateKey, Owned, OwnFixesOnly
  <1>3. ASSUME NEW p \in Pilots, Clear(p) PROVE Owned'
    BY <1>3 DEF Clear, Owned, OwnFixesOnly
  <1>4. ASSUME NEW m \in net, FixReceived(m) PROVE Owned'
    <2> DEFINE row(p) == [pilot |-> p, time |-> FixTime(now, TimeOfDay(m.stamp)),
                          user |-> m.key.pilot, stamp |-> m.stamp, seen |-> now, udp |-> TRUE]
    <2>1. fixes' = fixes \union {row(p) : p \in ByKey(m.key)}
      BY <1>4 DEF FixReceived
    <2>2. \A p \in ByKey(m.key) : row(p).pilot = row(p).user
      BY PilotOfKey
    <2>3. OwnFixesOnly'
      <3> HIDE DEF row
      <3> QED BY <2>1, <2>2 DEF Owned, OwnFixesOnly
    <2> QED BY <1>4, <2>3 DEF FixReceived, Owned
  <1>5. ASSUME NEW m \in net, Lose(m) PROVE Owned'
    BY <1>5 DEF Lose, Owned, OwnFixesOnly
  <1>6. ASSUME NEW d \in Devices, Configure(d) PROVE Owned'
    BY <1>6 DEF Configure, Owned, OwnFixesOnly
  <1>7. ASSUME NEW d \in Devices, Send(d) PROVE Owned'
    BY <1>7 DEF Send, Owned, OwnFixesOnly
  <1>8. ASSUME NEW d \in Devices, TrafficRequest(d) PROVE Owned'
    <2>1. UNCHANGED <<key, held, client, sessions, fixes>>
      BY <1>8, Zenon DEF TrafficRequest
    <2> QED BY <2>1 DEF Owned, OwnFixesOnly
  <1>9. ASSUME NEW d \in Devices, Login(d) PROVE Owned'
    <2>1. [client[d] EXCEPT !.sid.low = held[d]]
            \in Flyer
      BY DEF Owned, Flyer, Ids
    <2> QED BY <1>9, <2>1 DEF Login, Owned, OwnFixesOnly
  <1>10. ASSUME NEW d \in Devices, BeginSession(d) PROVE Owned'
    <2>1. PICK h \in Highs :
            client' = [client EXCEPT ![d].state = "opening", ![d].sid.high = h]
      BY <1>10 DEF BeginSession
    <2>2. client[d] \in Flyer /\ [high |-> h, low |-> client[d].sid.low] \in Ids
      BY DEF Owned, Flyer, Ids
    <2>3. [[client[d] EXCEPT !.state = "opening"] EXCEPT !.sid.high = h] \in Flyer
      BY <2>2 DEF Flyer, Ids
    <2>4. client' \in [Devices -> Flyer]
      BY <2>1, <2>3 DEF Owned
    <2> QED BY <1>10, <2>4 DEF BeginSession, Owned, OwnFixesOnly
  <1>11. ASSUME NEW d \in Devices, CreateSession(d) PROVE Owned'
    <2>1. client' \in [Devices -> Flyer]
      <3>1. client' = client \/ \E state \in {"idle", "flying"} : Becomes(d, state)
        BY <1>11, Zenon DEF CreateSession
      <3>2. CASE client' = client
        BY <3>2 DEF Owned
      <3>3. CASE \E state \in {"idle", "flying"} : Becomes(d, state)
        BY <3>3, ClientBecomes
      <3> QED BY <3>1, <3>2, <3>3
    <2>2. sessions' \in Seq(OwnSession)
      <3>1. CASE sessions' = sessions
        BY <3>1 DEF Owned
      <3>2. CASE client[d].sid.low = held[d] /\ \E p \in ByKey(held[d]) :
                   sessions' = Append(sessions, [pilot |-> p, lt24_id |-> client[d].sid])
        <4>1. PICK p \in ByKey(held[d]) :
                sessions' = Append(sessions, [pilot |-> p, lt24_id |-> client[d].sid])
          BY <3>2
        <4>2. [pilot |-> p, lt24_id |-> client[d].sid] \in OwnSession
          BY <3>2, PilotOfKey DEF OwnSession, Owned, Flyer
        <4> QED BY <4>1, <4>2 DEF Owned
      <3>3. sessions' = sessions
            \/ (client[d].sid.low = held[d] /\ \E p \in ByKey(held[d]) :
                   sessions' = Append(sessions, [pilot |-> p, lt24_id |-> client[d].sid]))
        BY <1>11 DEF CreateSession
      <3> QED BY <3>1, <3>2, <3>3
    <2> QED BY <1>11, <2>1, <2>2 DEF CreateSession, Owned, OwnFixesOnly
  <1>12. ASSUME NEW d \in Devices, SessionFix(d) PROVE Owned'
    <2>1. \A i \in ById(client[d].sid) :
            sessions[i] \in OwnSession /\ sessions[i].lt24_id = client[d].sid
      BY DEF ById, Owned
    <2>2. \A i \in ById(client[d].sid) : sessions[i].pilot = client[d].sid.low.pilot
      BY <2>1 DEF OwnSession
    <2>3. OwnFixesOnly'
      BY <1>12, <2>2 DEF SessionFix, Position, Owned, OwnFixesOnly
    <2> QED BY <1>12, <2>3 DEF SessionFix, Owned
  <1>13. ASSUME NEW d \in Devices, SessionlessFix(d) PROVE Owned'
    <2>1. \A p \in ByKey(held[d]) : p = held[d].pilot
      BY PilotOfKey
    <2>2. OwnFixesOnly'
      BY <1>13, <2>1 DEF SessionlessFix, Position, Owned, OwnFixesOnly
    <2> QED BY <1>13, <2>2 DEF SessionlessFix, Owned
  <1>14. ASSUME NEW d \in Devices, FinishSession(d) PROVE Owned'
    <2>1. client' \in [Devices -> Flyer]
      <3>1. \E state \in {"idle", "finishing"} : Becomes(d, state)
        BY <1>14, Zenon DEF FinishSession
      <3> QED BY <3>1, ClientBecomes
    <2>2. sessions' \in Seq(OwnSession)
      <3>1. CASE ById(client[d].sid) = {}
        BY <1>14, <3>1 DEF FinishSession, Owned
      <3>2. CASE ById(client[d].sid) # {}
        <4> DEFINE i == CHOOSE j \in ById(client[d].sid) : TRUE
        <4>1. i \in DOMAIN sessions
          BY <3>2 DEF ById
        <4>2. sessions' = SubSeq(sessions, 1, i - 1) \o SubSeq(sessions, i + 1, Len(sessions))
          BY <1>14, <3>2 DEF FinishSession, RemoveAt
        <4>3. sessions \in Seq(OwnSession)
          BY DEF Owned
        <4> HIDE DEF i
        <4> QED BY <4>1, <4>2, <4>3, Shortened
      <3> QED BY <3>1, <3>2
    <2> QED BY <1>14, <2>1, <2>2 DEF FinishSession, Owned, OwnFixesOnly
  <1>15. ASSUME UNCHANGED vars PROVE Owned'
    BY <1>15 DEF vars, Owned, OwnFixesOnly
  <1> QED
    BY <1>1, <1>2, <1>3, <1>4, <1>5, <1>6, <1>7, <1>8, <1>9, <1>10, <1>11, <1>12,
       <1>13, <1>14, <1>15 DEF Next

(* Every position is stored for the pilot whose key the device, or its      *)
(* session, was set up with (fixReceived, _session_fix, _sessionless_fix),   *)
(* however keys are replaced, devices handed on and sessions left open.     *)
THEOREM FixesOfTheirPilots == Spec => []OwnFixesOnly
  <1>1. Spec => []Owned
    BY OwnedInit, OwnedStep, PTL DEF Spec
  <1>2. Owned => OwnFixesOnly
    BY DEF Owned
  <1> QED BY <1>1, <1>2, PTL

------------------------------------------------------------------------------
(* The traffic responses *)

(* The numbers in S above n. *)
Over(S, n) == {m \in S : n < m}

(* A finite set of numbers has a largest one, that with the fewest above. *)
LEMMA Largest ==
  ASSUME NEW S \in SUBSET Int, IsFiniteSet(S), S # {}
  PROVE  \E n \in S : \A m \in S : m <= n
  <1> DEFINE T == {Over(S, n) : n \in S}
  <1>1. IsWellFoundedOn(StrictSubsetOrdering(S), FiniteSubsetsOf(S))
    BY FS_StrictSubsetOrderingWellFounded
  <1>2. T \subseteq FiniteSubsetsOf(S) /\ T # {}
    <2>1. \A n \in S : Over(S, n) \in SUBSET S
      BY DEF Over
    <2>2. FiniteSubsetsOf(S) = SUBSET S
      BY FS_FiniteSubsetsOfFinite
    <2>3. PICK n \in S : TRUE
      OBVIOUS
    <2>4. Over(S, n) \in T
      OBVIOUS
    <2> QED BY <2>1, <2>2, <2>4
  <1>3. PICK x \in T : \A y \in T : <<y, x>> \notin StrictSubsetOrdering(S)
    <2> HIDE DEF T
    <2> QED BY <1>1, <1>2, WFMin
  <1>4. PICK n \in S : x = Over(S, n)
    BY <1>3
  <1>5. ASSUME NEW m \in S, ~(m <= n) PROVE FALSE
    <2>1. n < m
      BY <1>5
    <2>2. ~(m < m) /\ \A l \in S : m < l => n < l
      BY <2>1
    <2>3. m \in Over(S, n) /\ m \notin Over(S, m) /\ Over(S, m) \subseteq Over(S, n)
      BY <2>1, <2>2, Zenon DEF Over
    <2>4. <<Over(S, m), Over(S, n)>> \in StrictSubsetOrdering(S)
      BY <2>3 DEF StrictSubsetOrdering, Over
    <2> QED BY <2>4, <1>3, <1>4
  <1> QED BY <1>5

(* One of finitely many rows is not older than any. *)
LEMMA Newest ==
  ASSUME NEW rows, IsFiniteSet(rows), rows # {}, \A f \in rows : f.time \in Int
  PROVE  \E f \in rows : \A g \in rows : g.time <= f.time
  <1> DEFINE time == [f \in rows |-> f.time]
             times == {f.time : f \in rows}
  <1>1. time \in Surjection(rows, times)
    BY DEF Surjection
  <1>2. IsFiniteSet(times)
    <2> HIDE DEF time, times
    <2> QED BY <1>1, FS_Surjection
  <1>3. times \in SUBSET Int /\ times # {}
    OBVIOUS
  <1>4. PICK n \in times : \A m \in times : m <= n
    <2> HIDE DEF times
    <2> QED BY <1>2, <1>3, Largest
  <1> QED BY <1>4

(* The time in a response is that of the newest of the pilot's rows. *)
LEMMA NewestShown ==
  ASSUME NEW rows, IsFiniteSet(rows), \A f \in rows : f.time \in Int,
         NEW q \in {f.pilot : f \in rows}
  PROVE  /\ \E f \in rows : f.pilot = q /\ TimeOf(q, rows) = f.time
         /\ \A g \in rows : g.pilot = q => g.time <= TimeOf(q, rows)
  <1> DEFINE his == {f \in rows : f.pilot = q}
  <1>1. IsFiniteSet(his) /\ his # {} /\ \A f \in his : f.time \in Int
    BY FS_Subset
  <1>2. PICK f \in his : \A g \in his : g.time <= f.time
    <2> HIDE DEF his
    <2> QED BY <1>1, Newest
  <1> DEFINE last == CHOOSE f1 \in rows :
                       f1.pilot = q /\ \A g \in rows : g.pilot = q => g.time <= f1.time
  <1>3. f \in rows /\ f.pilot = q /\ \A g \in rows : g.pilot = q => g.time <= f.time
    BY <1>2
  <1>4. last \in rows /\ last.pilot = q /\ \A g \in rows : g.pilot = q => g.time <= last.time
    BY <1>3
  <1>5. TimeOf(q, rows) = last.time
    BY DEF TimeOf
  <1> HIDE DEF last
  <1> QED BY <1>4, <1>5

(* The rows are finitely many, and what a pilot was shown of another is the *)
(* time of one of them, or nothing yet.                                     *)
Sighted ==
  /\ now \in Int /\ Recent <= now
  /\ IsFiniteSet(fixes) /\ \A f \in fixes : f.time \in Int
  /\ shown \in [Pilots -> [Pilots -> Int]]
  /\ \A p, q \in Pilots :
       shown[p][q] = 0 \/ \E f \in fixes : f.pilot = q /\ f.time = shown[p][q]

LEMMA SightedInit == Init => Sighted
  BY ClockAssumption, FS_EmptySet DEF Init, Sighted

(* More rows leave what was shown explained. *)
LEMMA SightedGrows ==
  ASSUME Sighted, UNCHANGED <<now, shown>>,
         NEW more, IsFiniteSet(more), fixes' = fixes \union more,
         \A f \in more : f.time \in Int
  PROVE  Sighted'
  <1>1. IsFiniteSet(fixes')
    BY FS_Union DEF Sighted
  <1> QED BY <1>1 DEF Sighted

(* What a traffic request shows: of each pilot in the response the newest   *)
(* row, which is not older than what was shown before.                      *)
LEMMA TrafficShown ==
  ASSUME Sighted, NEW d \in Devices, TrafficRequest(d)
  PROVE  /\ UNCHANGED <<now, fixes>>
         /\ shown' \in [Pilots -> [Pilots -> Int]]
         /\ \A p, q \in Pilots :
              \/ shown'[p][q] = shown[p][q]
              \/ /\ \E f \in fixes : f.pilot = q /\ shown'[p][q] = f.time
                 /\ shown'[p][q] >= shown[p][q]
  <1>1. PICK p \in ByKey(held[d]), followees \in BOOLEAN, club \in BOOLEAN :
          LET rows == Candidates(p, Friends(p, followees, club)) IN
          /\ shown' = [shown EXCEPT ![p] =
                [q \in Pilots |-> IF q \in Responded(rows) THEN TimeOf(q, rows)
                                  ELSE shown[p][q]]]
          /\ UNCHANGED <<now, fixes>>
    BY ZenonT(30) DEF TrafficRequest
  <1> DEFINE friends == Friends(p, followees, club)
             rows == Candidates(p, friends)
             mine == [q \in Pilots |-> IF q \in Responded(rows) THEN TimeOf(q, rows)
                                       ELSE shown[p][q]]
  <1>2. shown' = [shown EXCEPT ![p] = mine] /\ p \in Pilots /\ UNCHANGED <<now, fixes>>
    BY <1>1 DEF ByKey
  <1>3. /\ rows \subseteq fixes /\ \A f \in rows : f.time >= now - Recent /\ f.pilot \in friends
        /\ \A f \in fixes : f.time >= now - Recent /\ f.pilot \in friends => f \in rows
    BY DEF Candidates
  <1>4. IsFiniteSet(rows) /\ \A f \in rows : f.time \in Int
    BY <1>3, FS_Subset DEF Sighted
  <1>5. ASSUME NEW q \in Pilots, q \in Responded(rows)
        PROVE  /\ \E f \in fixes : f.pilot = q /\ TimeOf(q, rows) = f.time
               /\ TimeOf(q, rows) >= shown[p][q]
               /\ TimeOf(q, rows) \in Int
    <2>1. q \in {f.pilot : f \in rows}
      BY <1>5 DEF Responded
    <2> HIDE DEF rows, friends
    <2>2. /\ \E f \in rows : f.pilot = q /\ TimeOf(q, rows) = f.time
          /\ \A g \in rows : g.pilot = q => g.time <= TimeOf(q, rows)
      BY <1>4, <2>1, NewestShown
    <2>3. PICK f \in rows : f.pilot = q /\ TimeOf(q, rows) = f.time
      BY <2>2
    <2>4. f \in fixes /\ f.time \in Int /\ f.time >= now - Recent /\ q \in friends
      BY <1>3, <1>4, <2>3
    <2>5. TimeOf(q, rows) >= shown[p][q]
      <3>0. shown[p][q] \in Int /\ now - Recent >= 0 /\ Recent \in Int /\ now \in Int
        BY <1>2, ClockAssumption DEF Sighted
      <3>1. CASE shown[p][q] = 0
        BY <2>3, <2>4, <3>0, <3>1
      <3>2. CASE \E g \in fixes : g.pilot = q /\ g.time = shown[p][q]
        <4>1. PICK g \in fixes : g.pilot = q /\ g.time = shown[p][q]
          BY <3>2
        <4>2. CASE g.time >= now - Recent
          BY <4>1, <4>2, <1>3, <2>2, <2>3, <2>4, <3>0
        <4>3. CASE g.time < now - Recent
          BY <4>1, <4>3, <2>3, <2>4, <3>0
        <4> QED BY <4>1, <4>2, <4>3, <3>0
      <3> QED BY <1>2, <3>1, <3>2 DEF Sighted
    <2> QED BY <2>3, <2>4, <2>5
  <1> HIDE DEF rows
  <1>6. mine \in [Pilots -> Int]
    BY <1>2, <1>5 DEF Sighted
  <1>7. shown' \in [Pilots -> [Pilots -> Int]]
    <2> HIDE DEF mine
    <2> QED BY <1>2, <1>6 DEF Sighted
  <1>8. ASSUME NEW r \in Pilots, NEW q \in Pilots
        PROVE  \/ shown'[r][q] = shown[r][q]
               \/ /\ \E f \in fixes : f.pilot = q /\ shown'[r][q] = f.time
                  /\ shown'[r][q] >= shown[r][q]
    <2>1. CASE r # p
      BY <1>2, <2>1 DEF Sighted
    <2>2. CASE r = p /\ q \in Responded(rows)
      <3>1. shown'[r][q] = TimeOf(q, rows)
        BY <1>2, <2>2 DEF Sighted
      <3> QED BY <3>1, <1>5, <2>2
    <2>3. CASE r = p /\ q \notin Responded(rows)
      BY <1>2, <2>3 DEF Sighted
    <2> QED BY <2>1, <2>2, <2>3
  <1> QED BY <1>2, <1>7, <1>8

(* At most one row comes of a request: a key has one pilot, an id one newest *)
(* session.                                                                  *)
LEMMA FewRows ==
  ASSUME Owned, NEW k
  PROVE  ByKey(k) \subseteq {k.pilot}
  BY PilotOfKey

LEMMA SightedStep == Owned /\ Clocked /\ Sighted /\ [Next]_vars => Sighted'
  <1> SUFFICES ASSUME Owned, Clocked, Sighted, [Next]_vars PROVE Sighted'
    OBVIOUS
  <1>0. IsFiniteSet({}) /\ \A x : IsFiniteSet({x})
    BY FS_EmptySet, FS_Singleton
  <1>1. ASSUME Tick PROVE Sighted'
    BY <1>1, ClockAssumption DEF Tick, Sighted
  <1>2. ASSUME NEW p \in Pilots, GenerateKey(p) PROVE Sighted'
    BY <1>2 DEF GenerateKey, Sighted
  <1>3. ASSUME NEW p \in Pilots, Clear(p) PROVE Sighted'
    <2>1. fixes' \subseteq fixes /\ \A f \in fixes : f.pilot # p => f \in fixes'
      BY <1>3 DEF Clear
    <2>2. IsFiniteSet(fixes')
      BY <2>1, FS_Subset DEF Sighted
    <2>3. /\ shown' \in [Pilots -> [Pilots -> Int]]
          /\ \A r, q \in Pilots : shown'[r][q] = IF q = p THEN 0 ELSE shown[r][q]
      BY <1>3 DEF Clear, Sighted
    <2> QED BY <1>3, <2>1, <2>2, <2>3 DEF Clear, Sighted
  <1>4. ASSUME NEW m \in net, FixReceived(m) PROVE Sighted'
    <2> DEFINE row(p) == [pilot |-> p, time |-> FixTime(now, TimeOfDay(m.stamp)),
                          user |-> m.key.pilot, stamp |-> m.stamp, seen |-> now, udp |-> TRUE]
               more == {row(p) : p \in ByKey(m.key)}
    <2>1. fixes' = fixes \union more /\ UNCHANGED <<now, shown>>
      BY <1>4 DEF FixReceived
    <2>2. more \subseteq {row(m.key.pilot)}
      BY FewRows
    <2>3. IsFiniteSet(more)
      <3> HIDE DEF more, row
      <3> QED BY <2>2, <1>0, FS_Subset
    <2>4. FixTime(now, TimeOfDay(m.stamp)) \in Int
      <3>1. now \in Int /\ m.stamp \in Int
        BY DEF Clocked
      <3>2. TimeOfDay(m.stamp) \in 0 .. Day - 1 /\ TimeOfDay(now) \in 0 .. Day - 1
        BY <3>1, DivMod
      <3>3. TimeOfDay(m.stamp) \in Int /\ Midnight(now) \in Int
        BY <3>1, <3>2 DEF Midnight
      <3> HIDE DEF more, row
      <3> QED BY <3>1, <3>3, DayAssumption DEF FixTime
    <2>5. \A f \in more : f.time \in Int
      BY <2>4
    <2> HIDE DEF more
    <2> QED BY <2>1, <2>3, <2>5, SightedGrows
  <1>5. ASSUME NEW m \in net, Lose(m) PROVE Sighted'
    BY <1>5 DEF Lose, Sighted
  <1>6. ASSUME NEW d \in Devices, Configure(d) PROVE Sighted'
    BY <1>6 DEF Configure, Sighted
  <1>7. ASSUME NEW d \in Devices, Send(d) PROVE Sighted'
    BY <1>7 DEF Send, Sighted
  <1>8. ASSUME NEW d \in Devices, TrafficRequest(d) PROVE Sighted'
    BY <1>8, TrafficShown DEF Sighted
  <1>9. ASSUME NEW d \in Devices, Login(d) PROVE Sighted'
    BY <1>9 DEF Login, Sighted
  <1>10. ASSUME NEW d \in Devices, BeginSession(d) PROVE Sighted'
    BY <1>10 DEF BeginSession, Sighted
  <1>11. ASSUME NEW d \in Devices, CreateSession(d) PROVE Sighted'
    BY <1>11 DEF CreateSession, Sighted
  <1>12. ASSUME NEW d \in Devices, SessionFix(d) PROVE Sighted'
    <2> DEFINE row(i) == Position(sessions[i].pilot, d, client[d].sid.low.pilot)
               more == {row(i) : i \in ById(client[d].sid)}
    <2>1. fixes' = fixes \union more /\ UNCHANGED <<now, shown>>
      BY <1>12 DEF SessionFix
    <2>2. \A i, j \in ById(client[d].sid) : i = j
      BY DEF ById, Owned
    <2>3. \E i : more \subseteq {row(i)}
      <3> HIDE DEF row
      <3> QED BY <2>2
    <2>4. IsFiniteSet(more)
      <3> HIDE DEF more, row
      <3> QED BY <2>3, <1>0, FS_Subset
    <2>5. \A f \in more : f.time \in Int
      BY SkewAssumption DEF Position, Stamp, Sighted
    <2> HIDE DEF more
    <2> QED BY <2>1, <2>4, <2>5, SightedGrows
  <1>13. ASSUME NEW d \in Devices, SessionlessFix(d) PROVE Sighted'
    <2> DEFINE row(p) == Position(p, d, held[d].pilot)
               more == {row(p) : p \in ByKey(held[d])}
    <2>1. fixes' = fixes \union more /\ UNCHANGED <<now, shown>>
      BY <1>13 DEF SessionlessFix
    <2>2. more \subseteq {row(held[d].pilot)}
      BY FewRows
    <2>3. IsFiniteSet(more)
      <3> HIDE DEF more, row
      <3> QED BY <2>2, <1>0, FS_Subset
    <2>4. \A f \in more : f.time \in Int
      BY SkewAssumption DEF Position, Stamp, Sighted
    <2> HIDE DEF more
    <2> QED BY <2>1, <2>3, <2>4, SightedGrows
  <1>14. ASSUME NEW d \in Devices, FinishSession(d) PROVE Sighted'
    BY <1>14 DEF FinishSession, Sighted
  <1>15. ASSUME UNCHANGED vars PROVE Sighted'
    BY <1>15 DEF vars, Sighted
  <1> QED
    BY <1>1, <1>2, <1>3, <1>4, <1>5, <1>6, <1>7, <1>8, <1>9, <1>10, <1>11, <1>12,
       <1>13, <1>14, <1>15 DEF Next

(* A step that shows less than before comes from deleting the fixes. *)
LEMMA ForwardStep ==
  ASSUME Sighted, [Next]_vars, NEW p \in Pilots, NEW q \in Pilots
  PROVE  shown'[p][q] >= shown[p][q] \/ \A f \in fixes' : f.pilot # q
  <1>0. shown[p][q] \in Int
    BY DEF Sighted
  <1>1. ASSUME NEW r \in Pilots, Clear(r)
        PROVE  shown'[p][q] >= shown[p][q] \/ \A f \in fixes' : f.pilot # q
    <2>1. fixes' = {f \in fixes : f.pilot # r}
          /\ shown'[p][q] = IF q = r THEN 0 ELSE shown[p][q]
      BY <1>1 DEF Clear, Sighted
    <2> QED BY <2>1, <1>0
  <1>2. ASSUME NEW d \in Devices, TrafficRequest(d)
        PROVE  shown'[p][q] >= shown[p][q]
    BY <1>0, <1>2, TrafficShown
  <1>3. CASE shown' = shown
    BY <1>0, <1>3
  <1>4. \/ shown' = shown \/ \E r \in Pilots : Clear(r)
        \/ \E d \in Devices : TrafficRequest(d)
    <2>1. CASE Next
      <3>1. Next =>
              \/ Tick \/ \E r \in Pilots : GenerateKey(r) \/ Clear(r)
              \/ \E m \in net : FixReceived(m) \/ Lose(m)
              \/ \E d \in Devices :
                   \/ Configure(d) \/ Send(d) \/ TrafficRequest(d) \/ Login(d)
                   \/ BeginSession(d) \/ CreateSession(d) \/ SessionFix(d)
                   \/ SessionlessFix(d) \/ FinishSession(d)
        BY Zenon DEF Next
      <3>2. Tick => shown' = shown
        BY DEF Tick
      <3>3. \A r : GenerateKey(r) => shown' = shown
        BY DEF GenerateKey
      <3>4. \A m : FixReceived(m) \/ Lose(m) => shown' = shown
        BY DEF FixReceived, Lose
      <3>5. \A d : Configure(d) \/ Send(d) \/ Login(d) \/ BeginSession(d) => shown' = shown
        BY DEF Configure, Send, Login, BeginSession
      <3>6. \A d : CreateSession(d) => shown' = shown
        BY DEF CreateSession
      <3>7. \A d : SessionFix(d) \/ SessionlessFix(d) \/ FinishSession(d) => shown' = shown
        BY DEF SessionFix, SessionlessFix, FinishSession
      <3> QED BY <2>1, <3>1, <3>2, <3>3, <3>4, <3>5, <3>6, <3>7, Zenon
    <2>2. CASE UNCHANGED vars
      BY <2>2 DEF vars
    <2> QED BY <2>1, <2>2
  <1> QED BY <1>1, <1>2, <1>3, <1>4

(* In the traffic responses (trafficRequestReceived) the position of a      *)
(* pilot never goes back in time, in whatever order his fixes arrive by     *)
(* datagram or by HTTP, until somebody deletes all of them.                 *)
THEOREM TrafficGoesForward == Spec => TrafficForward
  <1>1. Init => Owned /\ Clocked /\ Sighted
    BY OwnedInit, ClockedInit, SightedInit
  <1>2. Owned /\ Clocked /\ Sighted /\ [Next]_vars => (Owned /\ Clocked /\ Sighted)'
    BY OwnedStep, ClockedStep, SightedStep
  <1>3. Sighted /\ [Next]_vars =>
          [\A p, q \in Pilots : shown'[p][q] >= shown[p][q] \/ \A f \in fixes' : f.pilot # q]_vars
    BY ForwardStep
  <1> QED BY <1>1, <1>2, <1>3, PTL DEF Spec, TrafficForward

------------------------------------------------------------------------------
(* The sessions that are left open *)

(* What a session is open for: a device that is flying or tries to end it,  *)
(* or an answer that was lost.                                              *)
Openers == ({"device"} \X Devices) \union ({"lost"} \X (1 .. lost))
Aloft(d) == client[d].state \in {"flying", "finishing"}

(* g gives each open session an opener of its own, and a device only to a   *)
(* session of its identifier.                                               *)
Explains(g) ==
  /\ g \in [DOMAIN sessions -> Openers]
  /\ \A i, j \in DOMAIN sessions : g[i] = g[j] => i = j
  /\ \A i \in DOMAIN sessions, d \in Devices :
       g[i] = <<"device", d>> => Aloft(d) /\ client[d].sid = sessions[i].lt24_id

Explained == lost \in Nat /\ \E g : Explains(g)

LEMMA ExplainedInit == Init => Explained
  <1> SUFFICES ASSUME Init PROVE Explained
    OBVIOUS
  <1>1. DOMAIN sessions = {} /\ lost = 0
    BY DEF Init
  <1>2. Explains([i \in {} |-> i])
    BY <1>1 DEF Explains
  <1> QED BY <1>1, <1>2 DEF Explained

(* The same sessions and the same devices in the air. *)
LEMMA ExplainedKept ==
  ASSUME Explained, UNCHANGED <<sessions, lost>>,
         \A d \in Devices : Aloft(d) => client'[d] = client[d]
  PROVE  Explained'
  <1>1. PICK g : Explains(g)
    BY DEF Explained
  <1>2. Explains(g)'
    BY <1>1 DEF Explains, Openers, Aloft
  <1> QED BY <1>2 DEF Explained

(* One more session, with an opener that no other has. *)
LEMMA ExplainedMore ==
  ASSUME Owned, Explained, NEW s, sessions' = Append(sessions, s),
         lost' \in Nat, lost <= lost',
         NEW o \in Openers', NEW e \in Devices, ~Aloft(e),
         \/ o = <<"lost", lost'>> /\ lost' = lost + 1
         \/ o = <<"device", e>> /\ Aloft(e)' /\ client'[e].sid = s.lt24_id,
         \A d \in Devices : Aloft(d) => client'[d] = client[d]
  PROVE  Explained'
  <1>1. PICK g : Explains(g)
    BY DEF Explained
  <1> DEFINE n == Len(sessions)
             h == [i \in 1 .. n + 1 |-> IF i = n + 1 THEN o ELSE g[i]]
  <1>2. /\ n \in Nat /\ DOMAIN sessions = 1 .. n /\ DOMAIN sessions' = 1 .. n + 1
        /\ \A i \in 1 .. n : sessions'[i] = sessions[i]
        /\ sessions'[n + 1] = s
    BY DEF Owned
  <1>3. Openers \subseteq Openers'
    <2>1. lost \in Nat /\ lost' \in Nat /\ lost <= lost'
      BY DEF Explained
    <2>2. 1 .. lost \subseteq 1 .. lost'
      BY <2>1
    <2> QED BY <2>2 DEF Openers
  <1>4. \A i \in 1 .. n : g[i] \in Openers /\ g[i] # o
    <2>1. ASSUME NEW i \in 1 .. n PROVE g[i] \in Openers
      BY <1>1, <1>2 DEF Explains
    <2>2. ASSUME NEW i \in 1 .. n, g[i] = o PROVE FALSE
      <3>1. CASE o = <<"device", e>>
        BY <3>1, <2>2, <1>1, <1>2 DEF Explains
      <3>2. CASE o = <<"lost", lost'>> /\ lost' = lost + 1
        <4>1. lost' \in 1 .. lost
          BY <3>2, <2>1, <2>2 DEF Openers
        <4> QED BY <4>1, <3>2 DEF Explained
      <3> QED BY <3>1, <3>2
    <2> QED BY <2>1, <2>2
  <1>5. h \in [1 .. n + 1 -> Openers']
    <2>1. \A i \in 1 .. n + 1 : i = n + 1 \/ i \in 1 .. n
      BY <1>2
    <2> QED BY <2>1, <1>3, <1>4
  <1>6. \A i, j \in 1 .. n + 1 : h[i] = h[j] => i = j
    <2>1. \A i \in 1 .. n + 1 : i = n + 1 \/ i \in 1 .. n
      BY <1>2
    <2> QED BY <2>1, <1>1, <1>2, <1>4 DEF Explains
  <1>7. ASSUME NEW i \in 1 .. n + 1, NEW d \in Devices, h[i] = <<"device", d>>
        PROVE  Aloft(d)' /\ client'[d].sid = sessions'[i].lt24_id
    <2>1. CASE i = n + 1
      <3>1. o = <<"device", d>>
        BY <2>1, <1>7
      <3> QED BY <3>1, <2>1, <1>2
    <2>2. CASE i \in 1 .. n
      <3>1. g[i] = <<"device", d>>
        BY <2>2, <1>2, <1>7
      <3>2. Aloft(d) /\ client[d].sid = sessions[i].lt24_id
        BY <3>1, <2>2, <1>1, <1>2 DEF Explains
      <3> QED BY <3>2, <2>2, <1>2 DEF Aloft
    <2> QED BY <2>1, <2>2, <1>2
  <1>8. PICK f : f = h
    OBVIOUS
  <1> HIDE DEF h
  <1>9. Explains(f)'
    BY <1>2, <1>5, <1>6, <1>7, <1>8 DEF Explains
  <1> QED BY <1>9 DEF Explained

(* A sequence without its i-th element. *)
LEMMA Without ==
  ASSUME NEW S, NEW s \in Seq(S), NEW i \in DOMAIN s
  PROVE  LET r == SubSeq(s, 1, i - 1) \o SubSeq(s, i + 1, Len(s)) IN
         /\ DOMAIN r = 1 .. Len(s) - 1
         /\ \A j \in 1 .. Len(s) - 1 : r[j] = s[IF j < i THEN j ELSE j + 1]
  <1>1. i \in 1 .. Len(s) /\ Len(s) \in Nat
    OBVIOUS
  <1> DEFINE a == SubSeq(s, 1, i - 1)
             b == SubSeq(s, i + 1, Len(s))
  <1>2. a \in Seq(S) /\ Len(a) = i - 1 /\ \A j \in 1 .. i - 1 : a[j] = s[j]
    <2>1. \A j \in 1 .. i - 1 : s[j] \in S
      BY <1>1
    <2> QED BY <1>1, <2>1, SubSeqProperties
  <1>3. /\ b \in Seq(S) /\ Len(b) = Len(s) - i
        /\ \A j \in 1 .. Len(s) - i : b[j] = s[i + j]
    <2>1. \A j \in i + 1 .. Len(s) : s[j] \in S
      BY <1>1
    <2> QED BY <1>1, <2>1, SubSeqProperties
  <1> HIDE DEF a, b
  <1>4. /\ DOMAIN (a \o b) = 1 .. Len(s) - 1
        /\ \A j \in 1 .. Len(s) - 1 :
             (a \o b)[j] = IF j < i THEN a[j] ELSE b[j - (i - 1)]
    BY <1>1, <1>2, <1>3
  <1>5. ASSUME NEW j \in 1 .. Len(s) - 1
        PROVE  (a \o b)[j] = s[IF j < i THEN j ELSE j + 1]
    <2>1. CASE j < i
      <3>1. j \in 1 .. i - 1
        BY <1>1, <2>1
      <3> QED BY <3>1, <2>1, <1>2, <1>4
    <2>2. CASE ~(j < i)
      <3>1. j - (i - 1) \in 1 .. Len(s) - i /\ i + (j - (i - 1)) = j + 1
        BY <1>1, <2>2
      <3> QED BY <3>1, <2>2, <1>3, <1>4
    <2> QED BY <2>1, <2>2
  <1> QED BY <1>4, <1>5 DEF a, b

(* Device d ends session i of its identifier: the opener of i takes the     *)
(* place of d, should d be the opener of another.                           *)
LEMMA ExplainedFewer ==
  ASSUME Owned, Explained, NEW d \in Devices, NEW i \in DOMAIN sessions,
         Aloft(d), sessions[i].lt24_id = client[d].sid,
         sessions' = SubSeq(sessions, 1, i - 1) \o SubSeq(sessions, i + 1, Len(sessions)),
         lost' = lost, \A e \in Devices : e # d => client'[e] = client[e]
  PROVE  Explained'
  <1>1. PICK g : Explains(g)
    BY DEF Explained
  <1> DEFINE n == Len(sessions)
             at(j) == IF j < i THEN j ELSE j + 1
             other(k) == IF g[k] = <<"device", d>> THEN g[i] ELSE g[k]
             h == [j \in 1 .. n - 1 |-> other(at(j))]
  <1>2. sessions \in Seq(OwnSession) /\ n \in Nat /\ DOMAIN sessions = 1 .. n /\ i \in 1 .. n
    BY DEF Owned
  <1>3. DOMAIN sessions' = 1 .. n - 1 /\ \A j \in 1 .. n - 1 : sessions'[j] = sessions[at(j)]
    BY <1>2, Without
  <1>4. /\ \A j \in 1 .. n - 1 : at(j) \in 1 .. n /\ at(j) # i
        /\ \A j, k \in 1 .. n - 1 : at(j) = at(k) => j = k
    <2> HIDE DEF n
    <2> QED BY <1>2
  <1>5. /\ \A k \in 1 .. n : g[k] \in Openers
        /\ \A k, l \in 1 .. n : g[k] = g[l] => k = l
        /\ \A k \in 1 .. n, e \in Devices :
             g[k] = <<"device", e>> => Aloft(e) /\ client[e].sid = sessions[k].lt24_id
    BY <1>1, <1>2 DEF Explains
  <1> HIDE DEF n, at
  <1>6. \A k, l \in 1 .. n : k # i /\ l # i /\ other(k) = other(l) => k = l
    <2> SUFFICES ASSUME NEW k \in 1 .. n, NEW l \in 1 .. n, k # i, l # i, other(k) = other(l)
                 PROVE  k = l
      OBVIOUS
    <2>1. g[k] # g[i] /\ g[l] # g[i] /\ (g[k] = g[l] => k = l)
      BY <1>2, <1>5
    <2>2. g[k] = g[l]
      BY <2>1
    <2> QED BY <2>1, <2>2
  <1>7. ASSUME NEW k \in 1 .. n, k # i, NEW e \in Devices, other(k) = <<"device", e>>
        PROVE  e # d /\ Aloft(e) /\ client[e].sid = sessions[k].lt24_id
    <2>1. CASE g[k] = <<"device", d>>
      <3>1. g[i] = <<"device", e>> /\ g[i] # g[k]
        BY <2>1, <1>2, <1>5, <1>7
      <3> QED BY <3>1, <2>1, <1>2, <1>5
    <2>2. CASE g[k] # <<"device", d>>
      BY <2>2, <1>5, <1>7
    <2> QED BY <2>1, <2>2
  <1>8. \A k \in 1 .. n : other(k) \in Openers
    BY <1>2, <1>5
  <1> HIDE DEF other
  <1>9. /\ h \in [1 .. n - 1 -> Openers]
        /\ \A j, k \in 1 .. n - 1 : h[j] = h[k] => j = k
    BY <1>4, <1>6, <1>8
  <1>10. Openers' = Openers
    BY DEF Openers
  <1>11. ASSUME NEW j \in 1 .. n - 1, NEW e \in Devices, h[j] = <<"device", e>>
         PROVE  Aloft(e)' /\ client'[e].sid = sessions'[j].lt24_id
    <2>1. at(j) \in 1 .. n /\ at(j) # i /\ other(at(j)) = <<"device", e>>
      BY <1>4, <1>11
    <2>2. e # d /\ Aloft(e) /\ client[e].sid = sessions[at(j)].lt24_id
      BY <2>1, <1>7
    <2> QED BY <2>2, <1>3 DEF Aloft
  <1>12. PICK f : f = h
    OBVIOUS
  <1> HIDE DEF h
  <1>13. Explains(f)'
    BY <1>3, <1>9, <1>10, <1>11, <1>12 DEF Explains
  <1> QED BY <1>13 DEF Explained

(* What becomes of the clients. *)
LEMMA ClientsBecome ==
  ASSUME Owned, NEW d \in Devices, NEW state, Becomes(d, state)
  PROVE  /\ \A e \in Devices : e # d => client'[e] = client[e]
         /\ client'[d].state = state
         /\ state # "idle" => client'[d].sid = client[d].sid
  <1>1. client \in [Devices -> Flyer] /\ client[d] \in Flyer /\ client[d].sid \in Ids
    BY DEF Owned, Flyer
  <1>2. client' = [client EXCEPT ![d] =
          [[client[d] EXCEPT !.state = state] EXCEPT !.sid =
             [client[d].sid EXCEPT !.high = IF state = "idle" THEN Unset ELSE client[d].sid.high]]]
    BY <1>1 DEF Becomes, Flyer
  <1>3. [client[d].sid EXCEPT !.high = client[d].sid.high] = client[d].sid
    BY <1>1 DEF Ids
  <1> QED BY <1>1, <1>2, <1>3 DEF Flyer

(* The newest session of an identifier is found if there is one at all. *)
LEMMA FoundById ==
  ASSUME Owned, NEW i \in DOMAIN sessions
  PROVE  ById(sessions[i].lt24_id) # {}
  <1> DEFINE same == {j \in DOMAIN sessions : sessions[j].lt24_id = sessions[i].lt24_id}
  <1>1. DOMAIN sessions = 1 .. Len(sessions) /\ Len(sessions) \in Nat
    BY DEF Owned
  <1>2. IsFiniteSet(1 .. Len(sessions))
    BY <1>1, FS_Interval
  <1>3. same \subseteq 1 .. Len(sessions) /\ i \in same
    BY <1>1
  <1>4. IsFiniteSet(same) /\ same # {} /\ same \subseteq Int
    <2> HIDE DEF same
    <2> QED BY <1>1, <1>2, <1>3, FS_Subset
  <1>5. PICK k \in same : \A j \in same : j <= k
    <2> HIDE DEF same
    <2> QED BY <1>4, Largest
  <1> QED BY <1>5 DEF ById

LEMMA ExplainedStep == Owned /\ Explained /\ [Next]_vars => Explained'
  <1> SUFFICES ASSUME Owned, Explained, [Next]_vars PROVE Explained'
    OBVIOUS
  <1>1. ASSUME UNCHANGED <<sessions, client, lost>> PROVE Explained'
    BY <1>1, ExplainedKept
  <1>2. ASSUME NEW d \in Devices, Login(d) PROVE Explained'
    <2>1. ~Aloft(d) /\ UNCHANGED <<sessions, lost>>
      BY <1>2 DEF Login, Aloft
    <2>2. \A e \in Devices : e # d => client'[e] = client[e]
      BY <1>2 DEF Login, Owned
    <2> QED BY <2>1, <2>2, ExplainedKept
  <1>3. ASSUME NEW d \in Devices, BeginSession(d) PROVE Explained'
    <2>1. ~Aloft(d) /\ UNCHANGED <<sessions, lost>>
      BY <1>3 DEF BeginSession, Aloft
    <2>2. \A e \in Devices : e # d => client'[e] = client[e]
      BY <1>3 DEF BeginSession, Owned
    <2> QED BY <2>1, <2>2, ExplainedKept
  <1>4. ASSUME NEW d \in Devices, CreateSession(d) PROVE Explained'
    <2>1. ~Aloft(d)
      BY <1>4 DEF CreateSession, Aloft
    <2>2. \/ Becomes(d, "idle") /\ UNCHANGED <<sessions, lost>>
          \/ /\ \E p \in ByKey(held[d]) :
                  sessions' = Append(sessions, [pilot |-> p, lt24_id |-> client[d].sid])
             /\ \/ Becomes(d, "flying") /\ UNCHANGED lost
                \/ lost' = lost + 1 /\ UNCHANGED client
      BY <1>4, Zenon DEF CreateSession
    <2>3. CASE Becomes(d, "idle") /\ UNCHANGED <<sessions, lost>>
      BY <2>1, <2>3, ClientsBecome, ExplainedKept
    <2>4. ASSUME NEW p \in ByKey(held[d]),
                 sessions' = Append(sessions, [pilot |-> p, lt24_id |-> client[d].sid]),
                 Becomes(d, "flying"), lost' = lost
          PROVE  Explained'
      <3>1. /\ \A e \in Devices : Aloft(e) => client'[e] = client[e]
            /\ Aloft(d)' /\ client'[d].sid = client[d].sid
        BY <2>1, <2>4, ClientsBecome DEF Aloft
      <3>2. <<"device", d>> \in Openers' /\ lost' \in Nat /\ lost <= lost'
        BY <2>4 DEF Openers, Explained
      <3>3. [pilot |-> p, lt24_id |-> client[d].sid].lt24_id = client[d].sid
        OBVIOUS
      <3> QED BY <2>1, <2>4, <3>1, <3>2, <3>3, ExplainedMore
    <2>5. ASSUME NEW p \in ByKey(held[d]),
                 sessions' = Append(sessions, [pilot |-> p, lt24_id |-> client[d].sid]),
                 lost' = lost + 1, client' = client
          PROVE  Explained'
      <3>1. lost' \in Nat /\ lost <= lost' /\ lost' \in 1 .. lost'
        BY <2>5 DEF Explained
      <3>2. <<"lost", lost'>> \in Openers'
        BY <3>1 DEF Openers
      <3> QED BY <2>1, <2>5, <3>1, <3>2, ExplainedMore
    <2> QED BY <2>2, <2>3, <2>4, <2>5
  <1>5. ASSUME NEW d \in Devices, FinishSession(d) PROVE Explained'
    <2>1. Aloft(d) /\ lost' = lost
      BY <1>5 DEF FinishSession, Aloft
    <2>2. \A e \in Devices : e # d => client'[e] = client[e]
      <3>1. \E state \in {"idle", "finishing"} : Becomes(d, state)
        BY <1>5, Zenon DEF FinishSession
      <3> QED BY <3>1, ClientsBecome
    <2>3. CASE ById(client[d].sid) = {}
      <3>1. sessions' = sessions
        BY <1>5, <2>3 DEF FinishSession
      <3>2. PICK g : Explains(g)
        BY DEF Explained
      <3>3. \A i \in DOMAIN sessions : g[i] # <<"device", d>>
        BY <2>3, <3>2, FoundById DEF Explains
      <3>4. Explains(g)'
        <4>1. g \in [DOMAIN sessions' -> Openers'] /\ DOMAIN sessions' = DOMAIN sessions
          BY <2>1, <3>1, <3>2 DEF Explains, Openers
        <4>2. ASSUME NEW i \in DOMAIN sessions, NEW e \in Devices, g[i] = <<"device", e>>
              PROVE  Aloft(e)' /\ client'[e].sid = sessions'[i].lt24_id
          <5>1. e # d /\ Aloft(e) /\ client[e].sid = sessions[i].lt24_id
            BY <3>2, <3>3, <4>2 DEF Explains
          <5> QED BY <5>1, <2>2, <3>1 DEF Aloft
        <4> QED BY <4>1, <4>2, <3>2 DEF Explains
      <3> QED BY <3>4, <2>1 DEF Explained
    <2>4. CASE ById(client[d].sid) # {}
      <3> DEFINE i == CHOOSE j \in ById(client[d].sid) : TRUE
      <3>1. i \in DOMAIN sessions /\ sessions[i].lt24_id = client[d].sid
        BY <2>4 DEF ById
      <3>2. sessions' = SubSeq(sessions, 1, i - 1) \o SubSeq(sessions, i + 1, Len(sessions))
        BY <1>5, <2>4 DEF FinishSession, RemoveAt
      <3> HIDE DEF i
      <3> QED BY <2>1, <2>2, <3>1, <3>2, ExplainedFewer
    <2> QED BY <2>3, <2>4
  <1>6. \/ UNCHANGED <<sessions, client, lost>>
        \/ \E d \in Devices :
             Login(d) \/ BeginSession(d) \/ CreateSession(d) \/ FinishSession(d)
    <2>1. Next =>
            \/ Tick \/ \E r \in Pilots : GenerateKey(r) \/ Clear(r)
            \/ \E m \in net : FixReceived(m) \/ Lose(m)
            \/ \E d \in Devices :
                 \/ Configure(d) \/ Send(d) \/ TrafficRequest(d) \/ Login(d)
                 \/ BeginSession(d) \/ CreateSession(d) \/ SessionFix(d)
                 \/ SessionlessFix(d) \/ FinishSession(d)
      BY Zenon DEF Next
    <2>2. Tick => UNCHANGED <<sessions, client, lost>>
      BY DEF Tick
    <2>3. \A r : GenerateKey(r) \/ Clear(r) => UNCHANGED <<sessions, client, lost>>
      BY DEF GenerateKey, Clear
    <2>4. \A m : FixReceived(m) \/ Lose(m) => UNCHANGED <<sessions, client, lost>>
      BY DEF FixReceived, Lose
    <2>5. \A d : Configure(d) \/ Send(d) => UNCHANGED <<sessions, client, lost>>
      BY DEF Configure, Send
    <2>6. \A d : TrafficRequest(d) => UNCHANGED <<sessions, client, lost>>
      BY Zenon DEF TrafficRequest
    <2>7. \A d : SessionFix(d) \/ SessionlessFix(d) => UNCHANGED <<sessions, client, lost>>
      BY DEF SessionFix, SessionlessFix
    <2>8. UNCHANGED vars => UNCHANGED <<sessions, client, lost>>
      BY DEF vars
    <2> QED BY <2>1, <2>2, <2>3, <2>4, <2>5, <2>6, <2>7, <2>8, Zenon
  <1> QED BY <1>1, <1>2, <1>3, <1>4, <1>5, <1>6

(* There are no more openers than devices in a session and lost answers. *)
LEMMA ExplainedCounts == Owned /\ Explained => LeftOpen
  <1> SUFFICES ASSUME Owned, Explained PROVE LeftOpen
    OBVIOUS
  <1> DEFINE busy == {d \in Devices : client[d].state # "idle"}
             dev == {"device"} \X busy
             rest == {"lost"} \X (1 .. lost)
             n == Len(sessions)
  <1>1. PICK g : Explains(g)
    BY DEF Explained
  <1>2. IsFiniteSet(busy) /\ Cardinality(busy) \in Nat
    BY SkewAssumption, FS_Subset, FS_CardinalityType
  <1>3. lost \in Nat /\ IsFiniteSet(1 .. lost) /\ Cardinality(1 .. lost) = lost
    <2>1. lost \in Nat
      BY DEF Explained
    <2> QED BY <2>1, FS_Interval
  <1>4. \A x : IsFiniteSet({x}) /\ Cardinality({x}) = 1
    BY FS_Singleton
  <1>5. IsFiniteSet(dev) /\ Cardinality(dev) = Cardinality(busy)
    <2>1. IsFiniteSet(dev) /\ Cardinality(dev) = Cardinality({"device"}) * Cardinality(busy)
      <3> HIDE DEF busy
      <3> QED BY <1>2, <1>4, FS_Product
    <2>2. Cardinality({"device"}) = 1
      BY <1>4
    <2>3. 1 * Cardinality(busy) = Cardinality(busy)
      <3> HIDE DEF busy
      <3> QED BY <1>2
    <2> HIDE DEF dev, busy
    <2> QED BY <2>1, <2>2, <2>3
  <1>6. IsFiniteSet(rest) /\ Cardinality(rest) = lost
    <2>1. IsFiniteSet(rest) /\ Cardinality(rest) = Cardinality({"lost"}) * Cardinality(1 .. lost)
      BY <1>3, <1>4, FS_Product
    <2>2. Cardinality({"lost"}) = 1
      BY <1>4
    <2>3. 1 * lost = lost
      BY <1>3
    <2> HIDE DEF rest
    <2> QED BY <2>1, <2>2, <2>3, <1>3
  <1>7. dev \intersect rest = {} /\ IsFiniteSet({}) /\ Cardinality({}) = 0
    BY FS_EmptySet
  <1>8. IsFiniteSet(dev \union rest) /\ Cardinality(dev \union rest) = Cardinality(busy) + lost
    <2> HIDE DEF dev, rest, busy
    <2>1. /\ IsFiniteSet(dev \union rest)
          /\ Cardinality(dev \union rest) =
               Cardinality(dev) + Cardinality(rest) - Cardinality(dev \intersect rest)
      BY <1>5, <1>6, FS_Union
    <2>2. Cardinality(dev \intersect rest) = 0
      BY <1>7
    <2>3. Cardinality(busy) + lost - 0 = Cardinality(busy) + lost
      BY <1>2, <1>3
    <2> QED BY <2>1, <2>2, <2>3, <1>5, <1>6
  <1>9. n \in Nat /\ DOMAIN sessions = 1 .. n
    BY DEF Owned
  <1>10. g \in Injection(1 .. n, dev \union rest)
    <2>1. ASSUME NEW i \in 1 .. n PROVE g[i] \in dev \union rest
      <3>1. g[i] \in Openers
        BY <1>1, <1>9 DEF Explains
      <3>2. CASE g[i] \in {"device"} \X Devices
        <4>1. PICK d \in Devices : g[i] = <<"device", d>>
          BY <3>2
        <4>2. Aloft(d)
          BY <4>1, <1>1, <1>9 DEF Explains
        <4> QED BY <4>1, <4>2 DEF Aloft
      <3> QED BY <3>1, <3>2 DEF Openers
    <2>2. \A i, j \in 1 .. n : g[i] = g[j] => i = j
      BY <1>1, <1>9 DEF Explains
    <2>3. g \in [1 .. n -> dev \union rest]
      <3>1. g \in [1 .. n -> Openers]
        BY <1>1, <1>9 DEF Explains
      <3> HIDE DEF dev, rest, n
      <3> QED BY <3>1, <2>1
    <2> HIDE DEF dev, rest, n
    <2> QED BY <2>2, <2>3 DEF Injection, IsInjective
  <1>11. Cardinality(1 .. n) = n /\ Cardinality(1 .. n) <= Cardinality(dev \union rest)
    <2> HIDE DEF dev, rest, n
    <2> QED BY <1>8, <1>9, <1>10, FS_Injection, FS_Interval
  <1> QED
    BY <1>8, <1>11 DEF LeftOpen

(* Clients that are done leave no session open (_create_session,            *)
(* _finish_session), except one for each answer that was lost, although two *)
(* devices may use one identifier and end each other's sessions.            *)
THEOREM FewSessionsLeftOpen == Spec => []LeftOpen
  <1>1. Init => Owned /\ Explained
    BY OwnedInit, ExplainedInit
  <1>2. Owned /\ Explained /\ [Next]_vars => (Owned /\ Explained)'
    BY OwnedStep, ExplainedStep
  <1> QED BY <1>1, <1>2, ExplainedCounts, PTL DEF Spec

------------------------------------------------------------------------------
(* The sessions of a track *)

File == [name : Int \X Nat, fixes : Seq(Nat)]

ExportTyped ==
  /\ track \in Tracks /\ passed \in 0 .. Len(track)
  /\ files \in Seq(File)
  /\ flights \in [{Midnight(t) : t \in Range(track)} -> Nat]

(* b holds the beginnings, in order, and each file ends before the next.    *)
Cut(b) ==
  /\ b \in [1 .. Len(files) -> 1 .. passed]
  /\ \A m, n \in 1 .. Len(files) : m < n => b[m] < b[n]
  /\ Beginnings = {b[n] : n \in 1 .. Len(files)}
  /\ \A n \in 1 .. Len(files) :
       files[n].fixes = SubSeq(track, b[n], IF n = Len(files) THEN passed ELSE b[n + 1] - 1)

(* The counter of a date is the highest number in a name. *)
Named ==
  /\ \A n \in DOMAIN files :
       files[n].name[1] \in DOMAIN flights /\ files[n].name[2] <= flights[files[n].name[1]]
  /\ \A m, n \in DOMAIN files : files[m].name = files[n].name => m = n

SplitInv == ExportTyped /\ (\E b : Cut(b)) /\ Named

LEMMA ThisFixTyped ==
  ASSUME ExportTyped
  PROVE  /\ track \in Seq(Nat) /\ \A k, l \in DOMAIN track : k <= l => track[k] <= track[l]
         /\ passed < Len(track) => /\ ThisFix \in Nat /\ Midnight(ThisFix) \in DOMAIN flights
                              /\ Midnight(ThisFix) \in Int /\ passed + 1 \in DOMAIN track
         /\ passed \in Nat /\ Len(track) \in Nat /\ Len(files) \in Nat
         /\ \A k \in 1 .. passed : k \in DOMAIN track /\ track[k] \in Nat
  <1>1. track \in Seq(Nat) /\ \A k, l \in DOMAIN track : k <= l => track[k] <= track[l]
    BY TracksAssumption DEF ExportTyped
  <1>2. ASSUME passed < Len(track)
        PROVE  /\ ThisFix \in Nat /\ Midnight(ThisFix) \in DOMAIN flights
               /\ Midnight(ThisFix) \in Int /\ passed + 1 \in DOMAIN track
    <2>1. passed + 1 \in DOMAIN track /\ ThisFix \in Nat
      BY <1>1, <1>2 DEF ExportTyped, ThisFix
    <2>2. ThisFix \in Range(track)
      BY <2>1 DEF Range, ThisFix
    <2>3. Midnight(ThisFix) \in Int
      BY <2>1, DayAssumption DEF Midnight, TimeOfDay
    <2> QED BY <2>1, <2>2, <2>3 DEF ExportTyped
  <1> QED BY <1>1, <1>2 DEF ExportTyped

LEMMA SplitInvInit == ExportInit => SplitInv
  <1> SUFFICES ASSUME ExportInit PROVE SplitInv
    OBVIOUS
  <1>1. track \in Seq(Nat)
    BY TracksAssumption DEF ExportInit
  <1>2. ExportTyped /\ Named
    BY <1>1 DEF ExportInit, ExportTyped, Named
  <1>3. Beginnings = {} /\ Len(files) = 0
    BY DEF ExportInit, Beginnings
  <1>4. Cut(<<>>)
    BY <1>3 DEF ExportInit, Cut
  <1> QED BY <1>2, <1>4 DEF SplitInv

(* The beginnings among the next fix and those before. *)
LEMMA NextBeginning ==
  ASSUME ExportTyped, passed < Len(track), passed' = passed + 1, track' = track
  PROVE  /\ NewSession => Beginnings' = Beginnings \union {passed + 1}
         /\ ~NewSession => Beginnings' = Beginnings
  <1>1. /\ passed \in Nat /\ track \in Seq(Nat) /\ track[passed + 1] \in Nat
        /\ \A k \in 1 .. passed : track[k] \in Nat
    BY ThisFixTyped DEF ThisFix
  <1> DEFINE T == {k \in 1 .. passed + 1 : k > 1 => track[k] - track[k - 1] > Gap}
  <1>2. Beginnings' = T
    BY DEF Beginnings
  <1>3. NewSession <=> passed + 1 \in T
    BY <1>1 DEF NewSession, Dt, ThisFix
  <1>4. ASSUME NEW k \in 1 .. passed
        PROVE  k \in T <=> k \in Beginnings
    BY <1>1 DEF Beginnings
  <1>5. T \subseteq 1 .. passed + 1 /\ Beginnings \subseteq 1 .. passed
    BY DEF Beginnings
  <1> HIDE DEF T
  <1>6. \A k \in 1 .. passed + 1 : k \in 1 .. passed \/ k = passed + 1
    BY <1>1
  <1>7. \A k : k \in T <=> k \in Beginnings \/ (NewSession /\ k = passed + 1)
    <2>1. \A k : k \in Beginnings => k \in 1 .. passed
      BY <1>5
    <2>2. \A k : k \in T => k \in 1 .. passed \/ k = passed + 1
      BY <1>5, <1>6
    <2> QED BY <2>1, <2>2, <1>3, <1>4
  <1> QED BY <1>2, <1>7

(* Fixes from k up to the next one. *)
LEMMA OneMoreFix ==
  ASSUME NEW S, NEW s \in Seq(S), NEW k \in 1 .. Len(s), NEW l \in k - 1 .. Len(s) - 1
  PROVE  SubSeq(s, k, l + 1) = Append(SubSeq(s, k, l), s[l + 1])
  <1>1. /\ Len(SubSeq(s, k, l + 1)) = l + 2 - k /\ Len(SubSeq(s, k, l)) = l + 1 - k
        /\ SubSeq(s, k, l) \in Seq(S) /\ SubSeq(s, k, l + 1) \in Seq(S) /\ s[l + 1] \in S
    OBVIOUS
  <1>2. ASSUME NEW n \in 1 .. l + 2 - k
        PROVE  SubSeq(s, k, l + 1)[n] = Append(SubSeq(s, k, l), s[l + 1])[n]
    <2>1. SubSeq(s, k, l + 1)[n] = s[k + n - 1]
      BY <1>1
    <2>2. CASE n = l + 2 - k
      <3>1. k + n - 1 = l + 1 /\ n = Len(SubSeq(s, k, l)) + 1
        BY <2>2, <1>1
      <3>2. Append(SubSeq(s, k, l), s[l + 1])[n] = s[l + 1]
        BY <3>1, <1>1, AppendProperties
      <3> QED BY <3>1, <3>2, <2>1
    <2>3. CASE n \in 1 .. l + 1 - k
      BY <1>1, <2>1, <2>3
    <2> QED BY <2>2, <2>3
  <1> QED BY <1>1, <1>2, SeqEqual


(* The fix is written to the last file. *)
LEMMA LongerFile ==
  ASSUME files \in Seq(File), Len(files) \in DOMAIN files, ThisFix \in Nat,
         files' = [files EXCEPT ![Len(files)].fixes = Append(@, ThisFix)]
  PROVE  /\ files' \in Seq(File) /\ Len(files') = Len(files)
         /\ \A n \in 1 .. Len(files) :
              /\ files'[n].name = files[n].name
              /\ files'[n].fixes = IF n = Len(files) THEN Append(files[n].fixes, ThisFix)
                                   ELSE files[n].fixes
  <1> DEFINE last == files[Len(files)]
             longer == [last EXCEPT !.fixes = Append(@, ThisFix)]
  <1>1. last \in File
    BY ElementOfSeq
  <1>2. /\ longer \in File /\ longer.name = last.name
        /\ longer.fixes = Append(last.fixes, ThisFix)
    <2>1. last.fixes \in Seq(Nat) /\ Append(last.fixes, ThisFix) \in Seq(Nat)
      BY <1>1 DEF File
    <2>2. longer = [last EXCEPT !.fixes = Append(last.fixes, ThisFix)]
      OBVIOUS
    <2> HIDE DEF last, longer
    <2> QED BY <1>1, <2>1, <2>2 DEF File
  <1>3. files' = [files EXCEPT ![Len(files)] = longer]
    OBVIOUS
  <1> HIDE DEF longer
  <1>4. /\ files' \in Seq(File) /\ Len(files') = Len(files)
        /\ \A n \in 1 .. Len(files) : files'[n] = IF n = Len(files) THEN longer ELSE files[n]
    <2>1. Len(files) \in 1 .. Len(files)
      OBVIOUS
    <2> DEFINE other == [files EXCEPT ![Len(files)] = longer]
    <2>2. /\ other \in Seq(File) /\ Len(other) = Len(files)
          /\ \A n \in 1 .. Len(files) : other[n] = IF n = Len(files) THEN longer ELSE files[n]
      BY <2>1, <1>2, ExceptSeq
    <2>3. files' = other
      BY <1>3
    <2> HIDE DEF other
    <2> QED BY <2>2, <2>3
  <1> QED BY <1>2, <1>4

LEMMA SplitInvStep == SplitInv /\ [ExportNext]_exportVars => SplitInv'
  <1> SUFFICES ASSUME SplitInv, [ExportNext]_exportVars PROVE SplitInv'
    OBVIOUS
  <1>0. PICK b : Cut(b)
    BY DEF SplitInv
  <1>4. passed \in Nat /\ Len(track) \in Nat /\ Len(files) \in Nat /\ track \in Seq(Nat)
    BY ThisFixTyped DEF SplitInv
  <1>1. ASSUME ContinueSession PROVE SplitInv'
    <2>1. /\ passed < Len(track) /\ ~NewSession /\ passed' = passed + 1
          /\ track' = track /\ flights' = flights
          /\ files' = [files EXCEPT ![Len(files)].fixes = Append(@, ThisFix)]
          /\ passed > 0
      BY <1>1, ThisFixTyped DEF ContinueSession, SplitInv, NewSession
    <2>2. Beginnings' = Beginnings
      BY <2>1, NextBeginning DEF SplitInv
    <2>3. 1 \in Beginnings
      BY <2>1, ThisFixTyped DEF Beginnings, SplitInv
    <2>4. Len(files) \in DOMAIN files /\ Len(files) \in Nat
      BY <2>3, <1>0, ThisFixTyped DEF Cut, SplitInv, ExportTyped
    <2>5. /\ Len(files') = Len(files)
          /\ \A n \in 1 .. Len(files) :
               /\ files'[n].name = files[n].name
               /\ files'[n].fixes = IF n = Len(files) THEN Append(files[n].fixes, ThisFix)
                                    ELSE files[n].fixes
          /\ files' \in Seq(File)
      BY <2>1, <2>4, ThisFixTyped, LongerFile DEF SplitInv, ExportTyped
    <2>6. ExportTyped'
      BY <2>1, <2>5, ThisFixTyped DEF SplitInv, ExportTyped
    <2>7. Named'
      BY <2>1, <2>5, <2>4 DEF SplitInv, Named, ExportTyped
    <2>8. ASSUME NEW n \in 1 .. Len(files)
          PROVE  files'[n].fixes =
                   SubSeq(track, b[n], IF n = Len(files) THEN passed + 1 ELSE b[n + 1] - 1)
      <3>1. CASE n = Len(files)
        <4>1. b[n] \in 1 .. passed /\ files[n].fixes = SubSeq(track, b[n], passed)
          BY <1>0, <3>1 DEF Cut
        <4>2. SubSeq(track, b[n], passed + 1) =
                Append(SubSeq(track, b[n], passed), track[passed + 1])
          <5>1. b[n] \in 1 .. Len(track) /\ passed \in b[n] - 1 .. Len(track) - 1 /\ track \in Seq(Nat)
            BY <4>1, <2>1, <1>4, SMTT(20)
          <5> QED BY <5>1, OneMoreFix
        <4> QED BY <2>5, <3>1, <4>1, <4>2 DEF ThisFix
      <3>2. CASE n # Len(files)
        BY <2>5, <3>2, <1>0 DEF Cut
      <3> QED BY <3>1, <3>2
    <2>9. b \in [1 .. Len(files) -> 1 .. passed + 1]
      BY <1>0, ThisFixTyped DEF Cut, SplitInv
    <2>10. Cut(b)'
      BY <1>0, <2>1, <2>2, <2>5, <2>8, <2>9 DEF Cut
    <2> QED BY <2>6, <2>7, <2>10 DEF SplitInv
  <1>2. ASSUME StartSession PROVE SplitInv'
    <2> DEFINE d == Midnight(ThisFix)
               file == [name |-> Name(ThisFix), fixes |-> <<ThisFix>>]
    <2>0. PICK c : c = [n \in 1 .. Len(files) + 1 |->
                          IF n = Len(files) + 1 THEN passed + 1 ELSE b[n]]
      OBVIOUS
    <2>1. /\ passed < Len(track) /\ NewSession /\ passed' = passed + 1 /\ track' = track
          /\ flights' = [flights EXCEPT ![d] = @ + 1]
          /\ files' = Append(files, file)
      BY <1>2 DEF StartSession, NewSession
    <2>2. Beginnings' = Beginnings \union {passed + 1}
      BY <2>1, NextBeginning DEF SplitInv
    <2>3. /\ ThisFix \in Nat /\ d \in DOMAIN flights /\ d \in Int /\ Len(files) \in Nat /\ passed \in Nat
          /\ passed + 1 \in DOMAIN track
      BY <2>1, ThisFixTyped DEF SplitInv
    <2>4. file \in File /\ file.name = <<d, flights[d] + 1>> /\ file.fixes = <<ThisFix>>
      BY <2>3 DEF File, Name, SplitInv, ExportTyped
    <2> HIDE DEF d, file
    <2>5. /\ Len(files') = Len(files) + 1
          /\ \A n \in 1 .. Len(files) : files'[n] = files[n]
          /\ files'[Len(files) + 1] = file
          /\ files' \in Seq(File)
      BY <2>1, <2>4 DEF SplitInv, ExportTyped
    <2>6. ExportTyped'
      BY <2>1, <2>3, <2>5 DEF SplitInv, ExportTyped
    <2>7. Named'
      <3>1. /\ DOMAIN files = 1 .. Len(files) /\ DOMAIN files' = 1 .. Len(files) + 1
            /\ DOMAIN flights' = DOMAIN flights
            /\ \A n \in 1 .. Len(files) : files[n] \in File
        BY <2>5, <2>1 DEF SplitInv, ExportTyped
      <3>2. ASSUME NEW n \in 1 .. Len(files)
            PROVE  /\ files'[n].name = files[n].name
                   /\ files[n].name[1] \in DOMAIN flights
                   /\ files[n].name[2] <= flights[files[n].name[1]]
                   /\ files[n].name[2] <= flights'[files[n].name[1]]
                   /\ files[n].name # file.name
        <4>1. /\ files'[n].name = files[n].name
              /\ files[n].name[1] \in DOMAIN flights
              /\ files[n].name[2] <= flights[files[n].name[1]]
          BY <2>5, <3>1 DEF SplitInv, Named
        <4>2. files[n].name[2] \in Nat /\ \A e \in DOMAIN flights : flights[e] \in Nat
          BY <3>1 DEF File, SplitInv, ExportTyped
        <4>3. files[n].name[2] <= flights'[files[n].name[1]]
          BY <4>1, <4>2, <2>1, <2>3, SMTT(20)
        <4>4. files[n].name # <<d, flights[d] + 1>>
          BY <4>1, <4>2, <2>3
        <4> QED BY <4>1, <4>3, <4>4, <2>4
      <3>3. file.name[1] \in DOMAIN flights /\ file.name[2] <= flights'[file.name[1]]
        <4>1. flights'[d] = flights[d] + 1 /\ flights[d] + 1 \in Nat
          BY <2>1, <2>3 DEF SplitInv, ExportTyped
        <4> QED BY <2>3, <2>4, <4>1
      <3>4. \A n \in 1 .. Len(files) + 1 : n \in 1 .. Len(files) \/ n = Len(files) + 1
        BY <2>3
      <3>5. \A m, n \in DOMAIN files' : files'[m].name = files'[n].name => m = n
        BY <3>1, <3>2, <3>4, <2>5 DEF SplitInv, Named
      <3> QED BY <3>1, <3>2, <3>3, <3>4, <3>5, <2>5 DEF Named
    <2>8. \A n \in 1 .. Len(files) : b[n] \in 1 .. passed /\ c[n] = b[n]
      <3>1. \A n \in 1 .. Len(files) : n \in 1 .. Len(files) + 1 /\ n # Len(files) + 1
        BY <1>4
      <3> QED BY <3>1, <1>0, <2>0 DEF Cut
    <2>9. c \in [1 .. Len(files) + 1 -> 1 .. passed + 1] /\ c[Len(files) + 1] = passed + 1
      <3>1. \A n \in 1 .. Len(files) + 1 :
              (IF n = Len(files) + 1 THEN passed + 1 ELSE b[n]) \in 1 .. passed + 1
        <4>1. \A n \in 1 .. Len(files) + 1 : n = Len(files) + 1 \/ n \in 1 .. Len(files)
          BY <1>4
        <4>2. \A x \in 1 .. passed : x \in 1 .. passed + 1
          BY <1>4
        <4>3. passed + 1 \in 1 .. passed + 1
          BY <1>4
        <4> QED BY <4>1, <4>2, <4>3, <2>8
      <3>2. Len(files) + 1 \in 1 .. Len(files) + 1
        BY <1>4
      <3> QED BY <3>1, <3>2, <2>0
    <2>14. \A n \in 1 .. Len(files) + 1 : n \in 1 .. Len(files) \/ n = Len(files) + 1
      BY <1>4
    <2>10. ASSUME NEW m \in 1 .. Len(files) + 1, NEW n \in 1 .. Len(files) + 1, m < n
           PROVE  c[m] < c[n]
      <3>1. m \in 1 .. Len(files)
        BY <2>10, <2>14, <1>4
      <3>2. CASE n = Len(files) + 1
        <4>1. c[m] \in 1 .. passed /\ c[n] = passed + 1
          BY <3>1, <3>2, <2>8, <2>9
        <4> QED BY <4>1, <1>4
      <3>3. CASE n \in 1 .. Len(files)
        BY <3>1, <3>3, <2>8, <2>10, <1>0 DEF Cut
      <3> QED BY <3>2, <3>3, <2>14
    <2>11. Beginnings' = {c[n] : n \in 1 .. Len(files) + 1}
      <3>1. \A x : x \in {c[n] : n \in 1 .. Len(files) + 1}
                     <=> x = passed + 1 \/ x \in {b[n] : n \in 1 .. Len(files)}
        <4>1. \A n \in 1 .. Len(files) : n \in 1 .. Len(files) + 1 /\ c[n] = b[n]
          BY <2>8, <1>4
        <4>2. Len(files) + 1 \in 1 .. Len(files) + 1 /\ c[Len(files) + 1] = passed + 1
          BY <2>9, <1>4
        <4> QED BY <4>1, <4>2, <2>14
      <3> QED BY <3>1, <2>2, <1>0 DEF Cut
    <2>12. ASSUME NEW n \in 1 .. Len(files) + 1
           PROVE  files'[n].fixes =
                    SubSeq(track, c[n], IF n = Len(files) + 1 THEN passed + 1 ELSE c[n + 1] - 1)
      <3>1. CASE n = Len(files) + 1
        <4>1. SubSeq(track, passed + 1, passed + 1) = <<track[passed + 1]>>
          <5>1. SubSeq(track, passed + 1, passed + 1) =
                  Append(SubSeq(track, passed + 1, passed), track[passed + 1])
            BY <2>3, <1>4, OneMoreFix
          <5>2. SubSeq(track, passed + 1, passed) = <<>>
            BY <1>4
          <5>3. Append(<<>>, track[passed + 1]) = <<track[passed + 1]>>
            OBVIOUS
          <5> QED BY <5>1, <5>2, <5>3
        <4> QED BY <4>1, <3>1, <2>4, <2>5, <2>9 DEF ThisFix
      <3>2. CASE n \in 1 .. Len(files)
        <4>1. files'[n].fixes = SubSeq(track, b[n], IF n = Len(files) THEN passed ELSE b[n + 1] - 1)
          BY <3>2, <2>5, <1>0 DEF Cut
        <4>2. (IF n = Len(files) THEN passed ELSE b[n + 1] - 1) = c[n + 1] - 1
          <5>1. CASE n = Len(files)
            BY <5>1, <2>9, <1>4
          <5>2. CASE n # Len(files)
            <6>1. n + 1 \in 1 .. Len(files) /\ c[n + 1] = b[n + 1]
              BY <5>2, <3>2, <2>8, <1>4
            <6> QED BY <6>1, <5>2
          <5> QED BY <5>1, <5>2
        <4>3. n # Len(files) + 1 /\ c[n] = b[n]
          BY <3>2, <2>8, <1>4
        <4> QED BY <4>1, <4>2, <4>3
      <3> QED BY <3>1, <3>2, <2>3
    <2>13. Cut(c)'
      <3>1. \A m, n \in 1 .. Len(files') : m < n => c[m] < c[n]
        BY <2>5, <2>10
      <3> QED BY <3>1, <2>1, <2>5, <2>9, <2>11, <2>12 DEF Cut
    <2> QED BY <2>6, <2>7, <2>13 DEF SplitInv
  <1>3. ASSUME UNCHANGED <<track, passed, files, flights>> PROVE SplitInv'
    <2>1. Beginnings' = Beginnings
      BY <1>3 DEF Beginnings
    <2>2. Cut(b)'
      BY <1>0, <1>3, <2>1 DEF Cut
    <2> QED BY <1>3, <2>2 DEF SplitInv, ExportTyped, Named
  <1> QED BY <1>1, <1>2, <1>3 DEF ExportNext, EndOfTrack, exportVars

LEMMA CutSplits == SplitInv => FilesSplit
  <1> SUFFICES ASSUME SplitInv PROVE FilesSplit
    OBVIOUS
  <1> DEFINE N == Len(files)
  <1>1. PICK b : Cut(b)
    BY DEF SplitInv
  <1>2. N \in Nat /\ passed \in Nat
    BY ThisFixTyped DEF SplitInv
  <1>3. ASSUME NEW n \in 0 .. N
        PROVE  Cardinality({b[m] : m \in 1 .. n}) = n
    <2> DEFINE S == {b[m] : m \in 1 .. n}
               f == [m \in 1 .. n |-> b[m]]
    <2>1. \A m, l \in 1 .. n : b[m] = b[l] => m = l
      <3>1. \A m, l \in 1 .. n : b[m] \in Nat /\ (m < l => b[m] < b[l])
        BY <1>1, <1>2 DEF Cut
      <3> QED BY <3>1
    <2>2. f \in Bijection(1 .. n, S)
      <3>1. f \in [1 .. n -> S] /\ \A x \in 1 .. n : f[x] = b[x]
        OBVIOUS
      <3>2. \A x, y \in 1 .. n : f[x] = f[y] => x = y
        BY <2>1, <3>1
      <3>3. \A s \in S : \E x \in 1 .. n : f[x] = s
        BY <3>1
      <3> HIDE DEF f, S
      <3> QED BY <3>1, <3>2, <3>3 DEF Bijection, Injection, Surjection, IsInjective
    <2>3. Cardinality(S) = Cardinality(1 .. n)
      BY <2>2, FS_Bijection, FS_Interval DEF ExistsBijection
    <2>4. Cardinality(1 .. n) = n
      <3>1. Cardinality(1 .. n) = IF 1 > n THEN 0 ELSE n - 1 + 1
        BY FS_Interval
      <3> QED BY <3>1
    <2> QED BY <2>3, <2>4
  <1>4. Cardinality(Beginnings) = N
    <2>1. N \in 0 .. N
      BY <1>2
    <2>2. Beginnings = {b[m] : m \in 1 .. N}
      BY <1>1 DEF Cut
    <2> QED BY <2>1, <2>2, <1>3
  <1>5. ASSUME NEW k \in Beginnings, NEW l \in k .. passed, Beginnings \intersect k + 1 .. l = {},
               l < passed => l + 1 \in Beginnings
        PROVE  files[Cardinality(Beginnings \intersect 1 .. k)].fixes = SubSeq(track, k, l)
    <2>1. PICK n \in 1 .. N : k = b[n]
      BY <1>1 DEF Cut
    <2>2. \A m \in 1 .. N : b[m] \in 1 .. passed /\ (m < n => b[m] < k) /\ (n < m => k < b[m])
      BY <1>1, <2>1 DEF Cut
    <2>3. Beginnings \intersect 1 .. k = {b[m] : m \in 1 .. n}
      <3>1. \A m \in 1 .. N : b[m] \in 1 .. k <=> m \in 1 .. n
        BY <2>1, <2>2, <1>2
      <3>2. \A m \in 1 .. n : m \in 1 .. N
        BY <1>2
      <3>3. Beginnings = {b[m] : m \in 1 .. N}
        BY <1>1 DEF Cut
      <3> QED BY <3>1, <3>2, <3>3
    <2>4. Cardinality(Beginnings \intersect 1 .. k) = n
      BY <2>3, <1>3
    <2>5. ASSUME NEW m \in 1 .. N, n < m
          PROVE  b[m] > l
      <3>1. b[m] \in Beginnings /\ b[m] \in Nat /\ k < b[m] /\ k \in Nat /\ l \in Nat
        BY <2>2, <2>5, <1>1, <1>2 DEF Cut
      <3>2. b[m] \notin k + 1 .. l
        BY <3>1, <1>5
      <3> QED BY <3>1, <3>2
    <2>6. (IF n = N THEN passed ELSE b[n + 1] - 1) = l
      <3>1. CASE l = passed
        BY <3>1, <2>2, <2>5, <1>2
      <3>2. CASE l < passed
        <4>1. PICK m \in 1 .. N : l + 1 = b[m]
          BY <3>2, <1>5, <1>1 DEF Cut
        <4>2. n < m
          BY <4>1, <2>1, <2>2, <1>2
        <4>3. n + 1 \in 1 .. N /\ b[n + 1] > l /\ (n + 1 < m => b[n + 1] < b[m])
          BY <4>2, <2>5, <1>1, <1>2 DEF Cut
        <4>4. b[n + 1] \in Nat /\ l \in Nat
          <5>1. b[n + 1] \in 1 .. passed
            BY <4>3, <2>2
          <5>2. k \in 1 .. passed
            BY DEF Beginnings
          <5> QED BY <5>1, <5>2, <1>2
        <4> QED BY <4>1, <4>2, <4>3, <4>4, <1>2
      <3> QED BY <3>1, <3>2, <1>2
    <2> QED BY <2>1, <2>4, <2>6, <1>1 DEF Cut
  <1> QED BY <1>4, <1>5 DEF FilesSplit, SplitInv, Named

(* "tracking export" writes each fix once: the files are the fixes from one *)
(* beginning to the next, in order, and have different names, for tracks of *)
(* any length, gap and length of a day.                                     *)
THEOREM FilesOfSessions == ExportSpec => []FilesSplit
  <1> QED BY SplitInvInit, SplitInvStep, CutSplits, PTL DEF ExportSpec


------------------------------------------------------------------------------
(* The statistics of a track *)

(* The bounds of a session that has the fixes f so far.                     *)
Bounds(s, f) ==
  /\ s.start = f[1] /\ s.num_fixes = Len(f)
  /\ Len(f) = 1 => s.min_dt = Far /\ s.max_dt = 0
  /\ Len(f) > 1 =>
       /\ \E k \in 1 .. Len(f) - 1 : s.min_dt = f[k + 1] - f[k]
       /\ \E k \in 1 .. Len(f) - 1 : s.max_dt = f[k + 1] - f[k]
  /\ \A k \in 1 .. Len(f) - 1 : s.min_dt <= f[k + 1] - f[k] /\ f[k + 1] - f[k] <= s.max_dt
  /\ s.min_dt * (Len(f) - 1) <= f[Len(f)] - f[1]
  /\ f[Len(f)] - f[1] <= s.max_dt * (Len(f) - 1)

Count == [start : Nat, num_fixes : Nat, min_dt : Nat, max_dt : Nat]

(* The session that is counted is that of the last file, and all others are *)
(* finished.                                                                *)
CountInv ==
  /\ session \in Count
  /\ finished \in Seq([start : Nat, end : Nat, num_fixes : Nat, min_dt : Nat, max_dt : Nat])
  /\ passed = 0 => files = <<>> /\ finished = <<>>
  /\ passed > 0 => LET f == files[Len(files)].fixes IN
       /\ files # <<>> /\ f # <<>> /\ f[Len(f)] = track[passed] /\ Bounds(session, f)
       /\ Len(finished) = Len(files) - 1 \/ (passed = Len(track) /\ Len(finished) = Len(files))
  /\ \A n \in DOMAIN finished : LET f == files[n].fixes IN
       f # <<>> /\ Bounds(finished[n], f) /\ finished[n].end = f[Len(f)]

LEMMA BoundsMatch ==
  ASSUME NEW f \in Seq(Nat), f # <<>>, NEW s, s.end \in Nat, s.start \in Nat,
         Bounds(s, f), s.end = f[Len(f)], s.min_dt \in Nat, s.max_dt \in Nat
  PROVE  /\ s.start = f[1] /\ s.end = Last(f) /\ s.num_fixes = Len(f)
         /\ LET dts == {f[k + 1] - f[k] : k \in 1 .. Len(f) - 1} IN
              dts # {} =>
                /\ {s.min_dt, s.max_dt} \subseteq dts
                /\ \A dt \in dts : s.min_dt <= dt /\ dt <= s.max_dt
                /\ (s.end - s.start) \in s.min_dt * (Len(f) - 1) .. s.max_dt * (Len(f) - 1)
  <1>1. s.start = f[1] /\ s.end = Last(f) /\ s.num_fixes = Len(f)
    BY DEF Bounds, Last
  <1> DEFINE dts == {f[k + 1] - f[k] : k \in 1 .. Len(f) - 1}
  <1>2. ASSUME dts # {}
        PROVE  /\ {s.min_dt, s.max_dt} \subseteq dts
               /\ \A dt \in dts : s.min_dt <= dt /\ dt <= s.max_dt
    <2>1. Len(f) > 1
      BY <1>2
    <2> QED BY <2>1 DEF Bounds
  <1>3. (s.end - s.start) \in s.min_dt * (Len(f) - 1) .. s.max_dt * (Len(f) - 1)
    <2>1. /\ s.min_dt * (Len(f) - 1) <= s.end - s.start
          /\ s.end - s.start <= s.max_dt * (Len(f) - 1)
      BY DEF Bounds
    <2>2. /\ Len(f) - 1 \in Int /\ s.min_dt * (Len(f) - 1) \in Int
          /\ s.max_dt * (Len(f) - 1) \in Int
      OBVIOUS
    <2> QED BY <2>1, <2>2
  <1> QED BY <1>1, <1>2, <1>3

LEMMA CountMatches == SplitInv /\ CountInv => StatsMatchFiles
  <1> SUFFICES ASSUME SplitInv, CountInv, NEW n \in DOMAIN finished
               PROVE  LET s == finished[n]  f == files[n].fixes IN
                      /\ s.start = f[1] /\ s.end = Last(f) /\ s.num_fixes = Len(f)
                      /\ LET dts == {f[k + 1] - f[k] : k \in 1 .. Len(f) - 1} IN
                           dts # {} =>
                             /\ {s.min_dt, s.max_dt} \subseteq dts
                             /\ \A dt \in dts : s.min_dt <= dt /\ dt <= s.max_dt
                             /\ (s.end - s.start)
                                  \in s.min_dt * (Len(f) - 1) .. s.max_dt * (Len(f) - 1)
    BY DEF StatsMatchFiles
  <1>1. n \in DOMAIN files
    <2>1. CASE passed = 0
      BY <2>1 DEF CountInv
    <2>2. CASE passed > 0
      BY <2>2, ThisFixTyped DEF CountInv, SplitInv, ExportTyped
    <2> QED BY <2>1, <2>2, ThisFixTyped DEF SplitInv
  <1>2. files[n] \in File
    BY <1>1 DEF SplitInv, ExportTyped
  <1>3. files[n].fixes \in Seq(Nat) /\ files[n].fixes # <<>>
    BY <1>2 DEF File, CountInv
  <1>4. finished[n] \in [start : Nat, end : Nat, num_fixes : Nat, min_dt : Nat, max_dt : Nat]
    <2>1. finished \in Seq([start : Nat, end : Nat, num_fixes : Nat, min_dt : Nat, max_dt : Nat])
      BY DEF CountInv
    <2>2. n \in 1 .. Len(finished)
      BY <2>1, SMTT(20)
    <2> QED BY <2>1, <2>2, ElementOfSeq
  <1>5. Bounds(finished[n], files[n].fixes)
        /\ finished[n].end = files[n].fixes[Len(files[n].fixes)]
    BY Zenon DEF CountInv
  <1> QED BY <1>3, <1>4, <1>5, BoundsMatch

LEMMA CountInvInit == ExportInit => CountInv
  BY GapAssumption DEF ExportInit, CountInv, Count

(* One more fix, no more than Gap after the last. *)
LEMMA BoundsGrow ==
  ASSUME NEW f \in Seq(Nat), f # <<>>, NEW s \in Count, NEW t \in Nat, Bounds(s, f),
         NEW d \in 0 .. Gap, d = t - f[Len(f)]
  PROVE  Bounds([s EXCEPT !.num_fixes = @ + 1, !.min_dt = IF d < @ THEN d ELSE @,
                          !.max_dt = IF d > @ THEN d ELSE @],
                Append(f, t))
  <1> DEFINE g == Append(f, t)
             lo == IF d < s.min_dt THEN d ELSE s.min_dt
             hi == IF d > s.max_dt THEN d ELSE s.max_dt
             r == [s EXCEPT !.num_fixes = @ + 1, !.min_dt = IF d < @ THEN d ELSE @,
                            !.max_dt = IF d > @ THEN d ELSE @]
             len == Len(f)
  <1>1. /\ r.num_fixes = s.num_fixes + 1 /\ r.min_dt = lo /\ r.max_dt = hi /\ r.start = s.start
        /\ s.min_dt \in Nat /\ s.max_dt \in Nat /\ s.num_fixes \in Nat
    BY DEF Count
  <1>2. /\ len \in Nat \ {0} /\ Len(g) = len + 1 /\ g[len + 1] = t
        /\ \A k \in 1 .. len : g[k] = f[k] /\ f[k] \in Nat
    OBVIOUS
  <1>3. d \in Nat /\ d < Far /\ Far \in Nat
    BY GapAssumption
  <1>4. /\ lo \in Nat /\ hi \in Nat /\ lo <= d /\ d <= hi /\ lo <= s.min_dt /\ s.max_dt <= hi
        /\ len = 1 => lo = d /\ hi = d
        /\ lo \in {d, s.min_dt} /\ hi \in {d, s.max_dt}
    <2>1. len = 1 => s.min_dt = Far /\ s.max_dt = 0
      BY DEF Bounds
    <2> QED BY <1>1, <1>3, <2>1
  <1> HIDE DEF g, lo, hi, r
  <1>5. r.start = g[1] /\ r.num_fixes = Len(g) /\ Len(g) > 1
    <2>1. s.start = f[1] /\ s.num_fixes = len
      BY DEF Bounds
    <2>2. 1 \in 1 .. len
      BY <1>2
    <2> QED BY <1>1, <1>2, <2>1, <2>2
  <1>6. ASSUME NEW k \in 1 .. len
        PROVE  /\ g[k + 1] - g[k] = IF k = len THEN d ELSE f[k + 1] - f[k]
               /\ k < len => k \in 1 .. len - 1 /\ k + 1 \in 1 .. len
    <2>1. CASE k = len
      BY <2>1, <1>2 DEF len
    <2>2. CASE k < len
      <3>1. k + 1 \in 1 .. len
        BY <2>2, <1>2
      <3> QED BY <2>2, <3>1, <1>2
    <2> QED BY <2>1, <2>2, <1>2
  <1> HIDE DEF len
  <1>7. \A k \in 1 .. len : lo <= g[k + 1] - g[k] /\ g[k + 1] - g[k] <= hi
    <2> SUFFICES ASSUME NEW k \in 1 .. len
                 PROVE  lo <= g[k + 1] - g[k] /\ g[k + 1] - g[k] <= hi
      OBVIOUS
    <2>1. CASE k = len
      BY <2>1, <1>4, <1>6
    <2>2. CASE k < len
      <3>1. /\ s.min_dt <= f[k + 1] - f[k] /\ f[k + 1] - f[k] <= s.max_dt
            /\ f[k + 1] \in Nat /\ f[k] \in Nat
        BY <2>2, <1>2, <1>6 DEF Bounds, len
      <3>2. g[k + 1] - g[k] = f[k + 1] - f[k]
        BY <2>2, <1>2, <1>6
      <3>3. f[k + 1] - f[k] \in Int
        BY <3>1, SMTT(20)
      <3>4. PICK w \in Int : w = f[k + 1] - f[k]
        BY <3>3
      <3>5. s.min_dt <= w /\ w <= s.max_dt /\ g[k + 1] - g[k] = w
        BY <3>1, <3>2, <3>4
      <3>6. /\ lo <= s.min_dt /\ s.max_dt <= hi
            /\ lo \in Int /\ hi \in Int /\ s.min_dt \in Int /\ s.max_dt \in Int
        BY <1>1, <1>4
      <3>7. lo <= w /\ w <= hi
        <4>1. \A x, y, z \in Int : x <= y /\ y <= z => x <= z
          OBVIOUS
        <4>2. lo <= w
          BY <4>1, <3>5, <3>6, Zenon
        <4>3. w <= hi
          BY <4>1, <3>5, <3>6, Zenon
        <4> QED BY <4>2, <4>3
      <3> QED BY <3>5, <3>7
    <2> QED BY <2>1, <2>2, <1>2
  <1>8. \A x \in {lo, hi} : \E k \in 1 .. len : x = g[k + 1] - g[k]
    <2> SUFFICES ASSUME NEW x \in {lo, hi} PROVE \E k \in 1 .. len : x = g[k + 1] - g[k]
      OBVIOUS
    <2>1. CASE x = d
      <3>1. len \in 1 .. len
        BY <1>2
      <3> QED BY <2>1, <3>1, <1>6
    <2>2. CASE x # d
      <3>1. len > 1 /\ x \in {s.min_dt, s.max_dt}
        BY <2>2, <1>2, <1>4
      <3>2. PICK k \in 1 .. len - 1 : x = f[k + 1] - f[k]
        BY <3>1 DEF Bounds, len
      <3>3. k \in 1 .. len /\ k # len
        BY <1>2
      <3> QED BY <3>2, <3>3, <1>6
    <2> QED BY <2>1, <2>2
  <1>9. lo * len <= t - f[1] /\ t - f[1] <= hi * len
    <2> DEFINE a == s.min_dt
               b == s.max_dt
               n == len - 1
               e == f[len] - f[1]
    <2>1. a * n <= e /\ e <= b * n
      BY DEF Bounds, len
    <2>2. /\ a \in Nat /\ b \in Nat /\ n \in Nat /\ e \in Int /\ t - f[1] = e + d
          /\ f[1] \in Nat /\ f[len] \in Nat
      <3>1. 1 \in 1 .. len /\ len \in 1 .. len
        BY <1>2
      <3> QED BY <1>1, <1>2, <3>1 DEF len
    <2> HIDE DEF a, b, n, e
    <2>3. lo * n <= a * n /\ b * n <= hi * n
      <3>1. \A p, q, m \in Nat : p <= q => p * m <= q * m
        OBVIOUS
      <3> QED BY <3>1, <2>2, <1>4 DEF a, b
    <2>4. lo * (n + 1) = lo * n + lo /\ hi * (n + 1) = hi * n + hi
      BY <2>2, <1>4
    <2>5. n + 1 = len
      BY <1>2 DEF n
    <2>6. lo * n \in Int /\ hi * n \in Int /\ a * n \in Int /\ b * n \in Int
      BY <2>2, <1>4
    <2>7. lo * n + lo <= e + d /\ e + d <= hi * n + hi
      <3> DEFINE p == lo * n
                 q == hi * n
                 u == a * n
                 v == b * n
      <3>1. /\ u <= e /\ e <= v /\ p <= u /\ v <= q
            /\ p \in Int /\ q \in Int /\ u \in Int /\ v \in Int
        BY <2>1, <2>3, <2>6
      <3> HIDE DEF p, q, u, v
      <3>2. p + lo <= e + d /\ e + d <= q + hi
        <4>1. lo <= d /\ d <= hi /\ d \in Int /\ e \in Int /\ lo \in Int /\ hi \in Int
          BY <2>2, <1>3, <1>4
        <4>2. p + lo <= e + d
          BY <3>1, <4>1
        <4>3. e + d <= q + hi
          BY <3>1, <4>1
        <4> QED BY <4>2, <4>3
      <3> QED BY <3>2 DEF p, q
    <2> QED BY <2>2, <2>4, <2>5, <2>7
  <1>10. Len(g) - 1 = len /\ g[Len(g)] = t /\ g[1] = f[1]
    <2>1. 1 \in 1 .. len
      BY <1>2
    <2> QED BY <2>1, <1>2
  <1>12. /\ \E k \in 1 .. Len(g) - 1 : r.min_dt = g[k + 1] - g[k]
         /\ \E k \in 1 .. Len(g) - 1 : r.max_dt = g[k + 1] - g[k]
    BY <1>1, <1>8, <1>10
  <1>13. \A k \in 1 .. Len(g) - 1 : r.min_dt <= g[k + 1] - g[k] /\ g[k + 1] - g[k] <= r.max_dt
    BY <1>1, <1>7, <1>10
  <1>14. /\ r.min_dt * (Len(g) - 1) <= g[Len(g)] - g[1]
         /\ g[Len(g)] - g[1] <= r.max_dt * (Len(g) - 1)
    BY <1>1, <1>9, <1>10
  <1>15. Len(g) # 1
    BY <1>2
  <1>11. Bounds(r, g)
    BY <1>5, <1>12, <1>13, <1>14, <1>15, Zenon DEF Bounds
  <1> QED BY <1>11 DEF r, g


LEMMA CountInvStep == SplitInv /\ CountInv /\ [ExportNext]_exportVars => CountInv'
  <1> SUFFICES ASSUME SplitInv, CountInv, [ExportNext]_exportVars PROVE CountInv'
    OBVIOUS
  <1> DEFINE N == Len(files)
             Done == [start : Nat, end : Nat, num_fixes : Nat, min_dt : Nat, max_dt : Nat]
             Counted(n) == LET f == files[n].fixes IN
               f # <<>> /\ Bounds(finished[n], f) /\ finished[n].end = f[Len(f)]
  <1>0. /\ passed \in Nat /\ Len(track) \in Nat /\ passed <= Len(track) /\ N \in Nat
        /\ files \in Seq(File) /\ finished \in Seq(Done)
        /\ Len(finished) \in Nat /\ DOMAIN finished = 1 .. Len(finished)
    BY ThisFixTyped DEF SplitInv, ExportTyped, CountInv
  <1>8. session \in Count
    BY DEF CountInv
  <1>9. \A n \in DOMAIN finished : Counted(n)
    BY Zenon DEF CountInv
  <1> HIDE DEF Done
  <1>4. passed > 0 =>
          /\ N > 0 /\ Len(files) \in DOMAIN files /\ files[N] \in File
          /\ files[N].fixes \in Seq(Nat) /\ files[N].fixes # <<>>
          /\ files[N].fixes[Len(files[N].fixes)] = track[passed]
          /\ Bounds(session, files[N].fixes)
          /\ Len(finished) = N - 1 \/ (passed = Len(track) /\ Len(finished) = N)
          /\ track[passed] \in Nat
    <2> SUFFICES ASSUME passed > 0
                 PROVE  /\ N > 0 /\ Len(files) \in DOMAIN files /\ files[N] \in File
                        /\ files[N].fixes \in Seq(Nat) /\ files[N].fixes # <<>>
                        /\ files[N].fixes[Len(files[N].fixes)] = track[passed]
                        /\ Bounds(session, files[N].fixes)
                        /\ Len(finished) = N - 1 \/ (passed = Len(track) /\ Len(finished) = N)
                        /\ track[passed] \in Nat
      OBVIOUS
    <2>1. /\ files # <<>> /\ files[N].fixes # <<>>
          /\ files[N].fixes[Len(files[N].fixes)] = track[passed]
          /\ Bounds(session, files[N].fixes)
          /\ Len(finished) = N - 1 \/ (passed = Len(track) /\ Len(finished) = N)
      BY DEF CountInv
    <2>2. N > 0 /\ N \in DOMAIN files /\ files[N] \in File
      BY <2>1, <1>0
    <2>3. files[N].fixes \in Seq(Nat)
      BY <2>2 DEF File
    <2>4. passed \in 1 .. passed
      BY <1>0
    <2> QED BY <2>1, <2>2, <2>3, <2>4, ThisFixTyped DEF SplitInv
  <1>5. passed = 0 => files = <<>> /\ finished = <<>>
    BY DEF CountInv
  <1>6. passed > 0 => Ended \in Done /\ Ended.end = track[passed]
                 /\ \A f : Bounds(session, f) => Bounds(Ended, f)
    BY <1>8, <1>4 DEF Ended, Count, Bounds, Done
  <1>1. ASSUME ContinueSession PROVE CountInv'
    <2> DEFINE f == files[N].fixes
               g == Append(f, ThisFix)
    <2>1. /\ passed < Len(track) /\ ~NewSession /\ passed' = passed + 1
          /\ track' = track /\ finished' = finished
          /\ files' = [files EXCEPT ![Len(files)].fixes = Append(@, ThisFix)]
          /\ session' = [session EXCEPT !.num_fixes = @ + 1,
                                        !.min_dt = IF Dt < @ THEN Dt ELSE @,
                                        !.max_dt = IF Dt > @ THEN Dt ELSE @]
          /\ passed > 0
      BY <1>1, <1>0 DEF ContinueSession, NewSession
    <2>2. ThisFix \in Nat /\ Dt \in 0 .. Gap /\ Dt = ThisFix - f[Len(f)] /\ ThisFix = track[passed + 1]
      <3>1. ThisFix \in Nat /\ ThisFix = track[passed + 1] /\ track[passed] <= ThisFix
        <4>1. /\ ThisFix \in Nat /\ passed + 1 \in DOMAIN track /\ passed \in 1 .. passed
              /\ \A k, l \in DOMAIN track : k <= l => track[k] <= track[l]
          BY <2>1, <1>0, ThisFixTyped, SMTT(20) DEF SplitInv
        <4>2. passed \in DOMAIN track /\ passed <= passed + 1
          BY <4>1, <1>0, ThisFixTyped DEF SplitInv
        <4> QED BY <4>1, <4>2 DEF ThisFix
      <3>2. Dt = ThisFix - track[passed] /\ ~(Dt > Gap)
        BY <2>1 DEF Dt, NewSession
      <3> QED BY <3>1, <3>2, <2>1, <1>4, GapAssumption, SMTT(20)
    <2>3. Bounds(session', g)
      BY <2>1, <2>2, <1>8, <1>4, BoundsGrow
    <2>4. session' \in Count
      <3>1. (IF Dt < session.min_dt THEN Dt ELSE session.min_dt) \in Nat
        BY <2>2, <1>8 DEF Count
      <3>2. (IF Dt > session.max_dt THEN Dt ELSE session.max_dt) \in Nat
        BY <2>2, <1>8 DEF Count
      <3>3. session.num_fixes + 1 \in Nat
        BY <1>8 DEF Count
      <3>4. session' = [session EXCEPT !.num_fixes = @ + 1,
                                       !.min_dt = IF Dt < @ THEN Dt ELSE @,
                                       !.max_dt = IF Dt > @ THEN Dt ELSE @]
        BY <2>1
      <3> QED BY <3>1, <3>2, <3>3, <3>4, <1>8 DEF Count
    <2>5. Len(finished) = N - 1 /\ N \in DOMAIN files
      BY <2>1, <1>4
    <2>6. /\ Len(files') = N /\ files' # <<>> /\ files'[N].fixes = g
          /\ \A n \in 1 .. N : n # N => files'[n].fixes = files[n].fixes
      <3>1. /\ files' \in Seq(File) /\ Len(files') = N
            /\ \A n \in 1 .. N :
                 files'[n].fixes = IF n = N THEN Append(files[n].fixes, ThisFix)
                                   ELSE files[n].fixes
        BY <2>1, <2>2, <2>5, <1>0, LongerFile
      <3>2. N \in 1 .. N
        BY <2>5, <1>0
      <3>3. files' # <<>>
        BY <3>1, <3>2
      <3> QED BY <3>1, <3>2, <3>3
    <2>7. g # <<>> /\ g[Len(g)] = ThisFix
      <3>1. f \in Seq(Nat)
        BY <2>1, <1>4
      <3> QED BY <3>1, <2>2, AppendProperties, SMTT(20)
    <2>8. \A n \in DOMAIN finished : files'[n].fixes = files[n].fixes
      <3>1. \A n \in DOMAIN finished : n \in 1 .. N /\ n # N
        BY <2>5, <1>0
      <3> QED BY <3>1, <2>6
    <2> HIDE DEF f, g
    <2>9. \A n \in DOMAIN finished' : LET h == files'[n].fixes IN
            h # <<>> /\ Bounds(finished'[n], h) /\ finished'[n].end = h[Len(h)]
      BY <2>1, <2>8, <1>9, Zenon
    <2>10. passed + 1 > 0 /\ passed + 1 # 0
      BY <1>0
    <2> QED BY <2>1, <2>2, <2>3, <2>4, <2>5, <2>6, <2>7, <2>9, <2>10, <1>0 DEF CountInv, Done
  <1>2. ASSUME StartSession PROVE CountInv'
    <2> DEFINE file == [name |-> Name(ThisFix), fixes |-> <<ThisFix>>]
    <2>1. /\ passed < Len(track) /\ passed' = passed + 1 /\ track' = track /\ files' = Append(files, file)
          /\ finished' = IF passed = 0 THEN finished ELSE Append(finished, Ended)
          /\ session' = [start |-> ThisFix, num_fixes |-> 1, min_dt |-> Far, max_dt |-> 0]
      BY <1>2 DEF StartSession, NewSession
    <2>2. ThisFix \in Nat /\ ThisFix = track[passed + 1] /\ file.fixes = <<ThisFix>>
      BY <2>1, ThisFixTyped DEF SplitInv, ThisFix
    <2> HIDE DEF file
    <2>3. /\ Len(files') = N + 1 /\ files' # <<>> /\ files'[N + 1].fixes = <<ThisFix>>
          /\ \A n \in 1 .. N : files'[n] = files[n]
      <3>1. file \in File
        <4>1. ThisFix \in Nat /\ Midnight(ThisFix) \in DOMAIN flights /\ Midnight(ThisFix) \in Int
          BY <2>1, ThisFixTyped DEF SplitInv
        <4>2. flights[Midnight(ThisFix)] + 1 \in Nat
          BY <4>1 DEF SplitInv, ExportTyped
        <4>3. Name(ThisFix) \in Int \X Nat
          BY <4>1, <4>2 DEF Name
        <4> QED BY <4>1, <4>3 DEF file, File
      <3> QED BY <3>1, <2>1, <2>2, <1>0, AppendProperties
    <2>4. session' \in Count /\ Bounds(session', <<ThisFix>>)
      <3>1. session' \in Count
        BY <2>1, <2>2, GapAssumption DEF Count
      <3>2. Len(<<ThisFix>>) = 1 /\ <<ThisFix>>[1] = ThisFix /\ \A k \in 1 .. 1 - 1 : FALSE
        OBVIOUS
      <3>3. session'.min_dt * 0 = 0 /\ session'.max_dt * 0 = 0 /\ ThisFix - ThisFix = 0
        BY <3>1, <2>2 DEF Count
      <3> QED BY <3>1, <3>2, <3>3, <2>1 DEF Bounds
    <2>5. /\ finished' \in Seq(Done) /\ Len(finished') = N
          /\ \A n \in DOMAIN finished' : n \in 1 .. N /\
               LET h == files[n].fixes IN
               h # <<>> /\ Bounds(finished'[n], h) /\ finished'[n].end = h[Len(h)]
      <3>1. CASE passed = 0
        <4>1. finished' = <<>> /\ N = 0
          BY <3>1, <2>1, <1>5
        <4> QED BY <4>1
      <3>2. CASE passed # 0
        <4>1. passed > 0 /\ finished' = Append(finished, Ended) /\ Len(finished) = N - 1
          BY <3>2, <2>1, <1>0, <1>4
        <4>2. finished' \in Seq(Done) /\ Len(finished') = N
          BY <4>1, <1>0, <1>6, AppendProperties
        <4>3. ASSUME NEW n \in DOMAIN finished'
              PROVE  n \in 1 .. N /\
                     LET h == files[n].fixes IN
                     h # <<>> /\ Bounds(finished'[n], h) /\ finished'[n].end = h[Len(h)]
          <5>1. n \in 1 .. N
            BY <4>2
          <5>2. CASE n = N
            <6>1. finished'[n] = Ended
              BY <4>1, <5>2, <1>0, <1>6, AppendProperties
            <6> QED BY <6>1, <5>1, <5>2, <4>1, <1>4, <1>6
          <5>3. CASE n # N
            <6>1. n \in DOMAIN finished /\ finished'[n] = finished[n]
              BY <4>1, <5>1, <5>3, <1>0, <1>6, AppendProperties
            <6>2. Counted(n)
              BY <6>1, <1>9
            <6> QED BY <6>1, <6>2, <5>1
          <5> QED BY <5>2, <5>3
        <4> QED BY <4>2, <4>3
      <3> QED BY <3>1, <3>2
    <2>6. \A n \in DOMAIN finished' : LET h == files'[n].fixes IN
            h # <<>> /\ Bounds(finished'[n], h) /\ finished'[n].end = h[Len(h)]
      <3>1. \A n \in DOMAIN finished' : files'[n] = files[n]
        BY <2>3, <2>5
      <3> QED BY <3>1, <2>5, Zenon
    <2>7. passed + 1 > 0 /\ passed + 1 # 0 /\ N = N + 1 - 1
      BY <1>0
    <2>8. <<ThisFix>> # <<>> /\ <<ThisFix>>[Len(<<ThisFix>>)] = ThisFix
      OBVIOUS
    <2>9. passed' # 0 /\ (LET f == files'[Len(files')].fixes IN
            /\ files' # <<>> /\ f # <<>> /\ f[Len(f)] = track'[passed'] /\ Bounds(session', f)
            /\ Len(finished') = Len(files') - 1)
      <3>1. passed' # 0 /\ track'[passed'] = ThisFix /\ Len(finished') = Len(files') - 1
        <4>1. passed' # 0 /\ track'[passed'] = ThisFix
          BY <2>1, <2>2, <2>7
        <4>2. Len(finished') = N /\ Len(files') = N + 1
          BY <2>3, <2>5
        <4> QED BY <4>1, <4>2, <1>0
      <3>2. files'[Len(files')].fixes = <<ThisFix>>
        BY <2>3
      <3> QED BY <3>1, <3>2, <2>3, <2>4, <2>8
    <2> QED BY <2>4, <2>5, <2>6, <2>9, Zenon DEF CountInv, Done
  <1>3. ASSUME EndOfTrack PROVE CountInv'
    <2>1. /\ passed = Len(track) /\ passed > 0 /\ Len(finished) < N
          /\ finished' = Append(finished, Ended)
          /\ track' = track /\ passed' = passed /\ files' = files /\ session' = session
      BY <1>3 DEF EndOfTrack
    <2>2. Len(finished) = N - 1
      BY <2>1, <1>4, <1>0
    <2>3. /\ finished' \in Seq(Done) /\ Len(finished') = N /\ finished'[N] = Ended
          /\ \A n \in DOMAIN finished : finished'[n] = finished[n]
          /\ DOMAIN finished = 1 .. N - 1 /\ DOMAIN finished' = 1 .. N
      BY <2>1, <2>2, <1>0, <1>6, AppendProperties
    <2>4. ASSUME NEW n \in DOMAIN finished'
          PROVE  LET h == files[n].fixes IN
                 h # <<>> /\ Bounds(finished'[n], h) /\ finished'[n].end = h[Len(h)]
      <3>1. CASE n = N
        BY <3>1, <2>1, <2>3, <1>4, <1>6
      <3>2. CASE n # N
        <4>1. n \in DOMAIN finished
          BY <3>2, <2>3, <1>0
        <4>2. Counted(n) /\ finished'[n] = finished[n]
          BY <4>1, <2>3, <1>9
        <4> QED BY <4>2
      <3> QED BY <3>1, <3>2
    <2>5. passed # 0
      BY <2>1
    <2>6. files # <<>>
      BY <2>1, <1>4, <1>0
    <2> QED BY <2>1, <2>3, <2>4, <2>5, <2>6, <1>8, <1>4 DEF CountInv, Done
  <1>7. ASSUME UNCHANGED exportVars PROVE CountInv'
    BY <1>7 DEF exportVars, CountInv
  <1> QED BY <1>1, <1>2, <1>3, <1>7 DEF ExportNext

(* The statistics of a session are those of the file that "tracking export" *)
(* writes for it, for tracks of any length and any gap.                     *)
THEOREM StatisticsMatchFiles == ExportSpec => []StatsMatchFiles
  <1> QED BY SplitInvInit, SplitInvStep, CountInvInit, CountInvStep, CountMatches, PTL DEF ExportSpec
==============================================================================
