----------------------------- MODULE StoreProofs -----------------------------
(***************************************************************************)
(* Proofs about what the backend keeps between requests, for every limit,  *)
(* lifetime and cap: the window of the RateLimiter and the store of        *)
(* SessionExpiry.                                                          *)
(*                                                                         *)
(* Both models compute on lists of any length.  The lemmas about them      *)
(* argue by the least counterexample: every nonempty set of naturals has a *)
(* least member (LeastNatural).                                            *)
(***************************************************************************)
EXTENDS RateLimiter, SessionExpiry, WellFoundedInduction, SequenceTheorems, TLAPS

\* Every set of naturals has a least one: what an induction is here.
LEMMA LeastNatural ==
    ASSUME NEW T, T \subseteq Nat, T # {}
    PROVE  \E m \in T : \A n \in T : m <= n
<1>1. PICK m \in T : \A n \in T : <<n, m>> \notin OpToRel(<, Nat)
    BY WFMin, NatLessThanWellFounded, Zenon
<1>2. \A n \in T : ~(n < m)
    BY <1>1, Zenon DEF OpToRel
<1>3. QED
    BY <1>2

\* Min of a nonempty set of naturals is its least member.
LEMMA MinOfNaturals ==
    ASSUME NEW T, T \subseteq Nat, T # {}
    PROVE  Min(T) \in T /\ \A n \in T : Min(T) <= n
<1>1. \E m \in T : \A n \in T : m <= n
    BY LeastNatural
<1>2. QED
    BY <1>1, Zenon DEF Min

(***************************************************************************)
(* RateLimiter: the record of an address is the end of its log of          *)
(* admissions, from the first hit still inside the window.                 *)
(***************************************************************************)

\* What is remembered of an address, and what has been admitted of it.
Record(k) == IF k \in DOMAIN hits THEN hits[k] ELSE <<>>
Passed(now, t) == now - t >= Window
InOrder(log) == \A i, j \in 1..Len(log) : i <= j => log[i] <= log[j]

\* The record is the end of the log of admissions, and what it lacks has left the
\* window, be it popped or dropped with its address.
Recent(now, log, record) ==
    LET gone == Len(log) - Len(record)
    IN  /\ gone >= 0
        /\ \A i \in 1..Len(record) : record[i] = log[gone + i]
        /\ \A i \in 1..gone : Passed(now, log[i])
\* A promise is the moment at which the hit that makes room leaves the window.
PromiseKept(k) ==
    promised[k] # NoPromise =>
        /\ Len(admitted[k]) >= limit
        /\ promised[k] >= admitted[k][Len(admitted[k]) - limit + 1] + Window
LogSpread(k) ==
    Len(admitted[k]) > limit => admitted[k][limit + 1] - admitted[k][1] >= Window

Logged(k) ==
    /\ InOrder(admitted[k]) /\ Recent(tick, admitted[k], Record(k))
    /\ \A i \in 1..Len(admitted[k]) : admitted[k][i] <= tick

RInv == LimiterTypeOK /\ \A k \in Addresses : Logged(k) /\ PromiseKept(k) /\ LogSpread(k)

\* The window is some ticks long, and a hit that is stale has left it.
LEMMA WindowFacts == /\ Window \in Nat \ {0} /\ StaleAfter \in Nat /\ Window <= StaleAfter
                     /\ limit \in Nat \ {0} /\ TicksPerSecond \in Nat \ {0} /\ LastTick \in Nat
<1> USE LimiterAssumption DEF LimiterAssumption
<1>1. Window \in Nat \ {0} /\ StaleAfter \in Nat
    BY DEF Window, StaleAfter
<1>2. Window <= StaleAfter
    BY DEF Window, StaleAfter
<1>3. QED
    BY <1>1, <1>2

\* Seconds rounded up are not too short, and too long by less than one.
LEMMA CeilFacts ==
    ASSUME NEW n \in Nat
    PROVE  /\ CeilSeconds(n) \in Nat
           /\ CeilSeconds(n) * TicksPerSecond >= n
           /\ CeilSeconds(n) * TicksPerSecond < n + TicksPerSecond
<1> DEFINE T == TicksPerSecond
           m == n + T - 1
<1>1. T \in Nat \ {0} /\ m \in Nat
    BY LimiterAssumption DEF LimiterAssumption
<1>2. m = T * (m \div T) + (m % T) /\ m % T \in 0..(T - 1) /\ m \div T \in Nat
    BY <1>1
<1>3. QED
    BY <1>1, <1>2 DEF CeilSeconds

\* The log of admissions, as a function, is "before" hits that have left the window
\* and then the w hits of the record.
EndOfLog(now, before, w, log, record) ==
    /\ log \in [1..(before + w) -> Nat] /\ record \in [1..w -> Nat] /\ record \in Seq(Ticks)
    /\ w <= limit /\ before + w <= limit + 1
    /\ \A i, j \in 1..(before + w) : i <= j => log[i] <= log[j]
    /\ \A i \in 1..w : record[i] = log[before + i]
    /\ \A i \in 1..before : Passed(now, log[i])

\* Of a log in order, with a record of its end, what begins at the first hit of the
\* record still inside is what is inside.
LEMMA EndInside ==
    ASSUME NEW before \in Nat, NEW w \in Nat, NEW log, NEW window, NEW now \in Nat,
           EndOfLog(now, before, w, log, window),
           NEW m \in 1..w, ~Passed(now, window[m]), \A i \in 1..(m - 1) : Passed(now, window[i])
    PROVE  /\ \A i \in 1..(w - m + 1) : /\ window[m + i - 1] = log[before + m - 1 + i]
                                        /\ ~Passed(now, window[m + i - 1])
           /\ \A i \in 1..(before + m - 1) : Passed(now, log[i])
<1> USE DEF EndOfLog
<1>1. ASSUME NEW i \in 1..(w - m + 1)
      PROVE  window[m + i - 1] = log[before + m - 1 + i] /\ ~Passed(now, window[m + i - 1])
    <2>1. m + i - 1 \in 1..w /\ before + (m + i - 1) = before + m - 1 + i
        OBVIOUS
    <2>2. window[m + i - 1] = log[before + m - 1 + i]
        BY <2>1
    <2>3. before + m \in 1..(before + w) /\ before + m - 1 + i \in 1..(before + w) /\ before + m <= before + m - 1 + i
        OBVIOUS
    <2>4. log[before + m] <= log[before + m - 1 + i]
        BY <2>3
    <2>5. ~Passed(now, log[before + m]) /\ log[before + m] \in Nat /\ log[before + m - 1 + i] \in Nat
        BY <2>3
    <2>6. ~Passed(now, log[before + m - 1 + i])
        <3>1. PICK a \in Nat, b \in Nat : a = log[before + m] /\ b = log[before + m - 1 + i]
            BY <2>5, Zenon
        <3>2. a <= b /\ ~Passed(now, a)
            BY <2>4, <2>5, <3>1, Zenon
        <3>3. ~Passed(now, b)
            <4> HIDE DEF EndOfLog
            <4>1. QED
                BY <3>2, WindowFacts DEF Passed
        <3>4. QED
            BY <3>1, <3>3, Zenon
    <2>7. QED
        BY <2>2, <2>6, Zenon
<1>2. ASSUME NEW i \in 1..(before + m - 1) PROVE Passed(now, log[i])
    <2>1. CASE i <= before
        BY <2>1
    <2>2. CASE i > before
        <3>1. i - before \in 1..(m - 1) /\ i - before \in 1..w /\ before + (i - before) = i
            BY <2>2
        <3>2. log[i] = window[i - before]
            BY <3>1
        <3>3. QED
            BY <3>1, <3>2
    <2>3. QED
        BY <2>1, <2>2
<1>3. QED
    BY <1>1, <1>2

\* A sequence of ticks, as a function.
LEMMA TicksFacts ==
    ASSUME NEW log \in Seq(Ticks)
    PROVE  /\ Len(log) \in Nat /\ DOMAIN log = 1..Len(log)
           /\ log \in [1..Len(log) -> Ticks] /\ log \in [1..Len(log) -> Nat]
<1>1. Len(log) \in Nat /\ DOMAIN log = 1..Len(log) /\ log \in [1..Len(log) -> Ticks]
    BY LenProperties, Zenon
<1>2. Ticks \subseteq Nat
    BY WindowFacts DEF Ticks
<1>3. QED
    BY <1>1, <1>2, Zenon

\* The log and the record of an address, with the same hits at their ends.
LEMMA RecordFacts ==
    ASSUME RInv, NEW k \in Addresses
    PROVE  \E before, w \in Nat : /\ Len(admitted[k]) = before + w /\ Len(Record(k)) = w
                                  /\ EndOfLog(tick, before, w, admitted[k], Record(k))
<1> DEFINE log == admitted[k]
           window == Record(k)
           w == Len(window)
           before == Len(log) - w
<1>1. /\ log \in Seq(Ticks) /\ Len(log) <= limit + 1
      /\ \A i, j \in 1..Len(log) : i <= j => log[i] <= log[j]
    BY Zenon DEF RInv, LimiterTypeOK, Logged, InOrder
<1>2. window \in Seq(Ticks) /\ w <= limit
    <2>1. CASE k \in DOMAIN hits
        BY <2>1, Zenon DEF RInv, LimiterTypeOK, Record
    <2>2. CASE k \notin DOMAIN hits
        <3>1. window = <<>>
            BY <2>2 DEF Record
        <3>2. QED
            BY <3>1, EmptySeq, WindowFacts
    <2>3. QED
        BY <2>1, <2>2
<1>3. /\ Len(log) \in Nat /\ w \in Nat
      /\ log \in [1..Len(log) -> Nat] /\ window \in [1..w -> Nat]
    BY <1>1, <1>2, TicksFacts, Zenon
<1>4. /\ before >= 0
      /\ \A i \in 1..w : window[i] = log[before + i]
      /\ \A i \in 1..before : Passed(tick, log[i])
    BY Zenon DEF RInv, Logged, Recent
<1> HIDE DEF log, window, w
<1>5. before \in Nat /\ before + w = Len(log)
    BY <1>3, <1>4
<1>6. /\ log \in [1..(before + w) -> Nat] /\ before + w <= limit + 1
      /\ \A i, j \in 1..(before + w) : i <= j => log[i] <= log[j]
    BY <1>1, <1>3, <1>5, Zenon
<1>7. log = admitted[k] /\ window = Record(k) /\ w = Len(window)
    BY DEF log, window, w
<1>8. EndOfLog(tick, before, w, log, window)
    BY <1>2, <1>3, <1>4, <1>6, Zenon DEF EndOfLog
<1>9. QED
    BY <1>3, <1>5, <1>7, <1>8, Zenon

\* Popping leaves exactly the admissions that are inside the window.
LEMMA PrunedFacts ==
    ASSUME RInv, NEW k \in Addresses
    PROVE  \E before, p \in Nat : /\ Len(admitted[k]) = before + p /\ Len(Pruned(k)) = p
                                  /\ EndOfLog(tick, before, p, admitted[k], Pruned(k))
                                  /\ \A i \in 1..p : ~Passed(tick, Pruned(k)[i])
<1>1. PICK before, w \in Nat : /\ Len(admitted[k]) = before + w /\ Len(Record(k)) = w
                               /\ EndOfLog(tick, before, w, admitted[k], Record(k))
    BY RecordFacts
<1>11. PICK log, window : log = admitted[k] /\ window = Record(k)
    OBVIOUS
<1>12. EndOfLog(tick, before, w, log, window)
    BY <1>1, <1>11
<1>2. tick \in Nat
    BY WindowFacts DEF RInv, LimiterTypeOK, Ticks
<1> DEFINE inside == {i \in DOMAIN hits[k] : tick - hits[k][i] < Window}
<1>3. CASE k \notin DOMAIN hits \/ inside = {}
    <2>1. Pruned(k) = <<>>
        BY <1>3, Zenon DEF Pruned
    <2>2. ASSUME NEW i \in 1..w PROVE Passed(tick, window[i])
        <3>1. k \in DOMAIN hits
            <4>1. k \notin DOMAIN hits => Len(Record(k)) = 0
                BY EmptySeq DEF Record
            <4>2. w # 0
                OBVIOUS
            <4>3. QED
                BY <1>1, <4>1, <4>2
        <3>2. window = hits[k] /\ i \in DOMAIN hits[k] /\ window[i] \in Nat
            BY <3>1, <1>11, <1>12, TicksFacts, Zenon DEF Record, EndOfLog
        <3>3. ~(tick - window[i] < Window)
            BY <3>1, <3>2, <1>3
        <3>4. QED
            BY <3>2, <3>3, <1>2, WindowFacts DEF Passed
    <2>3. \A i \in 1..(before + w) : Passed(tick, admitted[k][i])
        <3>1. ASSUME NEW i \in 1..(before + w), i > before PROVE Passed(tick, log[i])
            <4>1. i - before \in 1..w /\ before + (i - before) = i
                BY <3>1
            <4>2. log[i] = window[i - before]
                BY <4>1, <1>12 DEF EndOfLog
            <4>3. QED
                BY <4>1, <4>2, <2>2
        <3>2. ASSUME NEW i \in 1..(before + w), i <= before PROVE Passed(tick, log[i])
            BY <3>2, <1>12 DEF EndOfLog
        <3>3. QED
            BY <3>1, <3>2, <1>11
    <2>4. EndOfLog(tick, before + w, 0, log, <<>>)
        <3>1. /\ log \in [1..(before + w) -> Nat] /\ before + w <= limit + 1
              /\ \A i, j \in 1..(before + w) : i <= j => log[i] <= log[j]
            BY <1>12, Zenon DEF EndOfLog
        <3>2. <<>> \in [1..0 -> Nat] /\ <<>> \in Seq(Ticks)
            OBVIOUS
        <3>3. (before + w) + 0 = before + w /\ 0 <= limit
            BY WindowFacts
        <3>4. QED
            BY <3>1, <3>2, <3>3, <2>3, <1>11 DEF EndOfLog
    <2>5. Len(Pruned(k)) = 0 /\ Len(admitted[k]) = (before + w) + 0 /\ before + w \in Nat
        BY <1>1, <2>1
    <2>6. QED
        BY <2>1, <2>4, <2>5, <1>11
<1>4. CASE k \in DOMAIN hits /\ inside # {}
    <2>1. window = hits[k] /\ DOMAIN hits[k] = 1..w
        BY <1>4, <1>11, <1>12, TicksFacts, Zenon DEF Record, EndOfLog
    <2>2. PICK m : m = Min(inside)
        OBVIOUS
    <2>3. inside \subseteq Nat
        BY <2>1
    <2>4. m \in inside /\ \A i \in inside : m <= i
        BY <1>4, <2>2, <2>3, MinOfNaturals, Zenon
    <2>5. m \in 1..w /\ ~Passed(tick, window[m])
        <3>1. m \in 1..w /\ tick - window[m] < Window
            BY <2>1, <2>4
        <3>2. window[m] \in Nat
            BY <3>1, <1>12 DEF EndOfLog
        <3>3. QED
            BY <3>1, <3>2, <1>2, WindowFacts DEF Passed
    <2>6. ASSUME NEW i \in 1..(m - 1) PROVE Passed(tick, window[i])
        <3>1. i \in 1..w /\ i \notin inside
            BY <2>4, <2>5
        <3>2. window[i] \in Nat /\ ~(tick - window[i] < Window)
            BY <3>1, <2>1, <1>12 DEF EndOfLog
        <3>3. QED
            BY <3>2, <1>2, WindowFacts DEF Passed
    <2>7. /\ \A i \in 1..(w - m + 1) : /\ window[m + i - 1] = log[before + m - 1 + i]
                                        /\ ~Passed(tick, window[m + i - 1])
          /\ \A i \in 1..(before + m - 1) : Passed(tick, log[i])
        BY EndInside, <1>12, <1>2, <2>5, <2>6
    <2>8. Pruned(k) = SubSeq(window, m, w)
        BY <1>1, <1>4, <1>11, <2>1, <2>2, Zenon DEF Pruned, Record
    <2>9. /\ SubSeq(window, m, w) \in Seq(Ticks) /\ Len(SubSeq(window, m, w)) = w - m + 1
          /\ \A i \in 1..(w - m + 1) : SubSeq(window, m, w)[i] = window[m + i - 1]
        <3>1. \A i \in m..w : window[i] \in Ticks
            BY <1>1, <1>11, <1>12, <2>5, ElementOfSeq DEF EndOfLog
        <3>2. m \in Int /\ w \in Int /\ m <= w
            BY <2>5
        <3>3. QED
            BY <3>1, <3>2, SubSeqProperties
    <2>10. PICK b, p, rest : b = before + m - 1 /\ p = w - m + 1 /\ rest = SubSeq(window, m, w)
        OBVIOUS
    <2>11. b \in Nat /\ p \in Nat /\ b + p = before + w /\ p <= w
        BY <2>5, <2>10
    <2>12. /\ rest \in Seq(Ticks) /\ Len(rest) = p
           /\ \A i \in 1..p : rest[i] = log[b + i] /\ ~Passed(tick, rest[i])
           /\ \A i \in 1..b : Passed(tick, log[i])
        BY <2>7, <2>9, <2>10
    <2>13. rest \in [1..p -> Nat]
        BY <2>12, TicksFacts, Zenon
    <2>14. EndOfLog(tick, b, p, log, rest)
        <3>1. /\ log \in [1..(before + w) -> Nat] /\ w <= limit /\ before + w <= limit + 1
              /\ \A i, j \in 1..(before + w) : i <= j => log[i] <= log[j]
            BY <1>12, Zenon DEF EndOfLog
        <3>2. p <= limit
            BY <3>1, <2>11, WindowFacts
        <3>3. QED
            BY <3>1, <3>2, <2>11, <2>12, <2>13, Zenon DEF EndOfLog
    <2>15. Len(admitted[k]) = b + p /\ Pruned(k) = rest
        BY <1>1, <2>8, <2>10, <2>11
    <2>16. QED
        BY <2>11, <2>12, <2>14, <2>15, <1>11, Zenon
<1>5. QED
    BY <1>3, <1>4

\* A log and its pruned record tell the same hits of the window.
LEMMA EndIsRecent ==
    ASSUME NEW now \in Nat, NEW before \in Nat, NEW w \in Nat, NEW log, NEW record,
           Len(log) = before + w, Len(record) = w, EndOfLog(now, before, w, log, record)
    PROVE  Recent(now, log, record) /\ InOrder(log)
<1>1. Len(log) - Len(record) = before
    OBVIOUS
<1>2. InOrder(log)
    BY Zenon DEF EndOfLog, InOrder
<1>3. /\ \A i \in 1..w : record[i] = log[before + i]
      /\ \A i \in 1..before : Passed(now, log[i])
    BY Zenon DEF EndOfLog
<1>4. before >= 0
    OBVIOUS
<1>5. QED
    BY <1>1, <1>2, <1>3, <1>4, Zenon DEF Recent

\* What is dropped with its address has left the window.
LEMMA DroppedIsLeft ==
    ASSUME NEW now \in Nat, NEW before \in Nat, NEW w \in Nat, NEW log, NEW record,
           EndOfLog(now, before, w, log, record), Len(record) = w,
           record = <<>> \/ now - Last(record) >= StaleAfter
    PROVE  EndOfLog(now, before + w, 0, log, <<>>)
<1>1. /\ log \in [1..(before + w) -> Nat] /\ before + w <= limit + 1
      /\ \A i, j \in 1..(before + w) : i <= j => log[i] <= log[j]
      /\ \A i \in 1..before : Passed(now, log[i])
      /\ \A i \in 1..w : record[i] = log[before + i]
    BY Zenon DEF EndOfLog
<1>2. ASSUME NEW i \in 1..(before + w) PROVE Passed(now, log[i])
    <2>1. CASE i <= before
        BY <2>1, <1>1
    <2>2. CASE i > before
        <3>1. w # 0 /\ w \in 1..w /\ before + w \in 1..(before + w) /\ i <= before + w
            BY <2>2
        <3>2. record # <<>>
            BY <3>1, EmptySeq
        <3>3. now - log[before + w] >= StaleAfter
            BY <3>1, <3>2, <1>1, Zenon DEF Last
        <3>4. log[i] <= log[before + w] /\ log[i] \in Nat /\ log[before + w] \in Nat
            BY <3>1, <1>1
        <3>5. QED
            BY <3>3, <3>4, WindowFacts DEF Passed
    <2>3. QED
        BY <2>1, <2>2
<1>3. <<>> \in [1..0 -> Nat] /\ <<>> \in Seq(Ticks)
    OBVIOUS
<1>4. before + w + 0 = before + w /\ 0 <= limit
    BY WindowFacts
<1>5. QED
    BY <1>1, <1>2, <1>3, <1>4 DEF EndOfLog

\* What has left the window does not come back to it.
LEMMA LeftStays ==
    ASSUME NEW now \in Nat, NEW before \in Nat, NEW w \in Nat, NEW log, NEW record,
           EndOfLog(now, before, w, log, record)
    PROVE  EndOfLog(now + 1, before, w, log, record)
<1>1. log \in [1..(before + w) -> Nat] /\ \A i \in 1..before : Passed(now, log[i])
    BY Zenon DEF EndOfLog
<1>2. \A i \in 1..before : log[i] \in Nat
    BY <1>1
<1>3. \A i \in 1..before : Passed(now + 1, log[i])
    BY <1>1, <1>2, WindowFacts DEF Passed
<1>4. QED
    BY <1>3, Zenon DEF EndOfLog

\* A tick at the end of a record.
LEMMA AppendedTick ==
    ASSUME NEW record \in Seq(Ticks), NEW now \in Ticks
    PROVE  /\ Append(record, now) \in Seq(Ticks) /\ Len(Append(record, now)) = Len(record) + 1
           /\ \A i \in 1..Len(record) : Append(record, now)[i] = record[i]
           /\ Append(record, now)[Len(record) + 1] = now
BY AppendProperties

\* One more admission, with room in the window: what is kept of the log spans a
\* window as soon as it is longer than the limit.
LEMMA AdmissionLogged ==
    ASSUME NEW now \in Ticks, NEW before \in Nat, NEW p \in Nat, p < limit,
           NEW log \in Seq(Ticks), Len(log) = before + p, \A i \in 1..(before + p) : log[i] <= now,
           NEW record, Len(record) = p, EndOfLog(now, before, p, log, record),
           NEW newLog, newLog = LastAdmitted(Append(log, now))
    PROVE  /\ newLog \in Seq(Ticks)
           /\ \E b \in Nat : /\ Len(newLog) = b + (p + 1)
                             /\ EndOfLog(now, b, p + 1, newLog, Append(record, now))
                             /\ \A i \in 1..(b + (p + 1)) : newLog[i] <= now
           /\ Len(newLog) > limit => newLog[limit + 1] - newLog[1] >= Window
<1> DEFINE n == before + p
<1>1. now \in Nat /\ n \in Nat /\ limit \in Nat \ {0} /\ Window \in Nat
    BY WindowFacts DEF Ticks
<1>2. /\ log \in [1..n -> Nat] /\ record \in [1..p -> Nat] /\ record \in Seq(Ticks) /\ n <= limit + 1
      /\ \A i, j \in 1..n : i <= j => log[i] <= log[j]
      /\ \A i \in 1..p : record[i] = log[before + i]
      /\ \A i \in 1..before : Passed(now, log[i])
    BY Zenon DEF EndOfLog
<1>3. PICK longer : longer = Append(log, now)
    OBVIOUS
<1>4. /\ longer \in Seq(Ticks) /\ Len(longer) = n + 1 /\ longer # <<>>
      /\ \A i \in 1..n : longer[i] = log[i]
      /\ longer[n + 1] = now
    BY <1>3, AppendProperties
<1>5. PICK records : records = Append(record, now)
    OBVIOUS
<1>6. /\ records \in Seq(Ticks) /\ Len(records) = p + 1
      /\ \A i \in 1..p : records[i] = record[i]
      /\ records[p + 1] = now
    <2>1. record \in Seq(Ticks)
        BY <1>2
    <2>2. /\ records \in Seq(Ticks) /\ Len(records) = Len(record) + 1
          /\ \A i \in 1..Len(record) : records[i] = record[i]
          /\ records[Len(record) + 1] = now
        BY <1>5, <2>1, AppendedTick, Zenon
    <2>3. QED
        BY <2>2, Zenon
<1>7. longer \in [1..(n + 1) -> Nat] /\ records \in [1..(p + 1) -> Nat]
    BY <1>4, <1>6, TicksFacts
<1>8. \A i \in 1..before : now - log[i] >= Window
    BY <1>2 DEF Passed
<1>9. CASE n <= limit
    <2>1. newLog = longer
        BY <1>1, <1>3, <1>4, <1>9 DEF LastAdmitted
    <2>2. \A i, j \in 1..(n + 1) : i <= j => longer[i] <= longer[j]
        <3>1. ASSUME NEW i \in 1..(n + 1), NEW j \in 1..(n + 1), i <= j PROVE longer[i] <= longer[j]
            <4>1. CASE j = n + 1
                <5>1. CASE i = n + 1
                    BY <4>1, <5>1, <1>1, <1>4
                <5>2. CASE i # n + 1
                    BY <4>1, <5>2, <1>1, <1>4
                <5>3. QED
                    BY <5>1, <5>2
            <4>2. CASE j # n + 1
                <5>1. i \in 1..n /\ j \in 1..n
                    BY <3>1, <4>2, <1>1
                <5>2. QED
                    BY <3>1, <5>1, <1>2, <1>4
            <4>3. QED
                BY <4>1, <4>2
        <3>2. QED
            BY <3>1
    <2>3. \A i \in 1..(p + 1) : records[i] = longer[before + i]
        <3>1. ASSUME NEW i \in 1..(p + 1) PROVE records[i] = longer[before + i]
            <4>1. CASE i = p + 1
                BY <4>1, <1>4, <1>6
            <4>2. CASE i # p + 1
                <5>1. i \in 1..p /\ before + i \in 1..n
                    BY <4>2
                <5>2. QED
                    BY <5>1, <1>2, <1>4, <1>6
            <4>3. QED
                BY <4>1, <4>2
        <3>2. QED
            BY <3>1
    <2>4. \A i \in 1..before : Passed(now, longer[i])
        <3>1. \A i \in 1..before : i \in 1..n
            BY <1>1
        <3>2. QED
            BY <3>1, <1>2, <1>4
    <2>5. before + (p + 1) = n + 1 /\ p + 1 <= limit /\ n + 1 <= limit + 1
        BY <1>1, <1>9
    <2>6. EndOfLog(now, before, p + 1, longer, records)
        BY <2>2, <2>3, <2>4, <2>5, <1>6, <1>7, Zenon DEF EndOfLog
    <2>7. \A i \in 1..(n + 1) : longer[i] <= now
        <3>1. \A i \in 1..(n + 1) : i \in 1..n \/ i = n + 1
            BY <1>1
        <3>2. now <= now
            BY <1>1
        <3>3. QED
            BY <3>1, <3>2, <1>4
    <2>8. n + 1 > limit => longer[limit + 1] - longer[1] >= Window
        <3>1. ASSUME n + 1 > limit PROVE longer[limit + 1] - longer[1] >= Window
            <4>1. n = limit /\ before >= 1 /\ 1 \in 1..before /\ 1 \in 1..n
                BY <3>1, <1>1, <1>9
            <4>2. longer[limit + 1] = now /\ longer[1] = log[1]
                BY <4>1, <1>4
            <4>3. QED
                BY <4>1, <4>2, <1>8
        <3>2. QED
            BY <3>1
    <2>9. QED
        BY <2>1, <2>5, <2>6, <2>7, <2>8, <1>4, <1>5
<1>10. CASE n > limit
    <2>1. n = limit + 1 /\ before >= 2
        BY <1>1, <1>2, <1>10
    <2>2. newLog = Tail(longer)
        BY <1>1, <1>3, <1>4, <2>1 DEF LastAdmitted
    <2>3. newLog \in Seq(Ticks) /\ Len(newLog) = n /\ \A i \in 1..n : newLog[i] = longer[i + 1]
        BY <2>2, <1>1, <1>4, HeadTailProperties
    <2>4. newLog \in [1..n -> Nat]
        BY <2>3, TicksFacts
    <2>5. \A i \in 1..n : i + 1 \in 1..(n + 1) /\ (i < n => newLog[i] = log[i + 1]) /\ (i = n => newLog[i] = now)
        <3>1. ASSUME NEW i \in 1..n PROVE i + 1 \in 1..(n + 1) /\ (i < n => newLog[i] = log[i + 1]) /\ (i = n => newLog[i] = now)
            <4>1. i + 1 \in 1..(n + 1) /\ (i < n => i + 1 \in 1..n) /\ (i = n => i + 1 = n + 1)
                BY <1>1
            <4>2. QED
                BY <4>1, <2>3, <1>4
        <3>2. QED
            BY <3>1
    <2>6. \A i, j \in 1..n : i <= j => newLog[i] <= newLog[j]
        <3>1. ASSUME NEW i \in 1..n, NEW j \in 1..n, i <= j PROVE newLog[i] <= newLog[j]
            <4>1. CASE j = n
                <5>1. CASE i = n
                    BY <4>1, <5>1, <2>5, <1>1
                <5>2. CASE i # n
                    <6>1. i < n /\ i + 1 \in 1..n
                        BY <5>2, <1>1
                    <6>2. QED
                        BY <4>1, <6>1, <2>5
                <5>3. QED
                    BY <5>1, <5>2
            <4>2. CASE j # n
                <5>1. i < n /\ j < n /\ i + 1 \in 1..n /\ j + 1 \in 1..n /\ i + 1 <= j + 1
                    BY <3>1, <4>2, <1>1
                <5>2. QED
                    BY <5>1, <2>5, <1>2
            <4>3. QED
                BY <4>1, <4>2
        <3>2. QED
            BY <3>1
    <2> DEFINE b == before - 1
    <2>7. b \in Nat /\ b + (p + 1) = n /\ p + 1 <= limit /\ n <= limit + 1
        BY <2>1, <1>1
    <2>8. \A i \in 1..(p + 1) : records[i] = newLog[b + i]
        <3>1. ASSUME NEW i \in 1..(p + 1) PROVE records[i] = newLog[b + i]
            <4>1. CASE i = p + 1
                <5>1. b + i = n /\ n \in 1..n
                    BY <4>1, <2>7, <2>1, <1>1
                <5>2. QED
                    BY <4>1, <5>1, <2>5, <1>6
            <4>2. CASE i # p + 1
                <5>1. i \in 1..p /\ b + i \in 1..n /\ b + i < n /\ b + i + 1 = before + i
                    BY <4>2, <2>7
                <5>2. newLog[b + i] = log[before + i]
                    BY <5>1, <2>5
                <5>3. QED
                    BY <5>1, <5>2, <1>2, <1>6
            <4>3. QED
                BY <4>1, <4>2
        <3>2. QED
            BY <3>1
    <2>9. \A i \in 1..b : Passed(now, newLog[i])
        <3>1. ASSUME NEW i \in 1..b PROVE Passed(now, newLog[i])
            <4>1. i \in 1..n /\ i < n /\ i + 1 \in 1..before
                BY <2>1, <2>7
            <4>2. QED
                BY <4>1, <2>5, <1>2
        <3>2. QED
            BY <3>1
    <2>10. EndOfLog(now, b, p + 1, newLog, records)
        BY <2>4, <2>6, <2>7, <2>8, <2>9, <1>6, <1>7, Zenon DEF EndOfLog
    <2>11. \A i \in 1..n : newLog[i] <= now
        <3>1. ASSUME NEW i \in 1..n PROVE newLog[i] <= now
            <4>1. CASE i = n
                BY <4>1, <2>5, <1>1
            <4>2. CASE i # n
                <5>1. i < n /\ i + 1 \in 1..n
                    BY <4>2, <1>1
                <5>2. QED
                    BY <5>1, <2>5
            <4>3. QED
                BY <4>1, <4>2
        <3>2. QED
            BY <3>1
    <2>12. newLog[limit + 1] - newLog[1] >= Window
        <3>1. 1 \in 1..n /\ 1 < n /\ 1 + 1 = 2 /\ 2 \in 1..before /\ limit + 1 \in 1..n
            BY <2>1, <1>1
        <3>2. newLog[1] = log[2] /\ newLog[limit + 1] = now
            BY <3>1, <2>1, <2>5
        <3>3. QED
            BY <3>1, <3>2, <1>8
    <2> HIDE DEF b
    <2>13. QED
        BY <2>3, <2>7, <2>10, <2>11, <2>12, <1>5, Zenon
<1>11. QED
    BY <1>1, <1>9, <1>10


\* Seconds rounded up are no sooner than the hit leaves the window, and less than
\* a second later.
LEMMA RetryAfterFacts ==
    ASSUME tick \in Nat, NEW window, NEW h \in Nat, h = Head(window), h <= tick, ~Passed(tick, h)
    PROVE  /\ RetryAfter(window) * TicksPerSecond \in Nat
           /\ tick + RetryAfter(window) * TicksPerSecond >= h + Window
           /\ RetryAfter(window) * TicksPerSecond <= Window + TicksPerSecond
<1>1. PICK left, seconds : left = Window - (tick - h) /\ seconds = CeilSeconds(left)
    OBVIOUS
<1>2. left \in Nat \ {0} /\ left <= Window
    BY <1>1, WindowFacts DEF Passed
<1>3. /\ seconds \in Nat /\ seconds * TicksPerSecond >= left
      /\ seconds * TicksPerSecond < left + TicksPerSecond
    BY <1>1, <1>2, CeilFacts
<1>4. seconds >= 1
    <2>1. 0 * TicksPerSecond = 0
        BY WindowFacts
    <2>2. seconds # 0
        BY <2>1, <1>2, <1>3
    <2>3. QED
        BY <2>2, <1>3
<1>5. RetryAfter(window) = seconds
    <2>1. RetryAfter(window) = Max({1, seconds})
        BY <1>1, Zenon DEF RetryAfter
    <2>2. Max({1, seconds}) = seconds
        BY <1>3, <1>4 DEF Max
    <2>3. QED
        BY <2>1, <2>2
<1>6. PICK ticks : ticks = seconds * TicksPerSecond
    OBVIOUS
<1>7. ticks \in Nat
    BY <1>3, <1>6, WindowFacts
<1>8. ticks >= left /\ ticks < left + TicksPerSecond
    BY <1>3, <1>6
<1>9. QED
    BY <1>1, <1>2, <1>5, <1>6, <1>7, <1>8, WindowFacts


-----------------------------------------------------------------------------
\* Nobody has asked yet.
LEMMA RInvInit == LimiterInit => RInv
<1> SUFFICES ASSUME LimiterInit PROVE RInv
    OBVIOUS
<1> USE DEF LimiterInit
<1>1. LimiterTypeOK
    <2>1. 0 \in Ticks /\ NoPromise \in {NoPromise} \cup (0..(LastTick + Window + TicksPerSecond))
        BY WindowFacts DEF Ticks
    <2>2. <<>> \in Seq(Ticks) /\ Len(<<>>) <= limit + 1
        BY EmptySeq, WindowFacts
    <2>3. DOMAIN hits = {}
        OBVIOUS
    <2>4. QED
        BY <2>1, <2>2, <2>3 DEF LimiterTypeOK
<1>2. ASSUME NEW k \in Addresses PROVE Logged(k) /\ PromiseKept(k) /\ LogSpread(k)
    <2>1. admitted[k] = <<>> /\ Record(k) = <<>> /\ promised[k] = NoPromise /\ Len(<<>>) = 0
        BY EmptySeq DEF Record
    <2>2. QED
        BY <2>1, WindowFacts DEF Logged, InOrder, Recent, PromiseKept, LogSpread
<1>3. QED
    BY <1>1, <1>2 DEF RInv

\* Dropping addresses touches no record, and takes only those at an end.
LEMMA TidiedFacts ==
    ASSUME NEW known
    PROVE  /\ DOMAIN Tidied(known) \subseteq DOMAIN known
           /\ \A a \in DOMAIN Tidied(known) : Tidied(known)[a] = known[a]
           /\ \A a \in DOMAIN known \ DOMAIN Tidied(known) :
                 known[a] = <<>> \/ tick - Last(known[a]) >= StaleAfter
BY Zenon DEF Tidied

\* After a check of k the record of every address is what it was, or what the check
\* made it, or is dropped.
LEMMA RecordsAfter ==
    ASSUME NEW k \in Addresses, NEW window,
           hits' = Tidied(Known(k, window)) \/ hits' = Known(k, window),
           NEW a \in Addresses, NEW record, record = IF a = k THEN window ELSE Record(a)
    PROVE  \/ Record(a)' = record
           \/ Record(a)' = <<>> /\ (record = <<>> \/ tick - Last(record) >= StaleAfter)
<1>1. PICK known : known = Known(k, window)
    OBVIOUS
<1>2. /\ DOMAIN known = DOMAIN hits \cup {k}
      /\ \A b \in DOMAIN known : known[b] = IF b = k THEN window ELSE hits[b]
    BY <1>1, Zenon DEF Known
<1>3. /\ DOMAIN hits' \subseteq DOMAIN known
      /\ \A b \in DOMAIN hits' : hits'[b] = known[b]
      /\ \A b \in DOMAIN known \ DOMAIN hits' : known[b] = <<>> \/ tick - Last(known[b]) >= StaleAfter
    BY <1>1, TidiedFacts, Zenon
<1>4. CASE a \in DOMAIN known
    <2>1. known[a] = record
        BY <1>2, <1>4, Zenon DEF Record
    <2>2. QED
        BY <2>1, <1>3, <1>4, Zenon DEF Record
<1>5. CASE a \notin DOMAIN known
    <2>1. record = <<>>
        BY <1>2, <1>5, Zenon DEF Record
    <2>2. Record(a)' = <<>>
        BY <1>3, <1>5, Zenon DEF Record
    <2>3. QED
        BY <2>1, <2>2
<1>6. QED
    BY <1>4, <1>5

\* The types of the records after a check.
LEMMA RecordTypesAfter ==
    ASSUME RInv, NEW k \in Addresses, NEW window \in Seq(Ticks), Len(window) <= limit,
           hits' = Tidied(Known(k, window)) \/ hits' = Known(k, window)
    PROVE  /\ DOMAIN hits' \subseteq Addresses
           /\ \A a \in DOMAIN hits' : hits'[a] \in Seq(Ticks) /\ Len(hits'[a]) <= limit
<1>1. PICK known : known = Known(k, window)
    OBVIOUS
<1>2. /\ DOMAIN known = DOMAIN hits \cup {k}
      /\ \A b \in DOMAIN known : known[b] = IF b = k THEN window ELSE hits[b]
    BY <1>1, Zenon DEF Known
<1>3. /\ DOMAIN hits' \subseteq DOMAIN known
      /\ \A b \in DOMAIN hits' : hits'[b] = known[b]
    BY <1>1, TidiedFacts, Zenon
<1>4. /\ DOMAIN hits \subseteq Addresses
      /\ \A a \in DOMAIN hits : hits[a] \in Seq(Ticks) /\ Len(hits[a]) <= limit
    BY Zenon DEF RInv, LimiterTypeOK
<1>5. QED
    BY <1>2, <1>3, <1>4, Zenon

\* An address other than the one that asked keeps its log.
LEMMA OthersLogged ==
    ASSUME RInv, tick' = tick, NEW k \in Addresses, NEW window,
           hits' = Tidied(Known(k, window)) \/ hits' = Known(k, window),
           NEW a \in Addresses, a # k, admitted'[a] = admitted[a]
    PROVE  Logged(a)'
<1>1. PICK before, w \in Nat : /\ Len(admitted[a]) = before + w /\ Len(Record(a)) = w
                               /\ EndOfLog(tick, before, w, admitted[a], Record(a))
    BY RecordFacts
<1>2. tick \in Nat /\ \A i \in 1..Len(admitted[a]) : admitted[a][i] <= tick
    <2>1. tick \in Ticks
        BY DEF RInv, LimiterTypeOK
    <2>2. QED
        BY <2>1, WindowFacts DEF RInv, Logged, Ticks
<1>3. Recent(tick, admitted[a], Record(a)') /\ InOrder(admitted[a])
    <2>1. CASE Record(a)' = Record(a)
        BY <2>1, <1>1, <1>2, EndIsRecent, Zenon
    <2>2. CASE Record(a)' # Record(a)
        <3>1. Record(a)' = <<>> /\ (Record(a) = <<>> \/ tick - Last(Record(a)) >= StaleAfter)
            BY <2>2, RecordsAfter
        <3>2. EndOfLog(tick, before + w, 0, admitted[a], <<>>)
            BY <3>1, <1>1, <1>2, DroppedIsLeft
        <3>3. before + w \in Nat /\ before + w + 0 = before + w /\ Len(<<>>) = 0
            BY <1>1
        <3>4. QED
            BY <3>1, <3>2, <3>3, <1>1, <1>2, EndIsRecent
    <2>3. QED
        BY <2>1, <2>2
<1>4. QED
    BY <1>2, <1>3, Zenon DEF Logged, Record


\* A check that admits: the log grows by a hit, and its head, when it is longer than
\* the limit, was popped.
LEMMA AdmitKeeps == ASSUME RInv, NEW k \in Addresses, Admit(k) PROVE RInv'
<1> DEFINE window == Append(Pruned(k), tick)
<1>1. /\ tick' = tick /\ tick \in Ticks /\ tick \in Nat
      /\ admitted \in [Addresses -> Seq(Ticks)]
    BY WindowFacts DEF Admit, RInv, LimiterTypeOK, Ticks
<1>2. PICK before, p \in Nat : /\ Len(admitted[k]) = before + p /\ Len(Pruned(k)) = p
                               /\ EndOfLog(tick, before, p, admitted[k], Pruned(k))
    BY PrunedFacts
<1>3. p < limit
    BY <1>2 DEF Admit
<1>4. PICK newLog : newLog = LastAdmitted(Append(admitted[k], tick))
    OBVIOUS
<1>5. admitted[k] \in Seq(Ticks) /\ \A i \in 1..(before + p) : admitted[k][i] <= tick
    <2>1. \A i \in 1..Len(admitted[k]) : admitted[k][i] <= tick
        BY Zenon DEF RInv, Logged
    <2>2. QED
        BY <1>1, <1>2, <2>1
<1>6. /\ newLog \in Seq(Ticks)
      /\ \E b \in Nat : /\ Len(newLog) = b + (p + 1)
                        /\ EndOfLog(tick, b, p + 1, newLog, window)
                        /\ \A i \in 1..(b + (p + 1)) : newLog[i] <= tick
      /\ Len(newLog) > limit => newLog[limit + 1] - newLog[1] >= Window
    BY <1>1, <1>2, <1>3, <1>4, <1>5, AdmissionLogged
<1>7. PICK b \in Nat : /\ Len(newLog) = b + (p + 1)
                       /\ EndOfLog(tick, b, p + 1, newLog, window)
                       /\ \A i \in 1..(b + (p + 1)) : newLog[i] <= tick
    BY <1>6
<1>8. window \in Seq(Ticks) /\ Len(window) = p + 1 /\ window # <<>> /\ Last(window) = tick
    <2>1. Pruned(k) \in Seq(Ticks)
        BY <1>2, Zenon DEF EndOfLog
    <2>2. /\ window \in Seq(Ticks) /\ window # <<>> /\ Len(window) = Len(Pruned(k)) + 1
          /\ window[Len(Pruned(k)) + 1] = tick
        BY <2>1, <1>1, AppendProperties
    <2>3. QED
        BY <2>2, <1>2, Zenon DEF Last
<1>9. hits' = Tidied(Known(k, window)) \/ hits' = Known(k, window)
    BY Zenon DEF Admit
<1>10. /\ admitted' = [admitted EXCEPT ![k] = newLog]
       /\ promised' = [promised EXCEPT ![k] = NoPromise]
    BY <1>1, <1>4, Zenon DEF Admit
<1> HIDE DEF window
<1>11. LimiterTypeOK'
    <2>1. p + 1 <= limit
        BY <1>3, WindowFacts
    <2>2. /\ DOMAIN hits' \subseteq Addresses
          /\ \A a \in DOMAIN hits' : hits'[a] \in Seq(Ticks) /\ Len(hits'[a]) <= limit
        BY <1>8, <1>9, <2>1, RecordTypesAfter
    <2>3. admitted' \in [Addresses -> Seq(Ticks)]
        BY <1>1, <1>6, <1>10, Zenon
    <2>4. \A a \in Addresses : Len(admitted'[a]) <= limit + 1
        <3>1. b + (p + 1) <= limit + 1
            BY <1>7, Zenon DEF EndOfLog
        <3>2. \A a \in Addresses : Len(admitted[a]) <= limit + 1
            BY Zenon DEF RInv, LimiterTypeOK
        <3>3. QED
            BY <3>1, <3>2, <1>1, <1>7, <1>10, Zenon
    <2>5. promised' \in [Addresses -> {NoPromise} \cup (0..(LastTick + Window + TicksPerSecond))]
        BY <1>10, Zenon DEF RInv, LimiterTypeOK
    <2>6. QED
        BY <2>2, <2>3, <2>4, <2>5, <1>1, Zenon DEF LimiterTypeOK
<1>12. ASSUME NEW a \in Addresses PROVE Logged(a)' /\ PromiseKept(a)' /\ LogSpread(a)'
    <2>1. CASE a = k
        <3>1. admitted'[a] = newLog /\ promised'[a] = NoPromise
            BY <2>1, <1>1, <1>10, Zenon DEF RInv, LimiterTypeOK
        <3>2. Record(a)' = window
            <4>1. ~(tick - tick >= StaleAfter)
                BY <1>1, WindowFacts
            <4>2. QED
                BY <2>1, <4>1, <1>8, <1>9, RecordsAfter
        <3>3. Recent(tick, newLog, window) /\ InOrder(newLog)
            BY <1>1, <1>7, <1>8, EndIsRecent
        <3>4. Logged(a)'
            BY <3>1, <3>2, <3>3, <1>1, <1>7, Zenon DEF Logged
        <3>5. QED
            BY <3>1, <3>4, <1>6, Zenon DEF PromiseKept, LogSpread
    <2>2. CASE a # k
        <3>1. admitted'[a] = admitted[a] /\ promised'[a] = promised[a]
            BY <2>2, <1>1, <1>10, Zenon DEF RInv, LimiterTypeOK
        <3>2. Logged(a)'
            BY <2>2, <3>1, <1>1, <1>9, OthersLogged
        <3>3. PromiseKept(a) /\ LogSpread(a)
            BY Zenon DEF RInv
        <3>4. QED
            BY <3>1, <3>2, <3>3, Zenon DEF PromiseKept, LogSpread
    <2>3. QED
        BY <2>1, <2>2
<1>13. QED
    BY <1>11, <1>12, Zenon DEF RInv

\* A check that refuses: the window is full, and the promise is the moment at which
\* its head leaves it, or a little later.
LEMMA RefuseKeeps == ASSUME RInv, NEW k \in Addresses, Refuse(k) PROVE RInv'
<1>1. /\ tick' = tick /\ tick \in Ticks /\ tick \in Nat /\ admitted' = admitted
      /\ admitted \in [Addresses -> Seq(Ticks)]
    BY WindowFacts DEF Refuse, RInv, LimiterTypeOK, Ticks
<1>2. PICK before, p \in Nat : /\ Len(admitted[k]) = before + p /\ Len(Pruned(k)) = p
                               /\ EndOfLog(tick, before, p, admitted[k], Pruned(k))
                               /\ \A i \in 1..p : ~Passed(tick, Pruned(k)[i])
    BY PrunedFacts
<1>3. PICK log, window : log = admitted[k] /\ window = Pruned(k)
    OBVIOUS
<1>4. /\ log \in [1..(before + p) -> Nat] /\ window \in Seq(Ticks) /\ window \in [1..p -> Nat]
      /\ p <= limit /\ Len(window) = p /\ Len(log) = before + p
      /\ \A i \in 1..p : window[i] = log[before + i] /\ ~Passed(tick, window[i])
      /\ EndOfLog(tick, before, p, log, window)
    BY <1>2, <1>3, Zenon DEF EndOfLog
<1>5. p = limit
    BY <1>2, <1>4, WindowFacts DEF Refuse
<1>6. hits' = Tidied(Known(k, window)) \/ hits' = Known(k, window)
    BY <1>3, Zenon DEF Refuse
<1>7. PICK back : back = tick + RetryAfter(window) * TicksPerSecond
    OBVIOUS
<1>8. promised' = [promised EXCEPT ![k] = back]
    BY <1>3, <1>7, Zenon DEF Refuse
<1>9. back \in 0..(LastTick + Window + TicksPerSecond) /\ back >= log[before + 1] + Window
    <2>1. 1 \in 1..p
        BY <1>5, WindowFacts
    <2>2. Head(window) = window[1]
        BY <1>4, <1>5
    <2>3. /\ window[1] \in Nat /\ window[1] = log[before + 1] /\ ~Passed(tick, window[1])
          /\ window[1] <= tick
        <3>1. before + 1 \in 1..Len(log)
            BY <1>4, <1>5, WindowFacts
        <3>2. log[before + 1] <= tick
            BY <3>1, <1>3, Zenon DEF RInv, Logged
        <3>3. QED
            BY <2>1, <3>2, <1>4
    <2>4. PICK ticks : ticks = RetryAfter(window) * TicksPerSecond
        OBVIOUS
    <2>5. ticks \in Nat /\ tick + ticks >= window[1] + Window /\ ticks <= Window + TicksPerSecond
        BY <2>2, <2>3, <2>4, <1>1, RetryAfterFacts
    <2>6. back = tick + ticks /\ tick <= LastTick
        BY <1>1, <1>7, <2>4, WindowFacts DEF Ticks
    <2>7. QED
        BY <2>3, <2>5, <2>6, <1>1, WindowFacts
<1>10. LimiterTypeOK'
    <2>1. /\ DOMAIN hits' \subseteq Addresses
          /\ \A a \in DOMAIN hits' : hits'[a] \in Seq(Ticks) /\ Len(hits'[a]) <= limit
        BY <1>4, <1>6, RecordTypesAfter
    <2>2. promised' \in [Addresses -> {NoPromise} \cup (0..(LastTick + Window + TicksPerSecond))]
        BY <1>8, <1>9, Zenon DEF RInv, LimiterTypeOK
    <2>3. QED
        BY <2>1, <2>2, <1>1, Zenon DEF RInv, LimiterTypeOK
<1>11. ASSUME NEW a \in Addresses PROVE Logged(a)' /\ PromiseKept(a)' /\ LogSpread(a)'
    <2>1. LogSpread(a)'
        BY <1>1, Zenon DEF RInv, LogSpread
    <2>2. CASE a = k
        <3>1. admitted'[a] = log /\ promised'[a] = back
            BY <2>2, <1>1, <1>3, <1>8, Zenon DEF RInv, LimiterTypeOK
        <3>2. \E w \in Nat, b \in Nat : /\ EndOfLog(tick, b, w, log, Record(a)')
                                        /\ Len(log) = b + w /\ Len(Record(a)') = w
            <4>1. CASE Record(a)' = window
                BY <4>1, <1>4
            <4>2. CASE Record(a)' # window
                <5>1. Record(a)' = <<>> /\ (window = <<>> \/ tick - Last(window) >= StaleAfter)
                    BY <4>2, <2>2, <1>6, RecordsAfter
                <5>2. EndOfLog(tick, before + p, 0, log, <<>>)
                    BY <5>1, <1>1, <1>4, DroppedIsLeft
                <5>3. before + p \in Nat /\ before + p + 0 = before + p /\ Len(<<>>) = 0
                    OBVIOUS
                <5>4. QED
                    BY <5>1, <5>2, <5>3, <1>4
            <4>3. QED
                BY <4>1, <4>2
        <3>3. Recent(tick, log, Record(a)') /\ InOrder(log)
            BY <3>2, <1>1, EndIsRecent
        <3>4. \A i \in 1..Len(log) : log[i] <= tick
            BY <1>3, Zenon DEF RInv, Logged
        <3>5. Logged(a)'
            BY <3>1, <3>3, <3>4, <1>1, Zenon DEF Logged
        <3>6. Len(log) >= limit /\ Len(log) - limit + 1 = before + 1
            BY <1>4, <1>5, WindowFacts
        <3>7. PromiseKept(a)'
            BY <3>1, <3>6, <1>9, Zenon DEF PromiseKept
        <3>8. QED
            BY <2>1, <3>5, <3>7
    <2>3. CASE a # k
        <3>1. promised'[a] = promised[a]
            BY <2>3, <1>8, Zenon DEF RInv, LimiterTypeOK
        <3>2. Logged(a)'
            BY <2>3, <1>1, <1>6, OthersLogged
        <3>3. PromiseKept(a)'
            BY <3>1, <1>1, Zenon DEF RInv, PromiseKept
        <3>4. QED
            BY <2>1, <3>2, <3>3
    <2>4. QED
        BY <2>2, <2>3
<1>12. QED
    BY <1>10, <1>11, Zenon DEF RInv

\* Time passes: hits leave the window, and a promise comes due no earlier.
LEMMA TickKeeps == ASSUME RInv, TickPasses PROVE RInv'
<1>1. /\ tick' = tick + 1 /\ tick \in Nat /\ tick' \in Ticks
      /\ hits' = hits /\ admitted' = admitted /\ promised' = promised
    BY WindowFacts DEF TickPasses, RInv, LimiterTypeOK, Ticks
<1>2. LimiterTypeOK'
    BY <1>1, Zenon DEF RInv, LimiterTypeOK
<1>3. ASSUME NEW a \in Addresses PROVE Logged(a)' /\ PromiseKept(a)' /\ LogSpread(a)'
    <2>1. PICK before, w \in Nat : /\ Len(admitted[a]) = before + w /\ Len(Record(a)) = w
                                   /\ EndOfLog(tick, before, w, admitted[a], Record(a))
        BY RecordFacts
    <2>2. EndOfLog(tick + 1, before, w, admitted[a], Record(a))
        BY <2>1, <1>1, LeftStays
    <2>3. Recent(tick + 1, admitted[a], Record(a)) /\ InOrder(admitted[a])
        BY <2>1, <2>2, <1>1, EndIsRecent
    <2>4. \A i \in 1..Len(admitted[a]) : admitted[a][i] <= tick + 1
        <3>1. \A i \in 1..Len(admitted[a]) : admitted[a][i] <= tick
            BY Zenon DEF RInv, Logged
        <3>2. \A i \in 1..Len(admitted[a]) : admitted[a][i] \in Nat
            BY <2>1 DEF EndOfLog
        <3>3. QED
            BY <3>1, <3>2, <1>1
    <2>5. Record(a)' = Record(a)
        BY <1>1, Zenon DEF Record
    <2>6. Logged(a)'
        BY <2>3, <2>4, <2>5, <1>1, Zenon DEF Logged
    <2>7. QED
        BY <2>6, <1>1, Zenon DEF RInv, PromiseKept, LogSpread
<1>4. QED
    BY <1>2, <1>3, Zenon DEF RInv

\* Every step of the limiter keeps the invariant.
LEMMA RInvNext == RInv /\ [LimiterNext]_limiterVars => RInv'
<1> SUFFICES ASSUME RInv, [LimiterNext]_limiterVars PROVE RInv'
    OBVIOUS
<1>1. ASSUME NEW k \in Addresses, check(k) PROVE RInv'
    BY <1>1, AdmitKeeps, RefuseKeeps DEF check
<1>2. CASE TickPasses
    BY <1>2, TickKeeps
<1>3. CASE UNCHANGED limiterVars
    BY <1>3, Zenon DEF limiterVars, RInv, LimiterTypeOK, Logged, PromiseKept, LogSpread, Record
<1>4. QED
    BY <1>1, <1>2, <1>3 DEF LimiterNext

\* The invariant holds in every state of the limiter.
THEOREM LimiterInvariance == LimiterSpec => []RInv
BY RInvInit, RInvNext, PTL DEF LimiterSpec

\* The records and the promises of the limiter keep their types; no record is longer
\* than the limit.
THEOREM LimiterTypeCorrect == LimiterSpec => []LimiterTypeOK
<1>1. RInv => LimiterTypeOK
    BY DEF RInv
<1>2. QED
    BY <1>1, LimiterInvariance, PTL

\* The invariant is what the limit promises.
LEMMA WindowFromInvariant == RInv => WindowHonoured
<1> SUFFICES ASSUME RInv, NEW k \in Addresses
             PROVE  /\ Len(admitted[k]) > limit => Last(admitted[k]) - Head(admitted[k]) >= Window
                    /\ promised[k] # NoPromise /\ tick >= promised[k] => Len(Pruned(k)) < limit
    BY DEF WindowHonoured
<1>1. PICK before, p \in Nat : /\ Len(admitted[k]) = before + p /\ Len(Pruned(k)) = p
                               /\ EndOfLog(tick, before, p, admitted[k], Pruned(k))
                               /\ \A i \in 1..p : ~Passed(tick, Pruned(k)[i])
    BY PrunedFacts
<1>2. PICK log : log = admitted[k]
    OBVIOUS
<1>3. /\ log \in [1..(before + p) -> Nat] /\ before + p <= limit + 1 /\ p <= limit
      /\ \A i \in 1..p : Pruned(k)[i] = log[before + i]
    BY <1>1, <1>2, Zenon DEF EndOfLog
<1>4. ASSUME Len(log) > limit PROVE Last(log) - Head(log) >= Window
    <2>1. Len(log) = limit + 1
        BY <1>1, <1>2, <1>3, <1>4, WindowFacts
    <2>2. Last(log) = log[limit + 1]
        BY <2>1, Zenon DEF Last
    <2>3. Head(log) = log[1]
        BY <2>1, WindowFacts
    <2>4. log[limit + 1] - log[1] >= Window
        BY <1>2, <1>4, Zenon DEF RInv, LogSpread
    <2>5. QED
        BY <2>2, <2>3, <2>4
<1>5. ASSUME promised[k] # NoPromise, tick >= promised[k], ~(p < limit) PROVE FALSE
    <2>1. p = limit /\ 1 \in 1..p /\ Len(log) - limit + 1 = before + 1
        BY <1>1, <1>2, <1>3, <1>5, WindowFacts
    <2>2. promised[k] >= log[before + 1] + Window
        BY <2>1, <1>2, <1>5, Zenon DEF RInv, PromiseKept
    <2>3. log[before + 1] \in Nat /\ ~Passed(tick, log[before + 1])
        BY <2>1, <1>1, <1>3
    <2>4. tick \in Nat /\ promised[k] \in Int
        BY WindowFacts DEF RInv, LimiterTypeOK, Ticks, NoPromise
    <2>5. QED
        BY <2>2, <2>3, <2>4, <1>5, WindowFacts DEF Passed
<1>6. QED
    BY <1>1, <1>2, <1>4, <1>5

\* No window holds more admitted creations of an address than the limit, whatever
\* was dropped meanwhile, and Retry-After is honoured.
THEOREM LimitIsHonoured == LimiterSpec => []WindowHonoured
BY LimiterInvariance, WindowFromInvariant, PTL

(***************************************************************************)
(* SessionExpiry: a session is in one place, and its lifetime runs from    *)
(* its last activity.                                                      *)
(***************************************************************************)

\* One step of the recursion that Only is.
OnlyNext(list, S, seen, n) ==
    IF n = 0 THEN <<>> ELSE IF list[n] \in S THEN Append(seen[n - 1], list[n]) ELSE seen[n - 1]
IsOnly(list, S, only, n) == only = [i \in 0..n |-> OnlyNext(list, S, only, i)]

\* The recursion defines a function: there is one up to each length.
LEMMA OnlyExists ==
    ASSUME NEW list, NEW S, NEW n \in Nat
    PROVE  \E only : IsOnly(list, S, only, n)
<1> DEFINE Without == {m \in Nat : ~\E only : IsOnly(list, S, only, m)}
<1>1. SUFFICES ASSUME Without # {} PROVE FALSE
    OBVIOUS
<1>2. PICK m \in Without : \A i \in Without : m <= i
    <2>1. Without \subseteq Nat
        OBVIOUS
    <2>2. QED
        BY <1>1, <2>1, LeastNatural
<1>3. m # 0
    <2>1. IsOnly(list, S, [i \in 0..0 |-> <<>>], 0)
        BY DEF IsOnly, OnlyNext
    <2>2. QED
        BY <2>1
<1>4. m - 1 \in Nat /\ m - 1 \notin Without
    BY <1>2, <1>3
<1>5. PICK only : IsOnly(list, S, only, m - 1)
    BY <1>4
<1> DEFINE more == [i \in 0..m |-> IF i = m THEN OnlyNext(list, S, only, m) ELSE only[i]]
<1>6. \A i \in 0..m : more[i] = OnlyNext(list, S, more, i)
    <2>1. ASSUME NEW i \in 0..(m - 1) PROVE more[i] = OnlyNext(list, S, more, i)
        <3>1. i \in 0..m /\ i # m /\ (i # 0 => i - 1 \in 0..m /\ i - 1 # m)
            BY <1>4
        <3>2. more[i] = only[i] /\ (i # 0 => more[i - 1] = only[i - 1])
            BY <3>1
        <3>3. only[i] = OnlyNext(list, S, only, i)
            BY <1>5, Zenon DEF IsOnly
        <3>4. QED
            BY <3>2, <3>3, Zenon DEF OnlyNext
    <2>2. more[m] = OnlyNext(list, S, more, m)
        <3>1. m \in 0..m /\ m - 1 \in 0..m /\ m - 1 # m
            BY <1>3, <1>4
        <3>2. more[m] = OnlyNext(list, S, only, m) /\ more[m - 1] = only[m - 1]
            BY <3>1
        <3>3. QED
            BY <1>3, <3>2, Zenon DEF OnlyNext
    <2>3. \A i \in 0..m : i \in 0..(m - 1) \/ i = m
        BY <1>3, <1>4
    <2>4. QED
        BY <2>1, <2>2, <2>3, Zenon
<1>7. more = [i \in 0..m |-> OnlyNext(list, S, more, i)]
    <2>1. more = [i \in 0..m |-> more[i]]
        OBVIOUS
    <2> HIDE DEF more
    <2>2. QED
        BY <1>6, <2>1
<1>8. IsOnly(list, S, more, m)
    BY <1>7, Zenon DEF IsOnly
<1>9. QED
    BY <1>2, <1>8

\* Only is the last value of that function.
LEMMA OnlyByFunction ==
    ASSUME NEW list, Len(list) \in Nat, NEW S
    PROVE  \E only : IsOnly(list, S, only, Len(list)) /\ Only(list, S) = only[Len(list)]
<1> DEFINE only == CHOOSE f : IsOnly(list, S, f, Len(list))
<1>1. IsOnly(list, S, only, Len(list))
    BY OnlyExists
<1>2. Only(list, S) = only[Len(list)]
    BY DEF Only, IsOnly, OnlyNext
<1>3. QED
    BY <1>1, <1>2

\* What r owes to the first n members of the list.
OnlyOf(T, list, S, n, r) ==
    /\ r \in Seq(T)
    /\ \A k \in 1..Len(r) : r[k] \in S /\ \E i \in 1..n : list[i] = r[k]
    /\ \A i \in 1..n : list[i] \in S => \E k \in 1..Len(r) : r[k] = list[i]
    /\ (\A i, j \in 1..n : list[i] = list[j] => i = j) =>
          \A k, l \in 1..Len(r) : r[k] = r[l] => k = l

\* One more member: taken at the end, or left.
LEMMA OnlyTakes ==
    ASSUME NEW T, NEW list, NEW S, NEW m \in Nat, NEW r, list[m + 1] \in T,
           OnlyOf(T, list, S, m, r)
    PROVE  OnlyOf(T, list, S, m + 1,
                  IF list[m + 1] \in S THEN Append(r, list[m + 1]) ELSE r)
<1>0. r \in Seq(T) /\ Len(r) \in Nat
    BY LenProperties DEF OnlyOf
<1>1. CASE list[m + 1] \notin S
    <2>1. \A i \in 1..(m + 1) : i \in 1..m \/ i = m + 1
        OBVIOUS
    <2>2. \A i \in 1..m : i \in 1..(m + 1)
        OBVIOUS
    <2>3. OnlyOf(T, list, S, m + 1, r)
        BY <1>1, <2>1, <2>2, Zenon DEF OnlyOf
    <2>4. QED
        BY <1>1, <2>3
<1>2. CASE list[m + 1] \in S
    <2>1. PICK x : x = list[m + 1]
        OBVIOUS
    <2>2. PICK l \in Nat : l = Len(r)
        BY <1>0
    <2>3. PICK q : q = Append(r, x)
        OBVIOUS
    <2>4. PICK n \in Nat : n = m + 1
        OBVIOUS
    <2>5. PICK o \in Nat : o = l + 1
        OBVIOUS
    <2>6. /\ \A k \in 1..l : r[k] \in S /\ \E i \in 1..m : list[i] = r[k]
          /\ \A i \in 1..m : list[i] \in S => \E k \in 1..l : r[k] = list[i]
          /\ (\A i, j \in 1..m : list[i] = list[j] => i = j) =>
                \A k, h \in 1..l : r[k] = r[h] => k = h
        BY <2>2, Zenon DEF OnlyOf
    <2>7. /\ q \in Seq(T) /\ Len(q) = o /\ q[o] = x
          /\ \A k \in 1..l : q[k] = r[k]
        BY <1>0, <2>1, <2>2, <2>3, <2>5, AppendProperties
    <2>8. x \in S /\ x = list[n]
        BY <1>2, <2>1, <2>4
    <2>9. /\ \A i \in 1..n : i \in 1..m \/ i = n
          /\ \A i \in 1..m : i \in 1..n /\ i # n
          /\ n \in 1..n
        BY <2>4
    <2>10. /\ \A k \in 1..o : k \in 1..l \/ k = o
           /\ \A k \in 1..l : k \in 1..o
           /\ o \in 1..o
        BY <2>5
    <2>11. \A k \in 1..o : q[k] \in S /\ \E i \in 1..n : list[i] = q[k]
        <3>1. ASSUME NEW k \in 1..l PROVE q[k] \in S /\ \E i \in 1..n : list[i] = q[k]
            BY <2>6, <2>7, <2>9, Zenon
        <3>2. QED
            BY <2>7, <2>8, <2>9, <2>10, <3>1, Zenon
    <2>12. \A i \in 1..n : list[i] \in S => \E k \in 1..o : q[k] = list[i]
        <3>1. ASSUME NEW i \in 1..m, list[i] \in S PROVE \E k \in 1..o : q[k] = list[i]
            BY <2>6, <2>7, <2>10, <3>1, Zenon
        <3>2. QED
            BY <2>7, <2>8, <2>9, <2>10, <3>1, Zenon
    <2>13. ASSUME \A i, j \in 1..n : list[i] = list[j] => i = j
           PROVE  \A k, h \in 1..o : q[k] = q[h] => k = h
        <3>1. \A k, h \in 1..l : q[k] = q[h] => k = h
            BY <2>6, <2>7, <2>9, <2>13, Zenon
        <3>2. ASSUME NEW k \in 1..l PROVE q[k] # x
            <4>1. PICK i \in 1..m : list[i] = q[k]
                BY <2>6, <2>7, ZenonT(40)
            <4>2. i \in 1..n /\ i # n
                BY <2>9, Zenon
            <4>3. list[i] # list[n]
                BY <2>9, <2>13, <4>2, Zenon
            <4>4. QED
                BY <2>8, <4>1, <4>3, Zenon
        <3>3. QED
            BY <2>7, <2>10, <3>1, <3>2, Zenon
    <2>14. OnlyOf(T, list, S, n, q)
        BY <2>7, <2>11, <2>12, <2>13, Zenon DEF OnlyOf
    <2>15. QED
        BY <1>2, <2>1, <2>3, <2>4, <2>14
<1>3. QED
    BY <1>1, <1>2

\* Only keeps the members that are in S, each as often as the list has it at most.
LEMMA OnlyFacts ==
    ASSUME NEW T, NEW list \in Seq(T), NEW S
    PROVE  /\ Only(list, S) \in Seq(T)
           /\ \A x : Contains(Only(list, S), x) <=> Contains(list, x) /\ x \in S
           /\ IsInjective(list) => IsInjective(Only(list, S))
<1>1. /\ Len(list) \in Nat /\ DOMAIN list = 1..Len(list)
      /\ \A i \in 1..Len(list) : list[i] \in T
    BY LenProperties, ElementOfSeq
<1>2. PICK only : IsOnly(list, S, only, Len(list)) /\ Only(list, S) = only[Len(list)]
    BY <1>1, OnlyByFunction
<1>3. \A n \in 0..Len(list) : only[n] = OnlyNext(list, S, only, n)
    BY <1>2, Zenon DEF IsOnly
<1> DEFINE Wrong == {n \in 0..Len(list) : ~OnlyOf(T, list, S, n, only[n])}
<1>4. Wrong = {}
    <2>1. SUFFICES ASSUME Wrong # {} PROVE FALSE
        OBVIOUS
    <2>2. PICK n \in Wrong : \A i \in Wrong : n <= i
        <3>1. Wrong \subseteq Nat
            BY <1>1
        <3>2. QED
            BY <2>1, <3>1, LeastNatural
    <2>3. n \in 0..Len(list) /\ n \in Nat /\ ~OnlyOf(T, list, S, n, only[n])
        BY <1>1
    <2>4. n # 0
        <3>1. 0 \in 0..Len(list)
            BY <1>1
        <3>2. only[0] = <<>>
            BY <1>3, <3>1, Zenon DEF OnlyNext
        <3>3. <<>> \in Seq(T) /\ Len(<<>>) = 0
            BY EmptySeq
        <3>4. \A i \in 1..0 : FALSE
            OBVIOUS
        <3>5. OnlyOf(T, list, S, 0, <<>>)
            BY <3>3, <3>4, Zenon DEF OnlyOf
        <3>6. QED
            BY <2>3, <3>2, <3>5
    <2>5. PICK m \in Nat : n = m + 1 /\ m \in 0..Len(list) /\ m = n - 1 /\ n \in 1..Len(list)
        <3>1. n - 1 \in Nat /\ n - 1 \in 0..Len(list) /\ n \in 1..Len(list)
            BY <1>1, <2>3, <2>4
        <3>2. QED
            BY <2>3, <3>1
    <2>6. OnlyOf(T, list, S, m, only[m])
        BY <2>2, <2>5
    <2>7. only[n] = IF list[n] \in S THEN Append(only[m], list[n]) ELSE only[m]
        BY <1>3, <2>3, <2>4, <2>5, Zenon DEF OnlyNext
    <2>8. list[m + 1] \in T
        BY <1>1, <2>5
    <2>9. OnlyOf(T, list, S, n, only[n])
        <3>1. OnlyOf(T, list, S, m + 1,
                     IF list[m + 1] \in S THEN Append(only[m], list[m + 1]) ELSE only[m])
            BY <2>5, <2>6, <2>8, OnlyTakes, Zenon
        <3>2. QED
            BY <2>5, <2>7, <3>1, Zenon
    <2>10. QED
        BY <2>3, <2>9
<1>5. OnlyOf(T, list, S, Len(list), Only(list, S))
    <2>1. Len(list) \in 0..Len(list)
        BY <1>1
    <2>2. QED
        BY <1>2, <1>4, <2>1, Zenon
<1>6. DOMAIN Only(list, S) = 1..Len(Only(list, S))
    BY <1>5, LenProperties DEF OnlyOf
<1>7. QED
    BY <1>1, <1>5, <1>6, Zenon DEF OnlyOf, Contains, IsInjective

\* What the cap leaves of the tombstones.
LEMMA CappedFacts ==
    ASSUME NEW T, NEW buried \in Seq(T)
    PROVE  /\ Capped(buried) \in Seq(T)
           /\ \A x : Contains(Capped(buried), x) => Contains(buried, x)
           /\ IsInjective(buried) => IsInjective(Capped(buried))
           /\ Len(Capped(buried)) <= TombstoneCap
<1>1. /\ Len(buried) \in Nat /\ DOMAIN buried = 1..Len(buried)
      /\ \A i \in 1..Len(buried) : buried[i] \in T
    BY LenProperties, ElementOfSeq
<1>2. PICK n \in Nat : n = Len(buried)
    BY <1>1
<1>3. PICK e \in Nat : /\ e = IF n > TombstoneCap THEN n - TombstoneCap ELSE 0
                       /\ e <= n /\ n - e <= TombstoneCap
    <2>1. CASE n > TombstoneCap
        <3>1. n - TombstoneCap \in Nat /\ n - TombstoneCap <= n /\ n - (n - TombstoneCap) <= TombstoneCap
            BY <2>1, ExpiryAssumption
        <3>2. QED
            BY <2>1, <3>1
    <2>2. CASE ~(n > TombstoneCap)
        BY <2>2, ExpiryAssumption
    <2>3. QED
        BY <2>1, <2>2
<1>4. PICK kept : kept = Capped(buried)
    OBVIOUS
<1>5. kept = SubSeq(buried, e + 1, n)
    BY <1>2, <1>3, <1>4, Zenon DEF Capped
<1>6. \A i \in (e + 1)..n : buried[i] \in T
    BY <1>1, <1>2
<1>7. /\ kept \in Seq(T)
      /\ Len(kept) = IF e + 1 <= n THEN n - (e + 1) + 1 ELSE 0
      /\ \A i \in 1..(n - (e + 1) + 1) : kept[i] = buried[e + 1 + i - 1]
    BY <1>5, <1>6, SubSeqProperties
<1>8. Len(kept) = n - e
    BY <1>3, <1>7
<1>9. PICK k \in Nat : k = n - e
    BY <1>3
<1>10. \A i \in 1..k : e + i \in 1..n /\ kept[i] = buried[e + i]
    <2>1. ASSUME NEW i \in 1..k PROVE e + i \in 1..n /\ i \in 1..(n - (e + 1) + 1) /\ e + 1 + i - 1 = e + i
        BY <1>9
    <2>2. QED
        BY <1>7, <2>1
<1>11. DOMAIN kept = 1..k /\ Len(kept) = k
    BY <1>7, <1>8, <1>9, LenProperties
<1>12. \A x : Contains(kept, x) => Contains(buried, x)
    BY <1>2, <1>10, <1>11, Zenon DEF Contains
<1>13. ASSUME IsInjective(buried) PROVE IsInjective(kept)
    <2>1. \A i, j \in 1..k : e + i = e + j => i = j
        OBVIOUS
    <2>2. \A i, j \in 1..n : buried[i] = buried[j] => i = j
        BY <1>1, <1>2, <1>13, Zenon DEF IsInjective
    <2>3. \A i, j \in 1..k : kept[i] = kept[j] => i = j
        BY <1>10, <2>1, <2>2, Zenon
    <2>4. QED
        BY <1>11, <2>3, Zenon DEF IsInjective
<1>14. k <= TombstoneCap
    BY <1>3, <1>9
<1>15. QED
    BY <1>4, <1>7, <1>11, <1>12, <1>13, <1>14, Zenon

\* A list of sessions followed by others.
LEMMA ConcatFacts ==
    ASSUME NEW T, NEW a \in Seq(T), NEW b \in Seq(T)
    PROVE  /\ a \o b \in Seq(T)
           /\ \A x : Contains(a \o b, x) <=> Contains(a, x) \/ Contains(b, x)
           /\ IsInjective(a) /\ IsInjective(b)
              /\ (\A x : ~(Contains(a, x) /\ Contains(b, x))) => IsInjective(a \o b)
<1>1. PICK m \in Nat : m = Len(a) /\ DOMAIN a = 1..m
    BY LenProperties
<1>2. PICK n \in Nat : n = Len(b) /\ DOMAIN b = 1..n
    BY LenProperties
<1>3. PICK c : c = a \o b
    OBVIOUS
<1>4. PICK o \in Nat : o = m + n
    OBVIOUS
<1>5. /\ c \in Seq(T) /\ Len(c) = o
      /\ \A i \in 1..o : c[i] = IF i <= m THEN a[i] ELSE b[i - m]
    BY <1>1, <1>2, <1>3, <1>4, ConcatProperties
<1>6. DOMAIN c = 1..o
    BY <1>5, LenProperties
<1>7. \A i \in 1..m : i \in 1..o /\ c[i] = a[i]
    BY <1>4, <1>5
<1>8. \A j \in 1..n : m + j \in 1..o /\ c[m + j] = b[j]
    BY <1>4, <1>5
<1>9. \A i \in 1..o : i \in 1..m \/ \E j \in 1..n : i = m + j
    <2>1. ASSUME NEW i \in 1..o PROVE i \in 1..m \/ \E j \in 1..n : i = m + j
        <3>1. i \in 1..m \/ (i - m \in 1..n /\ i = m + (i - m))
            BY <1>4
        <3>2. QED
            BY <3>1
    <2>2. QED
        BY <2>1
<1>10. \A x : Contains(c, x) <=> Contains(a, x) \/ Contains(b, x)
    <2>1. ASSUME NEW x, NEW i \in 1..o, c[i] = x PROVE Contains(a, x) \/ Contains(b, x)
        BY <1>1, <1>2, <1>7, <1>8, <1>9, <2>1, Zenon DEF Contains
    <2>2. ASSUME NEW x, Contains(a, x) \/ Contains(b, x) PROVE Contains(c, x)
        BY <1>1, <1>2, <1>5, <1>7, <1>8, <2>2, ZenonT(40) DEF Contains
    <2>3. QED
        BY <1>5, <2>1, <2>2, Zenon DEF Contains
<1>11. ASSUME IsInjective(a), IsInjective(b), \A x : ~(Contains(a, x) /\ Contains(b, x))
       PROVE  \A i, j \in 1..o : c[i] = c[j] => i = j
    <2>1. \A i, j \in 1..m : a[i] = a[j] => i = j
        BY <1>1, <1>11, Zenon DEF IsInjective
    <2>2. \A i, j \in 1..n : b[i] = b[j] => i = j
        BY <1>2, <1>11, Zenon DEF IsInjective
    <2>3. \A i \in 1..m, j \in 1..n : a[i] # b[j]
        BY <1>1, <1>2, <1>11, Zenon DEF Contains
    <2>4. ASSUME NEW i \in 1..o, NEW j \in 1..o, c[i] = c[j] PROVE i = j
        <3>1. CASE i \in 1..m
            <4>1. CASE j \in 1..m
                BY <1>7, <2>1, <2>4, <3>1, <4>1, Zenon
            <4>2. ASSUME NEW h \in 1..n, j = m + h PROVE FALSE
                <5>1. a[i] = b[h]
                    BY <1>7, <1>8, <2>4, <3>1, <4>2, Zenon
                <5>2. QED
                    BY <2>3, <3>1, <5>1, Zenon
            <4>3. QED
                BY <1>9, <4>1, <4>2, Zenon
        <3>2. ASSUME NEW k \in 1..n, i = m + k PROVE i = j
            <4>1. ASSUME j \in 1..m PROVE FALSE
                <5>1. a[j] = b[k]
                    BY <1>7, <1>8, <2>4, <3>2, <4>1, Zenon
                <5>2. QED
                    BY <2>3, <4>1, <5>1, Zenon
            <4>2. ASSUME NEW h \in 1..n, j = m + h PROVE k = h
                <5>1. b[k] = b[h]
                    BY <1>8, <2>4, <3>2, <4>2, Zenon
                <5>2. QED
                    BY <2>2, <5>1, Zenon
            <4>3. QED
                BY <1>9, <3>2, <4>1, <4>2, Zenon
        <3>3. QED
            BY <1>9, <3>1, <3>2, Zenon
    <2>5. QED
        BY <2>4
<1>12. QED
    BY <1>3, <1>5, <1>6, <1>10, <1>11, Zenon DEF IsInjective
\* A list with one more member.
LEMMA AppendFacts ==
    ASSUME NEW T, NEW list \in Seq(T), NEW e \in T
    PROVE  /\ Append(list, e) \in Seq(T)
           /\ \A x : Contains(Append(list, e), x) <=> Contains(list, x) \/ x = e
           /\ IsInjective(list) /\ ~Contains(list, e) => IsInjective(Append(list, e))
<1>1. PICK n \in Nat : n = Len(list) /\ DOMAIN list = 1..n
    BY LenProperties
<1>2. PICK o \in Nat : o = n + 1
    OBVIOUS
<1>3. PICK more : more = Append(list, e)
    OBVIOUS
<1>4. /\ more \in Seq(T) /\ Len(more) = o /\ DOMAIN more = 1..o
      /\ more[o] = e /\ \A i \in 1..n : more[i] = list[i]
    BY <1>1, <1>2, <1>3, AppendProperties, LenProperties
<1>5. /\ \A i \in 1..o : i \in 1..n \/ i = o
      /\ \A i \in 1..n : i \in 1..o /\ i # o
      /\ o \in 1..o
    BY <1>2
<1>6. \A x : Contains(more, x) <=> Contains(list, x) \/ x = e
    <2>1. ASSUME NEW x, Contains(more, x) PROVE Contains(list, x) \/ x = e
        BY <1>1, <1>4, <1>5, <2>1, Zenon DEF Contains
    <2>2. ASSUME NEW x, Contains(list, x) \/ x = e PROVE Contains(more, x)
        BY <1>1, <1>4, <1>5, <2>2, Zenon DEF Contains
    <2>3. QED
        BY <2>1, <2>2, Zenon
<1>7. ASSUME IsInjective(list), ~Contains(list, e) PROVE IsInjective(more)
    <2>1. \A i, j \in 1..n : list[i] = list[j] => i = j
        BY <1>1, <1>7, Zenon DEF IsInjective
    <2>2. \A i \in 1..n : more[i] # e
        BY <1>1, <1>4, <1>7, Zenon DEF Contains
    <2>3. \A i, j \in 1..o : more[i] = more[j] => i = j
        BY <1>4, <1>5, <2>1, <2>2, Zenon
    <2>4. QED
        BY <1>4, <2>3, Zenon DEF IsInjective
<1>8. QED
    BY <1>3, <1>4, <1>6, <1>7, Zenon

-----------------------------------------------------------------------------
Ttl(s) == IF s \in reportReady THEN SESSION_TTL_REPORT_READY ELSE SESSION_TTL
Buried(s) == Contains(tombstones, s)

\* A session is at most in one place, and the user was told no more than is true.
InOnePlace(s) ==
    /\ ~(Held(s) /\ Buried(s))
    /\ s \in erased => ~Held(s) /\ ~Buried(s)
ToldTheTruth(s) ==
    /\ told[s] # "nothing" => s \in created
    /\ told[s] = "expired" => ~Held(s)
    /\ told[s] = "not found" => ~Held(s) /\ ~Buried(s)
\* The lifetime runs from the last activity.
LifetimeFits(s) ==
    s \in created =>
       /\ expires_at[s] >= last_activity_at[s] + Ttl(s)
       /\ expires_at[s] <= last_activity_at[s] + SESSION_TTL_REPORT_READY
\* Inductive.
ExpiryInv ==
    /\ ExpiryTypeOK
    /\ \A s \in SessionIds : InOnePlace(s) /\ ToldTheTruth(s) /\ LifetimeFits(s)

\* What a list of such members contains is one.
LEMMA MembersWereCreated ==
    ASSUME NEW T, NEW list \in Seq(T), NEW x, Contains(list, x)
    PROVE  x \in T
BY LenProperties, ElementOfSeq DEF Contains

\* A list stays a list of more.
LEMMA LargerSeq ==
    ASSUME NEW T, NEW U, T \subseteq U, NEW list \in Seq(T)
    PROVE  list \in Seq(U)
OBVIOUS

\* A purge takes exactly its sessions out of the store, each list still names a session
\* once, and nothing but an expired session gets a tombstone.
LEMMA PurgeFacts ==
    ASSUME ExpiryInv, NEW gone, NEW isExpired \in BOOLEAN, Purge(gone, isExpired)
    PROVE  /\ states' \in Seq(created) /\ IsInjective(states')
           /\ tombstones' \in Seq(created) /\ IsInjective(tombstones')
           /\ \A x : Contains(states', x) <=> Held(x) /\ x \notin gone
           /\ \A x : Contains(tombstones', x) =>
                 Buried(x) \/ (isExpired /\ Held(x) /\ x \in gone)
<1>1. /\ states \in Seq(created) /\ IsInjective(states)
      /\ tombstones \in Seq(created) /\ IsInjective(tombstones)
      /\ created \subseteq SessionIds
    BY DEF ExpiryInv, ExpiryTypeOK
<1>2. \A x : Contains(states, x) => x \in created /\ ~Contains(tombstones, x)
    <2>1. \A x : Contains(states, x) => x \in created
        BY <1>1, MembersWereCreated
    <2>2. QED
        BY <1>1, <2>1, Zenon DEF ExpiryInv, InOnePlace, Held, Buried
<1>3. PICK kept : kept = Only(states, created \ gone)
    OBVIOUS
<1>4. /\ kept \in Seq(created) /\ IsInjective(kept)
      /\ \A x : Contains(kept, x) <=> Contains(states, x) /\ x \in created \ gone
    BY <1>1, <1>3, OnlyFacts, Zenon
<1>5. states' = kept /\ (\A x : Contains(kept, x) <=> Held(x) /\ x \notin gone)
    BY <1>2, <1>3, <1>4, Zenon DEF Purge, Held
<1>6. PICK left : left = Only(states, gone)
    OBVIOUS
<1>7. /\ left \in Seq(created) /\ IsInjective(left)
      /\ \A x : Contains(left, x) <=> Contains(states, x) /\ x \in gone
    BY <1>1, <1>6, OnlyFacts, Zenon
<1>8. PICK all : all = tombstones \o left
    OBVIOUS
<1>9. /\ all \in Seq(created) /\ IsInjective(all)
      /\ \A x : Contains(all, x) <=> Contains(tombstones, x) \/ Contains(left, x)
    BY <1>1, <1>2, <1>7, <1>8, ConcatFacts, Zenon
<1>10. PICK capped : capped = Capped(all)
    OBVIOUS
<1>11. /\ capped \in Seq(created) /\ IsInjective(capped)
       /\ \A x : Contains(capped, x) => Contains(all, x)
    BY <1>9, <1>10, CappedFacts, Zenon
<1>12. tombstones' = IF isExpired THEN capped ELSE tombstones
    BY <1>6, <1>8, <1>10, Zenon DEF Purge
<1>13. CASE isExpired
    <2>1. tombstones' = capped
        BY <1>12, <1>13
    <2>2. QED
        BY <1>4, <1>5, <1>7, <1>9, <1>11, <1>13, <2>1, Zenon DEF Held, Buried
<1>14. CASE ~isExpired
    <2>1. tombstones' = tombstones
        BY <1>12, <1>14
    <2>2. QED
        BY <1>1, <1>4, <1>5, <2>1, Zenon DEF Buried
<1>15. QED
    BY <1>13, <1>14

\* The store is empty at first.
LEMMA ExpiryInitInv == ExpiryInit => ExpiryInv
<1> SUFFICES ASSUME ExpiryInit PROVE ExpiryInv
    OBVIOUS
<1>1. \A x : ~Contains(<<>>, x)
    BY EmptySeq DEF Contains
<1>2. <<>> \in Seq({}) /\ DOMAIN <<>> = {}
    BY EmptySeq
<1>3. IsInjective(<<>>)
    BY <1>2, Zenon DEF IsInjective
<1>4. ExpiryTypeOK
    BY <1>2, <1>3, ExpiryAssumption DEF ExpiryInit, ExpiryTypeOK, Hours
<1>5. ASSUME NEW s \in SessionIds PROVE InOnePlace(s) /\ ToldTheTruth(s) /\ LifetimeFits(s)
    BY <1>1 DEF ExpiryInit, InOnePlace, ToldTheTruth, LifetimeFits, Held, Buried
<1>6. QED
    BY <1>4, <1>5 DEF ExpiryInv

\* A touch gives the session the lifetime its status promises.
LEMMA TouchFacts ==
    ASSUME ExpiryTypeOK, NEW s \in SessionIds, NEW isReady \in BOOLEAN, touch(s, isReady)
    PROVE  /\ last_activity_at' \in [SessionIds -> 0..LastHour]
           /\ expires_at' \in [SessionIds -> Hours]
           /\ last_activity_at'[s] = hour
           /\ expires_at'[s] = hour + (IF isReady THEN SESSION_TTL_REPORT_READY ELSE SESSION_TTL)
           /\ \A t \in SessionIds \ {s} : /\ last_activity_at'[t] = last_activity_at[t]
                                          /\ expires_at'[t] = expires_at[t]
<1>1. hour \in 0..LastHour /\ last_activity_at \in [SessionIds -> 0..LastHour]
      /\ expires_at \in [SessionIds -> Hours]
    BY DEF ExpiryTypeOK
<1>2. hour + (IF isReady THEN SESSION_TTL_REPORT_READY ELSE SESSION_TTL) \in Hours
    BY <1>1, ExpiryAssumption DEF Hours
<1>3. QED
    BY <1>1, <1>2, Zenon DEF touch

\* A touch of one session with the status it then has leaves every lifetime right.
LEMMA LifetimeAfterTouch ==
    ASSUME ExpiryInv, NEW s \in SessionIds, NEW isReady \in BOOLEAN, touch(s, isReady),
           s \in reportReady' => isReady,
           \A t \in SessionIds \ {s} : /\ t \in reportReady' => t \in reportReady
                                       /\ t \in created' => t \in created
    PROVE  \A t \in SessionIds : LifetimeFits(t)'
<1>1. /\ hour \in 0..LastHour /\ created \subseteq SessionIds
      /\ last_activity_at \in [SessionIds -> 0..LastHour] /\ expires_at \in [SessionIds -> Hours]
    BY DEF ExpiryInv, ExpiryTypeOK
<1>2. ExpiryTypeOK
    BY DEF ExpiryInv
<1>3. LifetimeFits(s)'
    <2>1. last_activity_at'[s] = hour
          /\ expires_at'[s] = hour + (IF isReady THEN SESSION_TTL_REPORT_READY ELSE SESSION_TTL)
        BY <1>2, TouchFacts
    <2>2. QED
        BY <1>1, <2>1, ExpiryAssumption DEF LifetimeFits, Ttl
<1>4. ASSUME NEW t \in SessionIds \ {s} PROVE LifetimeFits(t)'
    <2>1. last_activity_at'[t] = last_activity_at[t] /\ expires_at'[t] = expires_at[t]
        BY <1>2, TouchFacts
    <2>2. last_activity_at[t] \in Int /\ expires_at[t] \in Int
        BY <1>1 DEF Hours
    <2>3. LifetimeFits(t)
        BY DEF ExpiryInv
    <2>4. QED
        BY <2>1, <2>2, <2>3, ExpiryAssumption DEF LifetimeFits, Ttl
<1>5. QED
    BY <1>3, <1>4

\* So does a step without a touch that gives no session a report.
LEMMA LifetimeUntouched ==
    ASSUME ExpiryInv, Untouched, created' = created, reportReady' \subseteq reportReady
    PROVE  \A t \in SessionIds : LifetimeFits(t)'
<1>1. ASSUME NEW t \in SessionIds PROVE LifetimeFits(t)'
    <2>1. last_activity_at[t] \in Int /\ expires_at[t] \in Int
        <3>1. /\ last_activity_at \in [SessionIds -> 0..LastHour]
              /\ expires_at \in [SessionIds -> Hours]
            BY DEF ExpiryInv, ExpiryTypeOK
        <3>2. QED
            BY <3>1 DEF Hours
    <2>2. LifetimeFits(t)
        BY DEF ExpiryInv
    <2>3. QED
        BY <2>1, <2>2, ExpiryAssumption DEF LifetimeFits, Ttl, Untouched
<1>2. QED
    BY <1>1

\* One user is told.
LEMMA TellFacts ==
    ASSUME ExpiryTypeOK, NEW s \in SessionIds, NEW answer \in {"ok", "expired", "not found"},
           Tell(s, answer)
    PROVE  /\ told' \in [SessionIds -> {"nothing", "ok", "expired", "not found"}]
           /\ told'[s] = answer /\ \A t \in SessionIds \ {s} : told'[t] = told[t]
BY DEF ExpiryTypeOK, Tell

\* A session is created: it is in one place, new to both lists.
LEMMA CreateKeeps ==
    ASSUME ExpiryInv, NEW s \in SessionIds, Create(s)
    PROVE  ExpiryInv'
<1> USE DEF Create
<1>1. ExpiryTypeOK /\ created' = created \cup {s} /\ s \notin created
    BY DEF ExpiryInv
<1>2. /\ states \in Seq(created) /\ IsInjective(states)
      /\ tombstones \in Seq(created) /\ IsInjective(tombstones)
    BY <1>1 DEF ExpiryTypeOK
<1>3. ~Contains(states, s) /\ ~Contains(tombstones, s)
    BY <1>1, <1>2, MembersWereCreated
<1>4. states \in Seq(created') /\ tombstones' \in Seq(created') /\ tombstones' = tombstones
    BY <1>1, <1>2, LargerSeq
<1>5. /\ states' \in Seq(created') /\ IsInjective(states')
      /\ \A x : Contains(states', x) <=> Contains(states, x) \/ x = s
    <2>1. s \in created' /\ states' = Append(states, s)
        BY <1>1
    <2>2. QED
        BY <1>2, <1>3, <1>4, <2>1, AppendFacts
<1>6. /\ told' \in [SessionIds -> {"nothing", "ok", "expired", "not found"}]
      /\ told'[s] = "ok" /\ \A t \in SessionIds \ {s} : told'[t] = told[t]
    BY <1>1, TellFacts
<1>7. ExpiryTypeOK'
    <2>1. touch(s, FALSE)
        OBVIOUS
    <2>2. last_activity_at' \in [SessionIds -> 0..LastHour] /\ expires_at' \in [SessionIds -> Hours]
        BY <1>1, <2>1, TouchFacts
    <2>3. /\ hour' \in 0..LastHour /\ created' \in SUBSET SessionIds /\ erased' \in SUBSET created'
          /\ reportReady' \in SUBSET created' /\ analysing' \in SUBSET created'
        BY <1>1 DEF ExpiryTypeOK
    <2>4. QED
        BY <1>2, <1>4, <1>5, <1>6, <2>2, <2>3, Zenon DEF ExpiryTypeOK, Hours
<1>8. ASSUME NEW t \in SessionIds PROVE InOnePlace(t)' /\ ToldTheTruth(t)'
    <2>1. InOnePlace(t) /\ ToldTheTruth(t)
        BY DEF ExpiryInv
    <2>2. erased' = erased /\ (t \in erased => t \in created)
        BY <1>1 DEF ExpiryTypeOK
    <2>3. CASE t = s
        BY <1>1, <1>3, <1>4, <1>5, <1>6, <2>2, <2>3 DEF InOnePlace, ToldTheTruth, Held, Buried
    <2>4. CASE t # s
        BY <1>1, <1>4, <1>5, <1>6, <2>1, <2>2, <2>4 DEF InOnePlace, ToldTheTruth, Held, Buried
    <2>5. QED
        BY <2>3, <2>4
<1>9. \A t \in SessionIds : LifetimeFits(t)'
    <2>1. touch(s, FALSE) /\ s \notin reportReady'
        BY <1>1 DEF ExpiryTypeOK
    <2>2. QED
        BY <1>1, <2>1, LifetimeAfterTouch
<1>10. QED
    BY <1>7, <1>8, <1>9 DEF ExpiryInv

\* The same for a step that moves no session: what is left of the type.
LEMMA PlacesKept ==
    ASSUME ExpiryInv, UNCHANGED <<states, tombstones, created, erased>>,
           NEW s \in SessionIds, told' \in [SessionIds -> {"nothing", "ok", "expired", "not found"}],
           \A t \in SessionIds \ {s} : told'[t] = told[t],
           ToldTheTruth(s)',
           hour' \in 0..LastHour, reportReady' \subseteq created, analysing' \subseteq created,
           last_activity_at' \in [SessionIds -> 0..LastHour], expires_at' \in [SessionIds -> Hours],
           \A t \in SessionIds : LifetimeFits(t)'
    PROVE  ExpiryInv'
<1>1. ExpiryTypeOK'
    BY DEF ExpiryInv, ExpiryTypeOK, Hours
<1>2. ASSUME NEW t \in SessionIds PROVE InOnePlace(t)' /\ ToldTheTruth(t)'
    <2>1. InOnePlace(t) /\ ToldTheTruth(t)
        BY DEF ExpiryInv
    <2>2. InOnePlace(t)'
        BY <2>1 DEF InOnePlace, Held, Buried
    <2>3. CASE t # s
        BY <2>1, <2>2, <2>3 DEF ToldTheTruth, Held, Buried
    <2>4. QED
        BY <2>2, <2>3
<1>3. QED
    BY <1>1, <1>2 DEF ExpiryInv

\* A request that is admitted, and what it starts.
LEMMA AdmittedKeeps ==
    ASSUME ExpiryInv, NEW s \in SessionIds, Admitted(s),
           reportReady' \subseteq reportReady, analysing' \subseteq created
    PROVE  ExpiryInv'
<1>1. ExpiryTypeOK
    BY DEF ExpiryInv
<1>2. touch(s, s \in reportReady) /\ (s \in reportReady) \in BOOLEAN
    BY DEF Admitted
<1>3. last_activity_at' \in [SessionIds -> 0..LastHour] /\ expires_at' \in [SessionIds -> Hours]
    BY <1>1, <1>2, TouchFacts
<1>4. \A t \in SessionIds : LifetimeFits(t)'
    <2>1. \A t \in SessionIds \ {s} : /\ t \in reportReady' => t \in reportReady
                                      /\ t \in created' => t \in created
        BY DEF Admitted
    <2>2. QED
        BY <1>2, <2>1, LifetimeAfterTouch
<1>5. /\ told' \in [SessionIds -> {"nothing", "ok", "expired", "not found"}]
      /\ told'[s] = "ok" /\ \A t \in SessionIds \ {s} : told'[t] = told[t]
    BY <1>1, TellFacts DEF Admitted
<1>6. ToldTheTruth(s)'
    <2>1. s \in created
        BY <1>1, MembersWereCreated DEF Admitted, Held, ExpiryTypeOK
    <2>2. QED
        BY <1>5, <2>1 DEF Admitted, ToldTheTruth
<1>7. hour' \in 0..LastHour /\ reportReady' \subseteq created
    BY <1>1 DEF Admitted, ExpiryTypeOK
<1>8. UNCHANGED <<states, tombstones, created, erased>>
    BY DEF Admitted
<1>9. QED
    BY <1>3, <1>4, <1>5, <1>6, <1>7, <1>8, PlacesKept

\* The same for a step that takes sessions out of the store.
LEMMA PurgeKeeps ==
    ASSUME ExpiryInv, NEW gone, NEW isExpired \in BOOLEAN, Purge(gone, isExpired),
           UNCHANGED <<hour, created, reportReady, analysing>>, Untouched,
           told' \in [SessionIds -> {"nothing", "ok", "expired", "not found"}],
           erased' \in SUBSET created,
           isExpired => erased' = erased,
           ~isExpired => \A s \in SessionIds : s \in erased' => s \in erased \/ (s \in gone /\ Held(s)),
           \A s \in SessionIds : told'[s] # told[s] => isExpired /\ s \in gone /\ Held(s) /\ told'[s] = "expired"
    PROVE  ExpiryInv'
<1>1. /\ states' \in Seq(created) /\ IsInjective(states')
      /\ tombstones' \in Seq(created) /\ IsInjective(tombstones')
      /\ \A x : Contains(states', x) <=> Held(x) /\ x \notin gone
      /\ \A x : Contains(tombstones', x) =>
            Buried(x) \/ (isExpired /\ Held(x) /\ x \in gone)
    BY PurgeFacts, Zenon
<1>2. ExpiryTypeOK'
    BY <1>1 DEF ExpiryInv, ExpiryTypeOK, Untouched, Hours
<1>3. ASSUME NEW s \in SessionIds PROVE InOnePlace(s)' /\ ToldTheTruth(s)'
    <2>1. InOnePlace(s) /\ ToldTheTruth(s)
        BY DEF ExpiryInv
    <2>2. Held(s)' <=> Held(s) /\ s \notin gone
        BY <1>1, Zenon DEF Held
    <2>3. Buried(s)' => Buried(s) \/ (isExpired /\ Held(s) /\ s \in gone)
        BY <1>1, Zenon DEF Buried
    <2>4. InOnePlace(s)'
        BY <2>1, <2>2, <2>3, Zenon DEF InOnePlace
    <2>5. CASE told'[s] = told[s]
        <3>1. ToldTheTruth(s)'
            BY <2>1, <2>2, <2>3, <2>5, Zenon DEF ToldTheTruth
        <3>2. QED
            BY <2>4, <3>1
    <2>6. CASE told'[s] # told[s]
        <3>1. told'[s] = "expired" /\ s \in gone /\ Held(s)
            BY <2>6
        <3>2. s \in created
            BY <3>1, MembersWereCreated DEF Held, ExpiryInv, ExpiryTypeOK
        <3>3. ToldTheTruth(s)'
            BY <2>2, <3>1, <3>2 DEF ToldTheTruth
        <3>4. QED
            BY <2>4, <3>3
    <2>7. QED
        BY <2>5, <2>6
<1>4. \A t \in SessionIds : LifetimeFits(t)'
    BY LifetimeUntouched
<1>5. QED
    BY <1>2, <1>3, <1>4 DEF ExpiryInv

\* A request refused as expired, the session purged by it or before it.
LEMMA RefuseExpiredKeeps ==
    ASSUME ExpiryInv, NEW s \in SessionIds, RefuseExpired(s)
    PROVE  ExpiryInv'
<1>1. ExpiryTypeOK
    BY DEF ExpiryInv
<1>2. /\ told' \in [SessionIds -> {"nothing", "ok", "expired", "not found"}]
      /\ told'[s] = "expired" /\ \A t \in SessionIds \ {s} : told'[t] = told[t]
    BY <1>1, TellFacts DEF RefuseExpired
<1>3. UNCHANGED <<hour, created, erased, reportReady, analysing>> /\ Untouched
    BY DEF RefuseExpired
<1>4. CASE Held(s) /\ Over(s) /\ Purge({s}, TRUE)
    <2>1. erased' \in SUBSET created
        BY <1>1, <1>3 DEF ExpiryTypeOK
    <2>2. \A t \in SessionIds : told'[t] # told[t] => t \in {s} /\ Held(t) /\ told'[t] = "expired"
        BY <1>2, <1>4
    <2>3. QED
        BY <1>2, <1>3, <1>4, <2>1, <2>2, PurgeKeeps
<1>5. CASE ~Held(s) /\ Contains(tombstones, s) /\ UNCHANGED <<states, tombstones>>
    <2>1. s \in created
        BY <1>1, <1>5, MembersWereCreated DEF ExpiryTypeOK
    <2>2. ToldTheTruth(s)'
        BY <1>2, <1>3, <1>5, <2>1 DEF ToldTheTruth, Held
    <2>3. /\ hour' \in 0..LastHour /\ reportReady' \subseteq created /\ analysing' \subseteq created
          /\ last_activity_at' \in [SessionIds -> 0..LastHour] /\ expires_at' \in [SessionIds -> Hours]
        BY <1>1, <1>3 DEF ExpiryTypeOK, Untouched
    <2>4. \A t \in SessionIds : LifetimeFits(t)'
        BY <1>3, LifetimeUntouched
    <2>5. QED
        BY <1>2, <1>3, <1>5, <2>2, <2>3, <2>4, PlacesKept
<1>6. QED
    BY <1>4, <1>5 DEF RefuseExpired

\* A request refused as unknown.
LEMMA RefuseUnknownKeeps ==
    ASSUME ExpiryInv, NEW s \in SessionIds, RefuseUnknown(s)
    PROVE  ExpiryInv'
<1>1. ExpiryTypeOK
    BY DEF ExpiryInv
<1>2. /\ told' \in [SessionIds -> {"nothing", "ok", "expired", "not found"}]
      /\ told'[s] = "not found" /\ \A t \in SessionIds \ {s} : told'[t] = told[t]
    BY <1>1, TellFacts DEF RefuseUnknown
<1>3. UNCHANGED <<hour, states, tombstones, created, erased, reportReady, analysing>> /\ Untouched
    BY DEF RefuseUnknown
<1>4. ToldTheTruth(s)'
    BY <1>2, <1>3 DEF ToldTheTruth, Held, Buried, RefuseUnknown
<1>5. /\ hour' \in 0..LastHour /\ reportReady' \subseteq created /\ analysing' \subseteq created
      /\ last_activity_at' \in [SessionIds -> 0..LastHour] /\ expires_at' \in [SessionIds -> Hours]
    BY <1>1, <1>3 DEF ExpiryTypeOK, Untouched
<1>6. \A t \in SessionIds : LifetimeFits(t)'
    BY <1>3, LifetimeUntouched
<1>7. QED
    BY <1>2, <1>3, <1>4, <1>5, <1>6, PlacesKept

\* The user deletes the session: no tombstone.
LEMMA DeleteSessionKeeps ==
    ASSUME ExpiryInv, NEW s \in SessionIds, DeleteSession(s)
    PROVE  ExpiryInv'
<1>1. ExpiryTypeOK
    BY DEF ExpiryInv
<1>2. s \in created /\ Held(s)
    BY <1>1, MembersWereCreated DEF ExpiryTypeOK, DeleteSession, Held
<1>3. /\ Purge({s}, FALSE) /\ erased' = erased \cup {s} /\ Untouched
      /\ UNCHANGED <<hour, created, reportReady, analysing, told>>
    BY DEF DeleteSession
<1>4. /\ erased' \in SUBSET created
      /\ told' \in [SessionIds -> {"nothing", "ok", "expired", "not found"}]
    BY <1>1, <1>2, <1>3 DEF ExpiryTypeOK
<1>5. /\ \A t \in SessionIds : t \in erased' => t \in erased \/ (t \in {s} /\ Held(t))
      /\ \A t \in SessionIds : told'[t] = told[t]
    BY <1>2, <1>3
<1>6. QED
    BY <1>3, <1>4, <1>5, PurgeKeeps

\* The sweep takes every session whose lifetime is over.
LEMMA SweepKeeps ==
    ASSUME ExpiryInv, sweep_expired
    PROVE  ExpiryInv'
<1>1. PICK gone : gone = {s \in ToSet(states) : Over(s)}
    OBVIOUS
<1>2. /\ Purge(gone, TRUE) /\ Untouched
      /\ UNCHANGED <<hour, created, erased, reportReady, analysing, told>>
    BY <1>1, Zenon DEF sweep_expired
<1>3. /\ erased' \in SUBSET created
      /\ told' \in [SessionIds -> {"nothing", "ok", "expired", "not found"}]
    BY <1>2 DEF ExpiryInv, ExpiryTypeOK
<1>4. \A t \in SessionIds : told'[t] = told[t]
    BY <1>2
<1>5. QED
    BY <1>2, <1>3, <1>4, PurgeKeeps

\* An analysis ends with a report, for a session held or gone.
LEMMA DeliversKeeps ==
    ASSUME ExpiryInv, NEW s \in SessionIds, AnalysisDelivers(s)
    PROVE  ExpiryInv'
<1>1. ExpiryTypeOK
    BY DEF ExpiryInv
<1>2. /\ s \in analysing /\ analysing' = analysing \ {s}
      /\ reportReady' = reportReady \cup {s} /\ touch(s, TRUE)
      /\ UNCHANGED <<hour, states, tombstones, created, erased, told>>
    BY DEF AnalysisDelivers
<1>3. last_activity_at' \in [SessionIds -> 0..LastHour] /\ expires_at' \in [SessionIds -> Hours]
    BY <1>1, <1>2, TouchFacts
<1>4. \A t \in SessionIds : LifetimeFits(t)'
    BY <1>2, LifetimeAfterTouch
<1>5. /\ hour' \in 0..LastHour /\ reportReady' \subseteq created /\ analysing' \subseteq created
      /\ told' \in [SessionIds -> {"nothing", "ok", "expired", "not found"}]
    BY <1>1, <1>2 DEF ExpiryTypeOK
<1>6. ToldTheTruth(s)'
    BY <1>2 DEF ExpiryInv, ToldTheTruth, Held, Buried
<1>7. QED
    BY <1>2, <1>3, <1>4, <1>5, <1>6, PlacesKept

\* An analysis ends without one.
LEMMA FailsKeeps ==
    ASSUME ExpiryInv, NEW s \in SessionIds, AnalysisFails(s)
    PROVE  ExpiryInv'
<1>1. ExpiryTypeOK
    BY DEF ExpiryInv
<1>2. /\ analysing' = analysing \ {s} /\ Untouched /\ reportReady' = reportReady \ {s}
      /\ UNCHANGED <<hour, states, tombstones, created, erased, told>>
    BY DEF AnalysisFails
<1>3. \A t \in SessionIds : LifetimeFits(t)'
    BY <1>2, LifetimeUntouched
<1>4. /\ hour' \in 0..LastHour /\ reportReady' \subseteq created /\ analysing' \subseteq created
      /\ told' \in [SessionIds -> {"nothing", "ok", "expired", "not found"}]
      /\ last_activity_at' \in [SessionIds -> 0..LastHour] /\ expires_at' \in [SessionIds -> Hours]
    BY <1>1, <1>2 DEF ExpiryTypeOK, Untouched
<1>5. ToldTheTruth(s)'
    BY <1>2 DEF ExpiryInv, ToldTheTruth, Held, Buried
<1>6. QED
    BY <1>2, <1>3, <1>4, <1>5, PlacesKept

\* An hour passes.
LEMMA HourKeeps ==
    ASSUME ExpiryInv, HourPasses
    PROVE  ExpiryInv'
<1>1. ExpiryTypeOK'
    <2>1. hour' \in 0..LastHour
        <3>1. hour \in 0..LastHour /\ hour < LastHour /\ hour' = hour + 1
            BY DEF ExpiryInv, ExpiryTypeOK, HourPasses
        <3>2. QED
            BY <3>1, ExpiryAssumption
    <2>2. QED
        BY <2>1, Zenon DEF ExpiryInv, ExpiryTypeOK, HourPasses, Untouched, Hours
<1>2. ASSUME NEW s \in SessionIds PROVE InOnePlace(s)' /\ ToldTheTruth(s)' /\ LifetimeFits(s)'
    BY DEF ExpiryInv, HourPasses, Untouched, InOnePlace, ToldTheTruth, LifetimeFits, Ttl, Held, Buried
<1>3. QED
    BY <1>1, <1>2 DEF ExpiryInv

\* Every step of the store keeps the invariant.
LEMMA ExpiryNextInv == ExpiryInv /\ [ExpiryNext]_expiryVars => ExpiryInv'
<1> SUFFICES ASSUME ExpiryInv, [ExpiryNext]_expiryVars PROVE ExpiryInv'
    OBVIOUS
<1>1. CASE sweep_expired
    BY <1>1, SweepKeeps
<1>2. CASE HourPasses
    BY <1>2, HourKeeps
<1>3. ASSUME NEW s \in SessionIds, Create(s) PROVE ExpiryInv'
    BY <1>3, CreateKeeps
<1>4. ASSUME NEW s \in SessionIds, Read(s) PROVE ExpiryInv'
    BY <1>4, AdmittedKeeps DEF Read, ExpiryInv, ExpiryTypeOK
<1>5. ASSUME NEW s \in SessionIds, StartAnalysis(s) PROVE ExpiryInv'
    <2>1. s \in created
        BY <1>5, MembersWereCreated DEF StartAnalysis, Admitted, Held, ExpiryInv, ExpiryTypeOK
    <2>2. reportReady' \subseteq reportReady /\ analysing' \subseteq created
        BY <1>5, <2>1 DEF StartAnalysis, ExpiryInv, ExpiryTypeOK
    <2>3. QED
        BY <1>5, <2>2, AdmittedKeeps DEF StartAnalysis
<1>6. ASSUME NEW s \in SessionIds, RefuseExpired(s) PROVE ExpiryInv'
    BY <1>6, RefuseExpiredKeeps
<1>7. ASSUME NEW s \in SessionIds, RefuseUnknown(s) PROVE ExpiryInv'
    BY <1>7, RefuseUnknownKeeps
<1>8. ASSUME NEW s \in SessionIds, DeleteSession(s) PROVE ExpiryInv'
    BY <1>8, DeleteSessionKeeps
<1>9. ASSUME NEW s \in SessionIds, AnalysisDelivers(s) PROVE ExpiryInv'
    BY <1>9, DeliversKeeps
<1>10. ASSUME NEW s \in SessionIds, AnalysisFails(s) PROVE ExpiryInv'
    BY <1>10, FailsKeeps
<1>11. CASE UNCHANGED expiryVars
    <2>1. ExpiryTypeOK'
        BY <1>11 DEF ExpiryInv, ExpiryTypeOK, expiryVars, Hours
    <2>2. ASSUME NEW s \in SessionIds PROVE InOnePlace(s)' /\ ToldTheTruth(s)' /\ LifetimeFits(s)'
        BY <1>11 DEF ExpiryInv, expiryVars, InOnePlace, ToldTheTruth, LifetimeFits, Ttl, Held, Buried
    <2>3. QED
        BY <2>1, <2>2 DEF ExpiryInv
<1>12. QED
    BY <1>1, <1>2, <1>3, <1>4, <1>5, <1>6, <1>7, <1>8, <1>9, <1>10, <1>11, Zenon DEF ExpiryNext

\* The invariant holds in every state of the store.
THEOREM ExpiryInvariance == ExpirySpec => []ExpiryInv
<1>1. QED
    BY ExpiryInitInv, ExpiryNextInv, PTL DEF ExpirySpec

\* The store, its tombstones and its lifetimes keep their types; no list names a
\* session twice.
THEOREM ExpiryTypeCorrect == ExpirySpec => []ExpiryTypeOK
<1>1. ExpiryInv => ExpiryTypeOK
    BY DEF ExpiryInv
<1>2. QED
    BY <1>1, ExpiryInvariance, PTL

-----------------------------------------------------------------------------
\* What LifetimeKept and GoneForGood say of a step and a session.
KeptInStep(s) ==
    LET ttl == IF s \in reportReady THEN SESSION_TTL_REPORT_READY ELSE SESSION_TTL IN
    /\ Held(s) /\ ~Contains(states', s) =>
          s \in erased' \/ hour >= last_activity_at[s] + ttl
    /\ hour >= last_activity_at[s] + SESSION_TTL_REPORT_READY =>
          last_activity_at'[s] = last_activity_at[s] \/ s \in analysing

GoneInStep(s) ==
    /\ told[s] \in {"expired", "not found"} => told'[s] # "ok"
    /\ told[s] = "not found" => told'[s] = "not found"
    /\ s \in erased => ~Contains(states', s) /\ told'[s] \in {told[s], "not found"}

\* A request is admitted only to a session held and in its lifetime.
LEMMA AdmittedInStep ==
    ASSUME ExpiryInv, NEW s \in SessionIds, Admitted(s), NEW t \in created
    PROVE  KeptInStep(t) /\ GoneInStep(t)
<1>1. ExpiryTypeOK /\ t \in SessionIds
    BY DEF ExpiryInv, ExpiryTypeOK
<1>2. InOnePlace(t) /\ ToldTheTruth(t) /\ LifetimeFits(t)
    BY <1>1 DEF ExpiryInv
<1>3. /\ Held(s) /\ ~Over(s) /\ touch(s, s \in reportReady) /\ Tell(s, "ok")
      /\ UNCHANGED <<hour, states, tombstones, created, erased>>
    BY DEF Admitted
<1>4. /\ told'[s] = "ok" /\ \A u \in SessionIds \ {s} : told'[u] = told[u]
    BY <1>1, <1>3, TellFacts
<1>5. /\ hour \in Int /\ last_activity_at[t] \in Int /\ expires_at[t] \in Int
    <2>1. /\ last_activity_at \in [SessionIds -> 0..LastHour] /\ hour \in 0..LastHour
          /\ expires_at \in [SessionIds -> Hours]
        BY <1>1 DEF ExpiryTypeOK
    <2>2. QED
        BY <1>1, <2>1 DEF Hours
<1>6. CASE t = s
    <2>1. hour < expires_at[t]
        BY <1>3, <1>5, <1>6 DEF Over
    <2>2. hour < last_activity_at[t] + SESSION_TTL_REPORT_READY
        BY <1>2, <1>5, <2>1, ExpiryAssumption DEF LifetimeFits
    <2>3. KeptInStep(t)
        BY <1>3, <1>5, <2>2, ExpiryAssumption DEF KeptInStep, Held
    <2>4. GoneInStep(t)
        BY <1>2, <1>3, <1>6 DEF GoneInStep, ToldTheTruth, InOnePlace
    <2>5. QED
        BY <2>3, <2>4
<1>7. CASE t # s
    <2>1. last_activity_at'[t] = last_activity_at[t] /\ told'[t] = told[t]
        BY <1>1, <1>3, <1>4, <1>7 DEF touch, ExpiryTypeOK
    <2>2. KeptInStep(t)
        BY <1>3, <2>1 DEF KeptInStep, Held
    <2>3. GoneInStep(t)
        BY <1>2, <1>3, <2>1 DEF GoneInStep, InOnePlace, Held
    <2>4. QED
        BY <2>2, <2>3
<1>8. QED
    BY <1>6, <1>7

\* A creation costs no other session its place.
LEMMA CreateInStep ==
    ASSUME ExpiryInv, NEW s \in SessionIds, Create(s), NEW t \in created
    PROVE  KeptInStep(t) /\ GoneInStep(t)
<1>1. ExpiryTypeOK /\ t \in SessionIds /\ t # s
    BY DEF ExpiryInv, ExpiryTypeOK, Create
<1>2. InOnePlace(t)
    BY <1>1 DEF ExpiryInv
<1>3. last_activity_at'[t] = last_activity_at[t] /\ told'[t] = told[t]
    BY <1>1 DEF touch, Tell, ExpiryTypeOK, Create
<1>4. Contains(states', t) <=> Held(t)
    <2>1. states \in Seq(SessionIds)
        BY <1>1, LargerSeq DEF ExpiryTypeOK
    <2>2. states' = Append(states, s)
        BY DEF Create
    <2>3. QED
        BY <1>1, <2>1, <2>2, AppendFacts DEF Held
<1>5. KeptInStep(t)
    BY <1>3, <1>4 DEF KeptInStep
<1>6. GoneInStep(t)
    BY <1>2, <1>3, <1>4 DEF GoneInStep, InOnePlace
<1>7. QED
    BY <1>5, <1>6

\* A purge takes sessions at the end of their lifetime, or deleted ones.
LEMMA PurgeInStep ==
    ASSUME ExpiryInv, NEW gone, NEW isExpired \in BOOLEAN, Purge(gone, isExpired), Untouched,
           NEW t \in created,
           t \in gone /\ Held(t) => Over(t) \/ t \in erased',
           told'[t] # "ok" \/ told'[t] = told[t],
           told'[t] # told[t] => t \in gone /\ Held(t)
    PROVE  KeptInStep(t) /\ GoneInStep(t)
<1>1. ExpiryTypeOK /\ t \in SessionIds
    BY DEF ExpiryInv, ExpiryTypeOK
<1>2. InOnePlace(t) /\ ToldTheTruth(t) /\ LifetimeFits(t)
    BY <1>1 DEF ExpiryInv
<1>3. Contains(states', t) <=> Held(t) /\ t \notin gone
    BY PurgeFacts, Zenon
<1>4. hour \in Int /\ last_activity_at[t] \in Int /\ expires_at[t] \in Int
    <2>1. /\ last_activity_at \in [SessionIds -> 0..LastHour] /\ hour \in 0..LastHour
          /\ expires_at \in [SessionIds -> Hours]
        BY <1>1 DEF ExpiryTypeOK
    <2>2. QED
        BY <1>1, <2>1 DEF Hours
<1>5. KeptInStep(t)
    <2>1. Over(t) => hour >= last_activity_at[t] + Ttl(t)
        BY <1>2, <1>4, ExpiryAssumption DEF Over, LifetimeFits, Ttl
    <2>2. last_activity_at'[t] = last_activity_at[t]
        BY DEF Untouched
    <2>3. QED
        BY <1>3, <2>1, <2>2 DEF KeptInStep, Ttl
<1>6. GoneInStep(t)
    BY <1>2, <1>3 DEF GoneInStep, ToldTheTruth, InOnePlace
<1>7. QED
    BY <1>5, <1>6

\* A step that leaves the store as it is and lets nobody in.
LEMMA StoreKeptInStep ==
    ASSUME ExpiryInv, states' = states, NEW t \in created,
           last_activity_at'[t] = last_activity_at[t] \/ t \in analysing,
           \/ told'[t] = told[t]
           \/ told'[t] = "not found"
           \/ told'[t] = "expired" /\ Buried(t)
    PROVE  KeptInStep(t) /\ GoneInStep(t)
<1>1. InOnePlace(t) /\ ToldTheTruth(t)
    BY DEF ExpiryInv, ExpiryTypeOK
<1>2. KeptInStep(t)
    BY DEF KeptInStep, Held
<1>3. GoneInStep(t)
    BY <1>1 DEF GoneInStep, InOnePlace, ToldTheTruth, Held
<1>4. QED
    BY <1>2, <1>3

\* Every step of the store keeps to both promises.
LEMMA ExpiryStep ==
    ASSUME ExpiryInv, [ExpiryNext]_expiryVars, NEW t \in created
    PROVE  KeptInStep(t) /\ GoneInStep(t)
<1>0. ExpiryTypeOK /\ t \in SessionIds
    BY DEF ExpiryInv, ExpiryTypeOK
<1>1. CASE sweep_expired
    <2>1. PICK gone : gone = {s \in ToSet(states) : Over(s)}
        OBVIOUS
    <2>2. Purge(gone, TRUE) /\ Untouched /\ told' = told
        BY <1>1, <2>1, Zenon DEF sweep_expired
    <2>3. t \in gone => Over(t)
        BY <2>1
    <2>4. QED
        BY <2>2, <2>3, PurgeInStep
<1>2. CASE HourPasses
    BY <1>2, StoreKeptInStep DEF HourPasses, Untouched
<1>3. ASSUME NEW s \in SessionIds, Create(s) PROVE KeptInStep(t) /\ GoneInStep(t)
    BY <1>3, CreateInStep
<1>4. ASSUME NEW s \in SessionIds, Read(s) \/ StartAnalysis(s) PROVE KeptInStep(t) /\ GoneInStep(t)
    BY <1>4, AdmittedInStep DEF Read, StartAnalysis
<1>5. ASSUME NEW s \in SessionIds, RefuseExpired(s) PROVE KeptInStep(t) /\ GoneInStep(t)
    <2>1. told'[s] = "expired" /\ \A u \in SessionIds \ {s} : told'[u] = told[u]
        BY <1>0, <1>5, TellFacts DEF RefuseExpired
    <2>2. Untouched
        BY <1>5 DEF RefuseExpired
    <2>3. CASE Held(s) /\ Over(s) /\ Purge({s}, TRUE)
        <3>1. /\ t \in {s} /\ Held(t) => Over(t)
              /\ told'[t] # "ok" \/ told'[t] = told[t]
              /\ told'[t] # told[t] => t \in {s} /\ Held(t)
            BY <1>0, <2>1, <2>3
        <3>2. QED
            BY <2>2, <2>3, <3>1, PurgeInStep
    <2>4. CASE ~Held(s) /\ Contains(tombstones, s) /\ UNCHANGED <<states, tombstones>>
        <3>1. told'[t] = told[t] \/ (told'[t] = "expired" /\ Buried(t))
            BY <1>0, <2>1, <2>4 DEF Buried
        <3>2. QED
            BY <2>2, <2>4, <3>1, StoreKeptInStep DEF Untouched
    <2>5. QED
        BY <1>5, <2>3, <2>4 DEF RefuseExpired
<1>6. ASSUME NEW s \in SessionIds, RefuseUnknown(s) PROVE KeptInStep(t) /\ GoneInStep(t)
    <2>1. told'[s] = "not found" /\ \A u \in SessionIds \ {s} : told'[u] = told[u]
        BY <1>0, <1>6, TellFacts DEF RefuseUnknown
    <2>2. told'[t] = told[t] \/ told'[t] = "not found"
        BY <1>0, <2>1
    <2>3. QED
        BY <1>6, <2>2, StoreKeptInStep DEF RefuseUnknown, Untouched
<1>7. ASSUME NEW s \in SessionIds, DeleteSession(s) PROVE KeptInStep(t) /\ GoneInStep(t)
    <2>1. t \in {s} => t \in erased'
        BY <1>7 DEF DeleteSession
    <2>2. QED
        BY <1>7, <2>1, PurgeInStep DEF DeleteSession
<1>8. ASSUME NEW s \in SessionIds, AnalysisDelivers(s) PROVE KeptInStep(t) /\ GoneInStep(t)
    <2>1. last_activity_at'[t] = last_activity_at[t] \/ t \in analysing
        BY <1>0, <1>8 DEF AnalysisDelivers, touch, ExpiryTypeOK
    <2>2. QED
        BY <1>8, <2>1, StoreKeptInStep DEF AnalysisDelivers
<1>9. ASSUME NEW s \in SessionIds, AnalysisFails(s) PROVE KeptInStep(t) /\ GoneInStep(t)
    BY <1>9, StoreKeptInStep DEF AnalysisFails, Untouched
<1>10. CASE UNCHANGED expiryVars
    BY <1>10, StoreKeptInStep DEF expiryVars
<1>11. QED
    BY <1>1, <1>2, <1>3, <1>4, <1>5, <1>6, <1>7, <1>8, <1>9, <1>10, Zenon DEF ExpiryNext

\* No session leaves the store before its lifetime is over unless its user deletes
\* it, and none is prolonged after it, but by its own late analysis.
THEOREM SessionsKeepTheirLifetime == ExpirySpec => LifetimeKept
<1>1. ExpiryInv /\ [ExpiryNext]_expiryVars => [\A t \in created : KeptInStep(t)]_expiryVars
    BY ExpiryStep
<1>2. [\A t \in created : KeptInStep(t)]_expiryVars =>
      [\A s \in created :
         LET ttl == IF s \in reportReady THEN SESSION_TTL_REPORT_READY ELSE SESSION_TTL IN
         /\ Held(s) /\ ~Contains(states', s) =>
               s \in erased' \/ hour >= last_activity_at[s] + ttl
         /\ hour >= last_activity_at[s] + SESSION_TTL_REPORT_READY =>
               last_activity_at'[s] = last_activity_at[s] \/ s \in analysing]_expiryVars
    BY DEF KeptInStep
<1>3. QED
    BY <1>1, <1>2, ExpiryInvariance, PTL DEF ExpirySpec, LifetimeKept

\* A session gone never answers again, a deleted one is never known again.
THEOREM GoneSessionsStayGone == ExpirySpec => GoneForGood
<1>1. ExpiryInv /\ [ExpiryNext]_expiryVars => [\A t \in created : GoneInStep(t)]_expiryVars
    BY ExpiryStep
<1>2. [\A t \in created : GoneInStep(t)]_expiryVars =>
      [\A s \in created :
         /\ told[s] \in {"expired", "not found"} => told'[s] # "ok"
         /\ told[s] = "not found" => told'[s] = "not found"
         /\ s \in erased => ~Contains(states', s) /\ told'[s] \in {told[s], "not found"}]_expiryVars
    BY DEF GoneInStep
<1>3. QED
    BY <1>1, <1>2, ExpiryInvariance, PTL DEF ExpirySpec, GoneForGood
=============================================================================
