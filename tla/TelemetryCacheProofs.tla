------------------------ MODULE TelemetryCacheProofs ------------------------
(***************************************************************************)
(* Type correctness of TelemetryCache, and that what a snapshot shows of a *)
(* unit was taken from that unit, after its latest absence, is never older *)
(* than what the snapshot before it showed, and after a filter reset is no *)
(* value from before that is not listed any more.  The entities over it    *)
(* leave the cache as it is and are there for every reading.               *)
(***************************************************************************)
EXTENDS Entities, TLAPS

------------------------------------------------------------------------------
(* Merging                                                                 *)

\* Restoring and remembering leaves each shown unit's values in its entry and
\* no entry of another unit.
LEMMA RememberIs ==
  ASSUME TypeOK, Remember(Restore)
  PROVE  cache' = [k \in Keys |-> IF k \in present THEN Restore[k] ELSE Blank]
<1> SUFFICES ASSUME NEW k \in Keys
             PROVE  cache'[k] = IF k \in present THEN Restore[k] ELSE Blank
  BY DEF Remember
<1> DEFINE ks == {j \in present : PropertyCacheKey(j) = k /\ Usable(Restore[j])}
<1>1. cache'[k] = IF ks # {} THEN Restore[CHOOSE j \in ks : TRUE] ELSE Forget(k, Restore)
  BY DEF Remember
<1>2. ks \subseteq {k}
  BY DEF PropertyCacheKey
<1>3. CASE k \notin present
  BY <1>1, <1>2, <1>3 DEF Forget, PropertyCacheKey
<1>4. CASE k \in present /\ Usable(Restore[k])
  <2>1. ks = {k}
    BY <1>2, <1>4 DEF PropertyCacheKey
  <2> QED BY <1>1, <1>4, <2>1
<1>5. CASE k \in present /\ ~Usable(Restore[k])
  <2>1. ks = {} /\ cache'[k] = cache[k]
    BY <1>1, <1>2, <1>5 DEF Forget, PropertyCacheKey
  <2>2. Restore[k] = [p \in Props |-> IF rooms[k][p] # NoValue THEN rooms[k][p]
                                      ELSE cache[k][p]]
    BY <1>5 DEF Restore, Merge, PropertyCacheKey
  <2>3. \A p \in Props : cache[k][p] = NoValue /\ Restore[k][p] = NoValue
    BY <1>5, <2>2 DEF Usable
  <2>4. cache[k] \in Values
    BY DEF TypeOK
  <2>5. cache[k] = Restore[k]
    BY <2>2, <2>3, <2>4 DEF Values
  <2> QED BY <1>5, <2>1, <2>5
<1> QED BY <1>3, <1>4, <1>5

\* A restored value is listed, or cached where nothing is listed.
LEMMA RestoreIs ==
  ASSUME NEW k \in Keys, NEW p \in Props
  PROVE  Restore[k][p] = IF k \notin present THEN NoValue
                         ELSE IF rooms[k][p] # NoValue THEN rooms[k][p] ELSE cache[k][p]
BY DEF Restore, Merge, PropertyCacheKey, Blank

------------------------------------------------------------------------------
(* Types                                                                   *)

\* A unit under way is a unit.
LEMMA BlankType == Blank \in Values
BY ProfilesAssumption DEF Blank, Values, NoValue

\* The initial state.
LEMMA InitType == Init => TypeOK
BY ProfilesAssumption, BlankType DEF Init, TypeOK, NoKey

\* Restored values are values.
LEMMA RestoreType == TypeOK => Restore \in [Keys -> Values]
<1> SUFFICES ASSUME TypeOK, NEW k \in Keys PROVE Restore[k] \in Values
  BY DEF Restore
<1>1. CASE k \in present
  BY <1>1 DEF Restore, Merge, PropertyCacheKey, Values, TypeOK
<1>2. CASE k \notin present
  BY <1>2, BlankType DEF Restore
<1> QED BY <1>1, <1>2

\* Every step keeps the types; a filter is reset only for a unit.
TypeInv == TypeOK /\ (pc = "reset" => target \in Keys)

\* Every step keeps the type invariant.
LEMMA NextType == TypeInv /\ [Next]_vars => TypeInv'
<1> SUFFICES ASSUME TypeOK, pc = "reset" => target \in Keys, [Next]_vars
             PROVE  TypeInv'
  BY DEF TypeInv
<1> USE ProfilesAssumption DEF TypeInv
<1>1. ASSUME NEW i \in Ids, NEW p \in Props, Report(i, p)
      PROVE  TypeInv'
  <2>1. clock + 1 \in 0..MaxReports /\ clock + 1 \in 1..MaxReports
    BY <1>1 DEF Report, TypeOK
  <2>2. <<i, unit[i]>> \in Keys
    BY <1>1 DEF Report, TypeOK, Keys
  <2>3. report' \in [Ids -> Values]
    BY <1>1, <2>1 DEF Report, TypeOK, Values
  <2>4. origin' \in [1..MaxReports -> Keys \cup {NoKey}]
    BY <1>1, <2>1, <2>2 DEF Report, TypeOK
  <2> QED BY <1>1, <2>1, <2>3, <2>4 DEF Report, TypeOK, readVars, snapshotVars
<1>2. ASSUME NEW i \in Ids, NEW p \in Props, Empty(i, p)
      PROVE  TypeInv'
  <2>1. report' \in [Ids -> Values]
    BY <1>2 DEF Empty, TypeOK, Values, NoValue
  <2> QED BY <1>2, <2>1 DEF Empty, TypeOK, readVars, snapshotVars
<1>3. ASSUME NEW i \in Ids, NEW profile \in Profiles \cup {NoUnit}, Exchange(i, profile)
      PROVE  TypeInv'
  BY <1>3, BlankType DEF Exchange, TypeOK, readVars, snapshotVars
<1>4. CASE BeginSnapshot
  BY <1>4 DEF BeginSnapshot, TypeOK, gatewayVars, snapshotVars
<1>5. CASE ReadRooms
  <2>1. rooms' \in [Keys -> Values]
    <3> SUFFICES ASSUME NEW k \in Keys PROVE rooms'[k] \in Values
      BY <1>5 DEF ReadRooms
    <3>1. k[1] \in Ids
      BY DEF Keys
    <3> QED BY <1>5, <3>1, BlankType DEF ReadRooms, TypeOK
  <2>2. present' \in SUBSET Keys
    BY <1>5 DEF ReadRooms, Attached
  <2> QED BY <1>5, <2>1, <2>2 DEF ReadRooms, TypeOK, gatewayVars, snapshotVars
<1>6. CASE ReturnSnapshot
  <2>1. Restore \in [Keys -> Values]
    BY RestoreType
  <2>2. cache' \in [Keys -> Values]
    BY <1>6, <2>1, RememberIs, BlankType DEF ReturnSnapshot
  <2>3. gone' \in [Keys -> 0..MaxReports]
    BY <1>6 DEF ReturnSnapshot, TypeOK
  <2>4. shown' \in SUBSET Keys /\ outdated' \in SUBSET (1..MaxReports) /\ dropped' = {}
    <3>1. present \in SUBSET Keys /\ outdated \in SUBSET (1..MaxReports)
      BY DEF TypeOK
    <3>2. shown' = present /\ outdated' \subseteq outdated /\ dropped' = {}
      BY <1>6 DEF ReturnSnapshot
    <3> QED BY <3>1, <3>2
  <2> QED BY <1>6, <2>1, <2>2, <2>3, <2>4 DEF ReturnSnapshot, TypeOK, gatewayVars
<1>7. CASE Fail
  BY <1>7 DEF Fail, TypeOK, gatewayVars, snapshotVars
<1>8. ASSUME NEW k \in Keys, BeginReset(k)
      PROVE  TypeInv'
  BY <1>8 DEF BeginReset, TypeOK, gatewayVars, snapshotVars
<1>9. CASE DropCached
  <2>1. cache' \in [Keys -> Values] /\ dropped' \in SUBSET (Keys \cup {NoKey})
    BY <1>9, BlankType DEF DropCached, TypeOK, PropertyCacheKey
  <2>2. outdated' \in SUBSET (1..MaxReports)
    <3>1. TakenBefore \subseteq 1..MaxReports
      <4>1. clock \in 0..MaxReports
        BY DEF TypeOK
      <4> QED BY <4>1 DEF TakenBefore
    <3> QED BY <1>9, <3>1 DEF DropCached, TypeOK
  <2> QED BY <1>9, <2>1, <2>2 DEF DropCached, TypeOK, gatewayVars
<1>10. CASE UNCHANGED vars
  BY <1>10 DEF vars, gatewayVars, readVars, snapshotVars, TypeOK
<1> QED BY <1>1, <1>2, <1>3, <1>4, <1>5, <1>6, <1>7, <1>8, <1>9, <1>10 DEF Next, Gateway

\* The client's cache and snapshots and the gateway's lists are of the declared
\* types, for any number of units, profiles and properties (client.py:698-740).
THEOREM TypeCorrect == Spec => []TypeOK
<1>1. Init => TypeInv
  BY InitType DEF TypeInv, Init
<1>2. TypeInv => TypeOK
  BY DEF TypeInv
<1> QED BY <1>1, <1>2, NextType, PTL DEF Spec

------------------------------------------------------------------------------
(* Freshness                                                               *)

KeyOf(i) == <<i, unit[i]>>

\* No time is ahead of the clock.
BoundInv ==
  /\ \A i \in Ids : \A p \in Props : report[i][p] <= clock
  /\ \A k \in Keys : gone[k] <= clock
  /\ \A k \in Keys : \A p \in Props :
       rooms[k][p] <= clock /\ cache[k][p] <= clock /\ served[k][p] <= clock
  /\ readAt <= clock

\* Every value is kept for the unit it was taken from.
OriginInv ==
  /\ \A i \in Ids : \A p \in Props :
       report[i][p] # NoValue => unit[i] # NoUnit /\ origin[report[i][p]] = KeyOf(i)
  /\ \A k \in Keys : \A p \in Props :
       /\ rooms[k][p] # NoValue => origin[rooms[k][p]] = k
       /\ cache[k][p] # NoValue => origin[cache[k][p]] = k
       /\ served[k][p] # NoValue => origin[served[k][p]] = k

\* Every value is from after the latest snapshot without its unit, and what is
\* listed for a unit that is missing from the rooms is from after they were read.
SinceInv ==
  /\ \A i \in Ids : \A p \in Props : report[i][p] # NoValue =>
       /\ report[i][p] > gone[KeyOf(i)]
       /\ pc = "read" /\ KeyOf(i) \notin present => report[i][p] > readAt
  /\ \A k \in Keys : \A p \in Props :
       /\ cache[k][p] # NoValue => cache[k][p] > gone[k]
       /\ served[k][p] # NoValue => served[k][p] > gone[k]
       /\ pc = "read" /\ rooms[k][p] # NoValue => rooms[k][p] > gone[k]

\* Listed values are no older than those read, those no older than the cached
\* ones, and those no older than the ones shown.
OrderInv ==
  /\ \A i \in Ids : \A p \in Props : report[i][p] # NoValue =>
       /\ report[i][p] >= cache[KeyOf(i)][p]
       /\ report[i][p] >= served[KeyOf(i)][p]
       /\ pc = "read" => report[i][p] >= rooms[KeyOf(i)][p]
  /\ \A k \in Keys : \A p \in Props :
       /\ cache[k][p] # NoValue => cache[k][p] >= served[k][p]
       /\ pc = "read" /\ rooms[k][p] # NoValue =>
            rooms[k][p] >= cache[k][p] /\ rooms[k][p] >= served[k][p]

FreshInv == BoundInv /\ OriginInv /\ SinceInv /\ OrderInv

\* Nothing has been taken at first.
LEMMA InitFresh == Init => FreshInv
BY ProfilesAssumption DEF Init, FreshInv, BoundInv, OriginInv, SinceInv, OrderInv, Blank, NoValue

\* A new value is newer than every other.
LEMMA ReportFresh ==
  ASSUME TypeOK, FreshInv, NEW i \in Ids, NEW p \in Props, Report(i, p)
  PROVE  FreshInv'
<1> USE ProfilesAssumption DEF NoValue
<1>1. /\ unit[i] # NoUnit /\ clock \in Nat /\ clock < MaxReports
      /\ clock' = clock + 1
      /\ report' = [report EXCEPT ![i][p] = clock + 1]
      /\ origin' = [origin EXCEPT ![clock + 1] = KeyOf(i)]
      /\ UNCHANGED <<unit, pc, target, rooms, present, readAt, cache, shown, served, gone>>
  BY DEF Report, KeyOf, readVars, snapshotVars, TypeOK
<1>2. /\ report \in [Ids -> Values] /\ rooms \in [Keys -> Values]
      /\ cache \in [Keys -> Values] /\ served \in [Keys -> Values]
      /\ gone \in [Keys -> 0..MaxReports] /\ readAt \in 0..MaxReports
      /\ origin \in [1..MaxReports -> Keys \cup {NoKey}]
  BY DEF TypeOK
<1>3. \A j \in Ids : \A q \in Props :
        /\ report[j][q] \in 0..MaxReports /\ report'[j][q] \in Nat
        /\ report'[j][q] = IF j = i /\ q = p THEN clock + 1 ELSE report[j][q]
  BY <1>1, <1>2 DEF Values
<1>4. \A k \in Keys : \A q \in Props :
        rooms[k][q] \in 0..MaxReports /\ cache[k][q] \in 0..MaxReports
        /\ served[k][q] \in 0..MaxReports /\ gone[k] \in 0..MaxReports
  BY <1>2 DEF Values
<1>5. \A n \in 1..MaxReports : n <= clock => origin'[n] = origin[n]
  BY <1>1, <1>2
<1>6. origin'[clock + 1] = KeyOf(i) /\ \A j \in Ids : KeyOf(j)' = KeyOf(j)
  BY <1>1, <1>2 DEF KeyOf
<1>7. \A j \in Ids : unit[j] # NoUnit => KeyOf(j) \in Keys
  BY DEF KeyOf, Keys, TypeOK
<1>8. BoundInv'
  <2>1. \A j \in Ids : \A q \in Props : report'[j][q] <= clock'
    BY <1>1, <1>3 DEF FreshInv, BoundInv
  <2>2. (\A k \in Keys : gone[k] <= clock') /\ readAt <= clock'
    BY <1>1, <1>2 DEF FreshInv, BoundInv
  <2>3. \A k \in Keys : \A q \in Props :
          rooms[k][q] <= clock' /\ cache[k][q] <= clock' /\ served[k][q] <= clock'
    BY <1>1, <1>4 DEF FreshInv, BoundInv
  <2> QED BY <1>1, <2>1, <2>2, <2>3 DEF BoundInv
<1>9. OriginInv'
  <2>1. ASSUME NEW j \in Ids, NEW q \in Props, report'[j][q] # NoValue
        PROVE  unit'[j] # NoUnit /\ origin'[report'[j][q]] = KeyOf(j)'
    <3>1. CASE j = i /\ q = p
      BY <1>1, <1>3, <1>6, <3>1
    <3>2. CASE ~(j = i /\ q = p)
      <4>1. report'[j][q] = report[j][q] /\ report[j][q] \in 1..MaxReports
            /\ report[j][q] <= clock
        BY <1>3, <2>1, <3>2 DEF FreshInv, BoundInv
      <4> QED BY <1>1, <1>5, <1>6, <4>1 DEF FreshInv, OriginInv
    <3> QED BY <3>1, <3>2
  <2>2. ASSUME NEW k \in Keys, NEW q \in Props
        PROVE  /\ rooms[k][q] # NoValue => origin'[rooms[k][q]] = k
               /\ cache[k][q] # NoValue => origin'[cache[k][q]] = k
               /\ served[k][q] # NoValue => origin'[served[k][q]] = k
    <3>1. rooms[k][q] <= clock /\ cache[k][q] <= clock /\ served[k][q] <= clock
      BY DEF FreshInv, BoundInv
    <3> QED BY <1>4, <1>5, <3>1 DEF FreshInv, OriginInv
  <2> QED BY <1>1, <2>1, <2>2 DEF OriginInv
<1>10. SinceInv'
  <2>1. ASSUME NEW j \in Ids, NEW q \in Props, report'[j][q] # NoValue
        PROVE  /\ report'[j][q] > gone[KeyOf(j)]
               /\ pc = "read" /\ KeyOf(j) \notin present => report'[j][q] > readAt
    <3>1. CASE j = i /\ q = p
      <4>1. gone[KeyOf(i)] <= clock /\ readAt <= clock /\ gone[KeyOf(i)] \in Nat
        BY <1>1, <1>2, <1>7 DEF FreshInv, BoundInv
      <4> QED BY <1>1, <1>2, <1>3, <3>1, <4>1
    <3>2. CASE ~(j = i /\ q = p)
      BY <1>3, <2>1, <3>2 DEF FreshInv, SinceInv
    <3> QED BY <3>1, <3>2
  <2> QED BY <1>1, <1>6, <2>1 DEF FreshInv, SinceInv
<1>11. OrderInv'
  <2>1. ASSUME NEW j \in Ids, NEW q \in Props, report'[j][q] # NoValue
        PROVE  /\ report'[j][q] >= cache[KeyOf(j)][q]
               /\ report'[j][q] >= served[KeyOf(j)][q]
               /\ pc = "read" => report'[j][q] >= rooms[KeyOf(j)][q]
    <3>1. CASE j = i /\ q = p
      <4>1. cache[KeyOf(i)][p] <= clock /\ served[KeyOf(i)][p] <= clock
            /\ rooms[KeyOf(i)][p] <= clock
        BY <1>1, <1>7 DEF FreshInv, BoundInv
      <4> QED BY <1>1, <1>3, <1>4, <1>7, <3>1, <4>1
    <3>2. CASE ~(j = i /\ q = p)
      BY <1>3, <2>1, <3>2 DEF FreshInv, OrderInv
    <3> QED BY <3>1, <3>2
  <2> QED BY <1>1, <1>6, <2>1 DEF FreshInv, OrderInv
<1> QED BY <1>8, <1>9, <1>10, <1>11 DEF FreshInv

\* Listing less changes nothing about what is kept.
LEMMA LessFresh ==
  ASSUME TypeOK, FreshInv,
         \/ \E i \in Ids : \E p \in Props : Empty(i, p)
         \/ \E i \in Ids : \E profile \in Profiles \cup {NoUnit} : Exchange(i, profile)
  PROVE  FreshInv'
<1>1. /\ UNCHANGED <<clock, origin, pc, target, rooms, present, readAt, cache, shown,
                     served, gone>>
      /\ \A j \in Ids : \A q \in Props :
           report'[j][q] # NoValue => report'[j][q] = report[j][q] /\ unit'[j] = unit[j]
  <2>1. ASSUME NEW i \in Ids, NEW p \in Props, Empty(i, p),
               NEW j \in Ids, NEW q \in Props, report'[j][q] # NoValue
        PROVE  report'[j][q] = report[j][q] /\ unit'[j] = unit[j]
    BY <2>1 DEF Empty, TypeOK, Values
  <2>2. ASSUME NEW i \in Ids, NEW profile \in Profiles \cup {NoUnit}, Exchange(i, profile),
               NEW j \in Ids, NEW q \in Props, report'[j][q] # NoValue
        PROVE  report'[j][q] = report[j][q] /\ unit'[j] = unit[j]
    BY <2>2 DEF Exchange, TypeOK, Blank
  <2> QED BY <2>1, <2>2 DEF Empty, Exchange, readVars, snapshotVars
<1>2. /\ \A j \in Ids : \A q \in Props : report'[j][q] # NoValue => KeyOf(j)' = KeyOf(j)
      /\ \A j \in Ids : \A q \in Props : report'[j][q] <= clock
  <2>1. clock \in Nat
    BY ProfilesAssumption DEF TypeOK
  <2>2. ASSUME NEW j \in Ids, NEW q \in Props PROVE report'[j][q] <= clock
    <3>1. CASE report'[j][q] = NoValue
      BY <2>1, <3>1 DEF NoValue
    <3>2. CASE report'[j][q] # NoValue
      BY <1>1, <3>2 DEF FreshInv, BoundInv
    <3> QED BY <3>1, <3>2
  <2> QED BY <1>1, <2>2 DEF KeyOf
<1>3. BoundInv'
  BY <1>1, <1>2 DEF FreshInv, BoundInv
<1>4. OriginInv'
  BY <1>1, <1>2 DEF FreshInv, OriginInv
<1>5. SinceInv'
  BY <1>1, <1>2 DEF FreshInv, SinceInv
<1>6. OrderInv'
  BY <1>1, <1>2 DEF FreshInv, OrderInv
<1> QED BY <1>3, <1>4, <1>5, <1>6 DEF FreshInv

\* The rooms that are read are those listed.
LEMMA ReadFresh ==
  ASSUME TypeOK, FreshInv, ReadRooms
  PROVE  FreshInv'
<1>1. /\ UNCHANGED <<unit, report, clock, origin, target, cache, shown, served, gone>>
      /\ pc' = "read" /\ readAt' = clock /\ present' = Attached
      /\ clock \in Nat
  BY ProfilesAssumption DEF ReadRooms, gatewayVars, snapshotVars, TypeOK
<1>2. \A k \in Keys : \A p \in Props :
        /\ rooms'[k][p] # NoValue =>
             k[1] \in Ids /\ k = KeyOf(k[1]) /\ rooms'[k][p] = report[k[1]][p]
        /\ k \in Attached => k = KeyOf(k[1]) /\ rooms'[k][p] = report[k[1]][p]
  <2> SUFFICES ASSUME NEW k \in Keys, NEW p \in Props
               PROVE  /\ rooms'[k][p] # NoValue =>
                           k[1] \in Ids /\ k = KeyOf(k[1]) /\ rooms'[k][p] = report[k[1]][p]
                      /\ k \in Attached => k = KeyOf(k[1]) /\ rooms'[k][p] = report[k[1]][p]
    OBVIOUS
  <2>1. k[1] \in Ids /\ (k \in Attached => k = KeyOf(k[1]))
    BY DEF Keys, Attached, KeyOf
  <2>2. rooms'[k][p] = IF k \in Attached THEN report[k[1]][p] ELSE NoValue
    BY DEF ReadRooms, Blank
  <2> QED BY <2>1, <2>2
<1>3. \A i \in Ids : KeyOf(i)' = KeyOf(i) /\ (unit[i] # NoUnit => KeyOf(i) \in Attached)
  BY <1>1 DEF KeyOf, Attached, Keys, TypeOK
<1>4. \A i \in Ids : \A p \in Props : report[i][p] \in Nat
  BY DEF TypeOK, Values
<1>5. BoundInv'
  <2>1. \A k \in Keys : \A p \in Props : rooms'[k][p] <= clock
    <3> SUFFICES ASSUME NEW k \in Keys, NEW p \in Props PROVE rooms'[k][p] <= clock
      OBVIOUS
    <3>1. CASE rooms'[k][p] = NoValue
      BY <1>1, <3>1 DEF NoValue
    <3>2. CASE rooms'[k][p] # NoValue
      BY <1>2, <3>2 DEF FreshInv, BoundInv
    <3> QED BY <3>1, <3>2
  <2> QED BY <1>1, <2>1 DEF FreshInv, BoundInv
<1>6. OriginInv'
  <2>1. \A k \in Keys : \A p \in Props : rooms'[k][p] # NoValue => origin[rooms'[k][p]] = k
    BY <1>2 DEF FreshInv, OriginInv
  <2> QED BY <1>1, <1>3, <2>1 DEF FreshInv, OriginInv
<1>7. SinceInv'
  <2>1. \A k \in Keys : \A p \in Props : rooms'[k][p] # NoValue => rooms'[k][p] > gone[k]
    BY <1>2 DEF FreshInv, SinceInv
  <2>2. \A i \in Ids : \A p \in Props : report[i][p] # NoValue => KeyOf(i) \in Attached
    BY <1>3 DEF FreshInv, OriginInv
  <2> QED BY <1>1, <1>3, <2>1, <2>2 DEF FreshInv, SinceInv
<1>8. OrderInv'
  <2>1. \A k \in Keys : \A p \in Props : rooms'[k][p] # NoValue =>
          rooms'[k][p] >= cache[k][p] /\ rooms'[k][p] >= served[k][p]
    BY <1>2 DEF FreshInv, OrderInv
  <2>2. \A i \in Ids : \A p \in Props :
          report[i][p] # NoValue => report[i][p] >= rooms'[KeyOf(i)][p]
    <3> SUFFICES ASSUME NEW i \in Ids, NEW p \in Props, report[i][p] # NoValue
                 PROVE  report[i][p] >= rooms'[KeyOf(i)][p]
      OBVIOUS
    <3>1. KeyOf(i) \in Attached
      BY <1>3 DEF FreshInv, OriginInv
    <3>2. KeyOf(i) \in Keys /\ KeyOf(i)[1] = i
      BY <3>1 DEF Attached, KeyOf
    <3>3. rooms'[KeyOf(i)][p] = report[i][p]
      BY <1>2, <3>1, <3>2
    <3> QED BY <1>4, <3>3
  <2> QED BY <1>1, <1>3, <2>1, <2>2 DEF FreshInv, OrderInv
<1> QED BY <1>5, <1>6, <1>7, <1>8 DEF FreshInv

\* What a snapshot shows: a listed value, or a cached one.
LEMMA ShownIs ==
  ASSUME TypeOK, ReturnSnapshot, NEW k \in Keys, NEW p \in Props
  PROVE  /\ served'[k][p] = IF k \notin present THEN NoValue
                            ELSE IF rooms[k][p] # NoValue THEN rooms[k][p] ELSE cache[k][p]
         /\ cache'[k][p] = served'[k][p]
<1>1. served'[k][p] = Restore[k][p]
  BY DEF ReturnSnapshot
<1>2. cache'[k][p] = IF k \in present THEN Restore[k][p] ELSE NoValue
  BY RememberIs DEF ReturnSnapshot, Blank
<1> QED BY <1>1, <1>2, RestoreIs

\* A snapshot keeps every value with its unit and in its order.
LEMMA ReturnFresh ==
  ASSUME TypeOK, FreshInv, ReturnSnapshot
  PROVE  FreshInv'
<1>1. /\ UNCHANGED <<unit, report, clock, origin, target, rooms, present, readAt>>
      /\ pc = "read" /\ pc' = "idle"
      /\ \A k \in Keys : gone'[k] = IF k \in present THEN gone[k] ELSE readAt
      /\ clock \in Nat
  BY ProfilesAssumption DEF ReturnSnapshot, gatewayVars, TypeOK
<1>2. \A i \in Ids : KeyOf(i)' = KeyOf(i)
                     /\ \A p \in Props : report[i][p] # NoValue => KeyOf(i) \in Keys
  BY <1>1 DEF KeyOf, Keys, TypeOK, FreshInv, OriginInv
<1>3. \A i \in Ids : \A p \in Props : report[i][p] \in Nat
  BY DEF TypeOK, Values
<1>4. \A k \in Keys : \A p \in Props :
        rooms[k][p] \in Nat /\ cache[k][p] \in Nat /\ served[k][p] \in Nat
  BY DEF TypeOK, Values
<1>5. \A k \in Keys : \A p \in Props : served'[k][p] \in Nat
  BY <1>4, ShownIs DEF NoValue
<1>6. BoundInv'
  <2>1. \A k \in Keys : \A p \in Props : served'[k][p] <= clock /\ cache'[k][p] <= clock
    BY <1>1, ShownIs DEF FreshInv, BoundInv, NoValue
  <2>2. \A k \in Keys : gone'[k] <= clock
    BY <1>1 DEF FreshInv, BoundInv
  <2> QED BY <1>1, <2>1, <2>2 DEF FreshInv, BoundInv
<1>7. OriginInv'
  <2>1. \A k \in Keys : \A p \in Props : served'[k][p] # NoValue => origin[served'[k][p]] = k
    BY ShownIs DEF FreshInv, OriginInv
  <2>2. \A k \in Keys : \A p \in Props : cache'[k][p] # NoValue => origin[cache'[k][p]] = k
    BY <2>1, ShownIs
  <2> QED BY <1>1, <1>2, <2>1, <2>2 DEF FreshInv, OriginInv
<1>8. SinceInv'
  <2>1. \A k \in Keys : \A p \in Props : served'[k][p] # NoValue => served'[k][p] > gone'[k]
    BY <1>1, ShownIs DEF FreshInv, SinceInv
  <2>2. \A k \in Keys : \A p \in Props : cache'[k][p] # NoValue => cache'[k][p] > gone'[k]
    BY <2>1, ShownIs
  <2>3. \A i \in Ids : \A p \in Props : report[i][p] # NoValue => report[i][p] > gone'[KeyOf(i)]
    BY <1>1, <1>2 DEF FreshInv, SinceInv
  <2> QED BY <1>1, <1>2, <2>1, <2>2, <2>3 DEF SinceInv
<1>9. OrderInv'
  <2>1. \A i \in Ids : \A p \in Props :
          report[i][p] # NoValue => report[i][p] >= served'[KeyOf(i)][p]
    <3> SUFFICES ASSUME NEW i \in Ids, NEW p \in Props, report[i][p] # NoValue
                 PROVE  report[i][p] >= served'[KeyOf(i)][p]
      OBVIOUS
    <3>1. report[i][p] >= cache[KeyOf(i)][p] /\ report[i][p] >= rooms[KeyOf(i)][p]
      BY <1>1 DEF FreshInv, OrderInv
    <3> QED BY <1>2, <1>3, <3>1, ShownIs DEF NoValue
  <2>2. \A i \in Ids : \A p \in Props :
          report[i][p] # NoValue => report[i][p] >= cache'[KeyOf(i)][p]
    BY <1>2, <2>1, ShownIs
  <2>3. \A k \in Keys : \A p \in Props : cache'[k][p] >= served'[k][p]
    BY <1>5, ShownIs
  <2> QED BY <1>1, <1>2, <2>1, <2>2, <2>3 DEF OrderInv
<1> QED BY <1>6, <1>7, <1>8, <1>9 DEF FreshInv

\* The other steps only forget.
LEMMA OtherFresh ==
  ASSUME TypeInv, FreshInv,
         BeginSnapshot \/ Fail \/ DropCached \/ (\E k \in Keys : BeginReset(k)) \/ UNCHANGED vars
  PROVE  FreshInv'
<1>1. /\ UNCHANGED <<unit, report, clock, origin, rooms, present, readAt, shown, served, gone>>
      /\ pc' = "read" => pc = "read"
      /\ clock \in Nat
  BY ProfilesAssumption
     DEF BeginSnapshot, Fail, DropCached, BeginReset, vars, gatewayVars, readVars,
         snapshotVars, TypeInv, TypeOK
<1>2. \A k \in Keys : \A p \in Props : cache'[k][p] = cache[k][p] \/ cache'[k][p] = NoValue
  BY DEF BeginSnapshot, Fail, DropCached, BeginReset, vars, snapshotVars, PropertyCacheKey,
         Blank, TypeInv, TypeOK
<1>3. \A i \in Ids : KeyOf(i)' = KeyOf(i)
                     /\ \A p \in Props : report[i][p] # NoValue => KeyOf(i) \in Keys
                                                                   /\ report[i][p] \in Nat
  BY <1>1 DEF KeyOf, Keys, TypeInv, TypeOK, FreshInv, OriginInv, Values
<1>4. BoundInv'
  BY <1>1, <1>2 DEF FreshInv, BoundInv, NoValue
<1>5. OriginInv'
  BY <1>1, <1>2, <1>3 DEF FreshInv, OriginInv
<1>6. SinceInv'
  BY <1>1, <1>2, <1>3 DEF FreshInv, SinceInv
<1>7. OrderInv'
  <2>1. \A i \in Ids : \A p \in Props :
          report[i][p] # NoValue => report[i][p] >= cache'[KeyOf(i)][p]
    BY <1>2, <1>3 DEF FreshInv, OrderInv, NoValue
  <2>2. \A k \in Keys : \A p \in Props : rooms[k][p] \in Nat
    BY DEF TypeInv, TypeOK, Values
  <2>3. \A k \in Keys : \A p \in Props :
          pc = "read" /\ rooms[k][p] # NoValue => rooms[k][p] >= cache'[k][p]
    BY <1>2, <2>2 DEF FreshInv, OrderInv, NoValue
  <2> QED BY <1>1, <1>2, <1>3, <2>1, <2>3 DEF FreshInv, OrderInv
<1> QED BY <1>4, <1>5, <1>6, <1>7 DEF FreshInv

\* Every step keeps the freshness.
LEMMA NextFresh == TypeInv /\ FreshInv /\ [Next]_vars => FreshInv'
BY ReportFresh, LessFresh, ReadFresh, ReturnFresh, OtherFresh DEF Next, Gateway, TypeInv

\* Values never cross to another unit or to a unit of another profile
\* (client.py:694-696, 719-740).
THEOREM NoCrossProfileHolds == Spec => []NoCrossProfile
<1>1. FreshInv => NoCrossProfile
  BY DEF FreshInv, OriginInv, NoCrossProfile
<1>2. Init => TypeInv
  BY InitType DEF TypeInv, Init
<1> QED BY <1>1, <1>2, NextType, InitFresh, NextFresh, PTL DEF Spec

\* A unit that returns starts from nothing (client.py:705-709).
THEOREM NothingFromBeforeHolds == Spec => []NothingFromBefore
<1>1. FreshInv => NothingFromBefore
  BY DEF FreshInv, SinceInv, NothingFromBefore
<1>2. Init => TypeInv
  BY InitType DEF TypeInv, Init
<1> QED BY <1>1, <1>2, NextType, InitFresh, NextFresh, PTL DEF Spec

\* What one step may do to the values shown.
NoOlderStep ==
  \A k \in shown \cap shown' : \A p \in Props :
    served'[k][p] # NoValue => served'[k][p] >= served[k][p]

\* Only a returned snapshot changes what is shown, and it shows nothing older.
LEMMA StepNeverOlder ==
  ASSUME TypeInv, FreshInv, [Next]_vars
  PROVE  [NoOlderStep]_vars
<1>1. CASE ReturnSnapshot
  <2> SUFFICES ASSUME NEW k \in shown, NEW p \in Props, served'[k][p] # NoValue
               PROVE  served'[k][p] >= served[k][p]
    BY DEF NoOlderStep
  <2>1. k \in Keys /\ pc = "read"
    BY <1>1 DEF TypeInv, TypeOK, ReturnSnapshot
  <2> QED BY <1>1, <2>1, ShownIs DEF FreshInv, OrderInv, TypeInv
<1>2. CASE UNCHANGED served
  <2>1. \A k \in shown : \A p \in Props : served[k][p] >= served[k][p]
    <3> SUFFICES ASSUME NEW k \in shown, NEW p \in Props PROVE served[k][p] >= served[k][p]
      OBVIOUS
    <3>1. served[k][p] \in Nat
      BY DEF TypeInv, TypeOK, Values
    <3> QED BY <3>1
  <2> QED BY <1>2, <2>1 DEF NoOlderStep
<1>3. [Next]_vars => ReturnSnapshot \/ UNCHANGED served
  BY DEF Next, Gateway, Report, Empty, Exchange, BeginSnapshot, ReadRooms, Fail, BeginReset,
         DropCached, vars, snapshotVars
<1> QED BY <1>1, <1>2, <1>3

\* No snapshot shows an older value of a unit than the snapshot before it, however
\* readings fail, filters are reset and units are exchanged (client.py:698-740).
THEOREM NeverOlderHolds == Spec => NeverOlder
<1>1. Init => TypeInv
  BY InitType DEF TypeInv, Init
<1>2. TypeInv /\ FreshInv /\ [Next]_vars => [NoOlderStep]_vars
  BY StepNeverOlder
<1>3. [NoOlderStep]_vars
        <=> [\A k \in shown \cap shown' : \A p \in Props :
               served'[k][p] # NoValue => served'[k][p] >= served[k][p]]_vars
  BY DEF NoOlderStep
<1> QED BY <1>1, <1>2, <1>3, NextType, InitFresh, NextFresh, PTL DEF Spec, NeverOlder

------------------------------------------------------------------------------
(* Values stay on display                                                  *)

\* The cache holds what was shown of every unit whose entry was not dropped.
KeptInv ==
  \A k \in shown \ dropped : \A p \in Props :
    served[k][p] # NoValue => cache[k][p] # NoValue

\* Only a returned snapshot changes what is shown, and only a filter reset drops
\* an entry without it.
LEMMA NextKept == TypeInv /\ KeptInv /\ [Next]_vars => KeptInv'
<1> SUFFICES ASSUME TypeInv, KeptInv, [Next]_vars PROVE KeptInv'
  OBVIOUS
<1>1. CASE ReturnSnapshot
  <2>1. shown' \subseteq Keys
    BY <1>1 DEF ReturnSnapshot, TypeInv, TypeOK
  <2> QED BY <1>1, <2>1, ShownIs DEF KeptInv, TypeInv
<1>2. CASE DropCached
  <2>1. /\ UNCHANGED <<shown, served>> /\ dropped' = dropped \cup {target}
        /\ \A k \in Keys : k # target => cache'[k] = cache[k]
    BY <1>2 DEF DropCached, PropertyCacheKey, TypeInv, TypeOK
  <2>2. shown \subseteq Keys
    BY DEF TypeInv, TypeOK
  <2> QED BY <2>1, <2>2 DEF KeptInv
<1>3. CASE UNCHANGED snapshotVars
  BY <1>3 DEF KeptInv, snapshotVars
<1>4. [Next]_vars => ReturnSnapshot \/ DropCached \/ UNCHANGED snapshotVars
  BY DEF Next, Gateway, Report, Empty, Exchange, BeginSnapshot, ReadRooms, Fail, BeginReset, vars
<1> QED BY <1>1, <1>2, <1>3, <1>4

\* What one step may do to the units whose entries were not dropped.
NoDropoutStep ==
  \A k \in (shown \cap shown') \ dropped : \A p \in Props :
    served[k][p] # NoValue => served'[k][p] # NoValue

LEMMA StepNoDropout ==
  ASSUME TypeInv, KeptInv, [Next]_vars
  PROVE  [NoDropoutStep]_vars
<1>1. CASE ReturnSnapshot
  <2> SUFFICES ASSUME NEW k \in (shown \cap shown') \ dropped, NEW p \in Props,
                      served[k][p] # NoValue
               PROVE  served'[k][p] # NoValue
    BY DEF NoDropoutStep
  <2>1. k \in Keys /\ k \in present
    BY <1>1 DEF TypeInv, TypeOK, ReturnSnapshot
  <2>2. cache[k][p] # NoValue
    BY DEF KeptInv
  <2> QED BY <1>1, <2>1, <2>2, ShownIs DEF TypeInv
<1>2. CASE UNCHANGED served
  BY <1>2 DEF NoDropoutStep
<1>3. [Next]_vars => ReturnSnapshot \/ UNCHANGED served
  BY DEF Next, Gateway, Report, Empty, Exchange, BeginSnapshot, ReadRooms, Fail, BeginReset,
         DropCached, vars, snapshotVars
<1> QED BY <1>1, <1>2, <1>3

\* A value that was shown stays while its unit stays, whatever the gateway lists as
\* empty meanwhile, unless a filter reset drops its entry (client.py:732-740).
THEOREM NoDropoutHolds == Spec => NoDropout
<1>1. Init => TypeInv /\ KeptInv
  BY InitType DEF TypeInv, KeptInv, Init
<1>2. TypeInv /\ KeptInv /\ [Next]_vars => [NoDropoutStep]_vars
  BY StepNoDropout
<1>3. [NoDropoutStep]_vars
        <=> [\A k \in (shown \cap shown') \ dropped : \A p \in Props :
               served[k][p] # NoValue => served'[k][p] # NoValue]_vars
  BY DEF NoDropoutStep
<1> QED BY <1>1, <1>2, <1>3, NextType, NextKept, PTL DEF Spec, NoDropout

------------------------------------------------------------------------------
(* After a filter reset                                                    *)

\* No value from before a reset is cached, or shown of a unit whose entry is there,
\* unless it has been listed since.
OutdatedInv ==
  \A k \in Keys : \A p \in Props :
    /\ cache[k][p] \notin outdated
    /\ k \notin dropped => served[k][p] \notin outdated

LEMMA NextOutdated == TypeInv /\ FreshInv /\ OutdatedInv /\ [Next]_vars => OutdatedInv'
<1> SUFFICES ASSUME TypeInv, FreshInv, OutdatedInv, [Next]_vars PROVE OutdatedInv'
  OBVIOUS
<1>1. CASE ReturnSnapshot
  <2>1. outdated' = outdated \ {rooms[k][p] : k \in Keys, p \in Props}
    BY <1>1 DEF ReturnSnapshot
  <2>2. 0 \notin outdated
    BY DEF TypeInv, TypeOK
  <2>3. ASSUME NEW k \in Keys, NEW p \in Props
        PROVE  served'[k][p] \notin outdated' /\ cache'[k][p] \notin outdated'
    <3>1. CASE k \notin present
      BY <1>1, <2>1, <2>2, <3>1, ShownIs DEF TypeInv, NoValue
    <3>2. CASE k \in present /\ rooms[k][p] # NoValue
      BY <1>1, <2>1, <3>2, ShownIs DEF TypeInv
    <3>3. CASE k \in present /\ rooms[k][p] = NoValue
      BY <1>1, <2>1, <3>3, ShownIs DEF TypeInv, OutdatedInv
    <3> QED BY <3>1, <3>2, <3>3
  <2> QED BY <2>3 DEF OutdatedInv
<1>2. CASE DropCached
  <2>1. /\ UNCHANGED served /\ target \in Keys
        /\ dropped' = dropped \cup {target} /\ outdated' = outdated \cup TakenBefore
    BY <1>2 DEF DropCached, TypeInv
  <2>2. /\ \A k \in Keys : k # target => cache'[k] = cache[k]
        /\ cache'[target] = Blank
    BY <1>2, <2>1 DEF DropCached, PropertyCacheKey, TypeInv, TypeOK
  <2>3. NoValue \notin outdated'
    BY <2>1 DEF TakenBefore, TypeInv, TypeOK, NoValue
  <2>4. ASSUME NEW k \in Keys, NEW p \in Props, k # target
        PROVE  cache[k][p] \notin TakenBefore /\ served[k][p] \notin TakenBefore
    <3>1. NoValue \notin TakenBefore
      BY DEF TakenBefore, NoValue
    <3>2. /\ cache[k][p] # NoValue => origin[cache[k][p]] = k
          /\ served[k][p] # NoValue => origin[served[k][p]] = k
      BY DEF FreshInv, OriginInv
    <3> QED BY <2>4, <3>1, <3>2 DEF TakenBefore
  <2>5. ASSUME NEW k \in Keys, NEW p \in Props
        PROVE  /\ cache'[k][p] \notin outdated'
               /\ k \notin dropped' => served'[k][p] \notin outdated'
    <3>1. CASE k = target
      BY <2>1, <2>2, <2>3, <3>1 DEF Blank
    <3>2. CASE k # target
      BY <2>1, <2>2, <2>4, <3>2 DEF OutdatedInv
    <3> QED BY <3>1, <3>2
  <2> QED BY <2>5 DEF OutdatedInv
<1>3. CASE UNCHANGED snapshotVars
  BY <1>3 DEF OutdatedInv, snapshotVars
<1>4. [Next]_vars => ReturnSnapshot \/ DropCached \/ UNCHANGED snapshotVars
  BY DEF Next, Gateway, Report, Empty, Exchange, BeginSnapshot, ReadRooms, Fail, BeginReset, vars
<1> QED BY <1>1, <1>2, <1>3, <1>4

\* Whatever fails after a filter reset dropped a unit's entry, no later snapshot shows
\* a value from before that the gateway has not listed again (client.py:495).
THEOREM ResetForgetsHolds == Spec => []ResetForgets
<1>1. Init => TypeInv /\ FreshInv /\ OutdatedInv
  BY InitType, InitFresh DEF TypeInv, OutdatedInv, Init
<1>2. TypeInv /\ OutdatedInv => ResetForgets
  BY DEF TypeInv, TypeOK, OutdatedInv, ResetForgets
<1> QED BY <1>1, <1>2, NextType, NextFresh, NextOutdated, PTL DEF Spec

------------------------------------------------------------------------------
(* The entities                                                            *)

\* Pressing buttons and adding entities leaves the cache as it is without them:
\* every theorem above holds of the entities' specification.
THEOREM EntitiesUseCache == EntitySpec => Spec
<1>1. EntityInit => Init
  BY DEF EntityInit
<1>2. [EntityNext]_<<vars, entityVars>> => [Next]_vars
  BY DEF EntityNext, Publish, Press, Quiet, Next
<1> QED BY <1>1, <1>2, PTL DEF EntitySpec, Spec

\* A published snapshot adds what is missing.
LEMMA PublishAdds ==
  ASSUME Publish
  PROVE  ReadingsHaveEntities'
<1>1. AddNewEntities(shown', served')
  BY DEF Publish
<1> SUFFICES ASSUME NEW k \in SupportedUnits(shown')
             PROVE  /\ k[1] \in units'
                    /\ \A p \in Props :
                         Reading(served', k, p) # NoValue => <<k[1], p>> \in sensors'
                    /\ SupportsFilterReset(served', k) => k[1] \in buttons'
  BY DEF ReadingsHaveEntities, SupportedUnits, Reading, SupportsFilterReset
<1>2. k[1] \in units'
  BY <1>1 DEF AddNewEntities
<1>3. ASSUME NEW p \in Props, Reading(served', k, p) # NoValue
      PROVE  <<k[1], p>> \in sensors'
  <2>1. <<k[1], p>> \in SensorsOf(served', k)
    BY <1>3 DEF SensorsOf
  <2> QED BY <1>1, <2>1 DEF AddNewEntities, NewSensors
<1>4. SupportsFilterReset(served', k) => k[1] \in buttons'
  BY <1>1 DEF AddNewEntities
<1> QED BY <1>2, <1>3, <1>4

\* Every reading of a supported unit has its sensor, every unit its fan, and every
\* filter that can be reset its button, for any units, profiles and properties.
THEOREM ReadingsHaveEntitiesHolds == EntitySpec => []ReadingsHaveEntities
<1>1. EntityInit => ReadingsHaveEntities
  BY DEF EntityInit, Init, ReadingsHaveEntities, SupportedUnits
<1>2. ReadingsHaveEntities /\ [EntityNext]_<<vars, entityVars>> => ReadingsHaveEntities'
  <2>1. ASSUME ReadingsHaveEntities, UNCHANGED <<shown, served, entityVars>>
        PROVE  ReadingsHaveEntities'
    BY <2>1 DEF ReadingsHaveEntities, SupportedUnits, Reading, SupportsFilterReset, entityVars
  <2>2. [EntityNext]_<<vars, entityVars>>
          => Publish \/ UNCHANGED <<shown, served, entityVars>>
    BY DEF EntityNext, Press, Quiet, BeginReset, Gateway, Report, Empty, Exchange,
           BeginSnapshot, ReadRooms, Fail, DropCached, vars, snapshotVars
  <2> QED BY <2>1, <2>2, PublishAdds
<1> QED BY <1>1, <1>2, PTL DEF EntitySpec
=============================================================================
