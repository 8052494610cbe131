--------------------------- MODULE IngestionProofs ---------------------------
(***************************************************************************)
(* Proofs about Ingestion for any devices, handlers, messages, ponds,      *)
(* products, metrics and bounds.  The inductive invariant says which locks *)
(* a report holds at each point and what they keep as the report found it: *)
(* the device row and its shadow, the rows it purges and the key it has    *)
(* inserted, and that the alarms it will raise are not open.               *)
(***************************************************************************)
EXTENDS Ingestion, TLAPS

\* The report has locked the device row: a report about water before it looks at
\* ingest_messages, a generic one after.
HasRow(t) ==
    t.pc \in {"read", "commit"} \/ (t.kind = "water" /\ t.pc \in {"purge", "insert"})

\* The report has inserted its row of ingest_messages.
HasKey(t) ==
    /\ t.msg # None
    /\ t.pc \in {"read", "commit"} \/ (t.kind = "generic" /\ t.pc \in {"query", "lock"})

\* What a report t of handler h may rely on.
TxOK(h, t) ==
    /\ t.pc # "idle" => t.dev \in Devices /\ t.props \in Payloads
    /\ t.pc = "idle" => t.purge = {}
    /\ t.pc \in {"purge", "insert"} => t.msg # None
    /\ t.pc = "lock" => t.pond \in Ponds /\ t.product \in Products
    /\ HasRow(t) => /\ rowLock[t.dev] = h
                    /\ device[t.dev].enabled
                    /\ t.pond = device[t.dev].pond /\ t.product = device[t.dev].product
    /\ \A k \in t.purge : keyLock[k] = h /\ ingested[k] = "old"
    /\ HasKey(t) => /\ keyLock[<<t.dev, t.msg>>] = h
                    /\ ingested[<<t.dev, t.msg>>] = "none" \/ <<t.dev, t.msg>> \in t.purge
    /\ t.pc = "commit" =>
          /\ t.copy = Merged(t, shadow[t.dev])
          /\ \A x \in t.raise : ~Open(<<t.dev, t.pond, t.product, x>>)

TxInv == \A h \in Handlers : TxOK(h, tx[h])

IndInv == TypeOK /\ TxInv /\ StoredOncePerRow /\ OneOpenAlarm /\ ShadowIsLatest

-----------------------------------------------------------------------------
\* The merge of a report into the shadow.

\* ShadowIsLatest of one row: the row is what the reports acc add up to.
Latest(row, acc, b) ==
    IF acc = {} THEN row = None
    ELSE /\ row # None
         /\ row.pond = b.pond /\ row.product = b.product
         /\ row.ts \in {r.ts : r \in acc}
         /\ \A r \in acc : row.ts >= r.ts
         /\ \A x \in Metrics :
                IF \A r \in acc : x \notin DOMAIN r.props THEN row.at[x] = None /\ row.val[x] = None
                ELSE /\ \A r \in acc : x \in DOMAIN r.props => row.at[x] >= r.ts
                     /\ \E r \in acc : x \in DOMAIN r.props /\ r.ts = row.at[x] /\ r.props[x] = row.val[x]

\* The two ways of saying so agree.
LEMMA LatestMeans == ShadowIsLatest <=> \A d \in Devices : Latest(shadow[d], accepted[d], Binding(d))
<1>1. \A d \in Devices, x \in Metrics : Stamps(d, x) = {} <=> \A r \in accepted[d] : x \notin DOMAIN r.props
  BY DEF Stamps
<1>2. \A d \in Devices, x \in Metrics : \A n :
        (\A s \in Stamps(d, x) : n >= s) <=> \A r \in accepted[d] : x \in DOMAIN r.props => n >= r.ts
  BY DEF Stamps
<1>3. \A d \in Devices : \A row : [pond |-> row.pond, product |-> row.product] = Binding(d)
        <=> row.pond = Binding(d).pond /\ row.product = Binding(d).product
  BY DEF Binding
<1> DEFINE Part(d) ==
             IF accepted[d] = {} THEN shadow[d] = None
             ELSE /\ shadow[d] # None
                  /\ [pond |-> shadow[d].pond, product |-> shadow[d].product] = Binding(d)
                  /\ shadow[d].ts \in {r.ts : r \in accepted[d]}
                  /\ \A r \in accepted[d] : shadow[d].ts >= r.ts
                  /\ \A x \in Metrics :
                        IF Stamps(d, x) = {} THEN shadow[d].at[x] = None /\ shadow[d].val[x] = None
                        ELSE /\ \A s \in Stamps(d, x) : shadow[d].at[x] >= s
                             /\ \E r \in accepted[d] :
                                    /\ x \in DOMAIN r.props
                                    /\ r.ts = shadow[d].at[x]
                                    /\ r.props[x] = shadow[d].val[x]
<1>4. ShadowIsLatest <=> \A d \in Devices : Part(d)
  BY DEF ShadowIsLatest
<1>5. ASSUME NEW d \in Devices PROVE Part(d) <=> Latest(shadow[d], accepted[d], Binding(d))
  <2>1. CASE accepted[d] = {}
    BY <2>1 DEF Latest
  <2>2. CASE accepted[d] # {}
    BY <1>1, <1>2, <1>3, <2>2 DEF Latest
  <2> QED BY <2>1, <2>2
<1> HIDE DEF Part
<1> QED BY <1>4, <1>5

\* A report with a payload has values of its metrics only.
LEMMA PayloadType ==
    ASSUME NEW p \in Payloads
    PROVE  DOMAIN p \subseteq Metrics /\ \A x \in DOMAIN p : p[x] \in Values
  BY IngestAssumption

\* Merging a report into the row of a device, under its binding, gives a row.
LEMMA MergedType ==
    ASSUME NEW t \in TxState, NEW row \in ShadowRow \cup {None},
           t.pond \in Ponds, t.product \in Products, t.props \in Payloads
    PROVE  Merged(t, row) \in ShadowRow
<1> DEFINE same == row # None /\ row.pond = t.pond /\ row.product = t.product
           at0 == IF same THEN row.at ELSE [x \in Metrics |-> None]
           val0 == IF same THEN row.val ELSE [x \in Metrics |-> None]
           newer == Newer(t, at0)
           base == IF t.kind = "generic" THEN row # None ELSE same
           at1 == [x \in Metrics |-> IF x \in newer THEN t.ts ELSE at0[x]]
           val1 == [x \in Metrics |-> IF x \in newer THEN t.props[x] ELSE val0[x]]
           ts1 == IF base /\ row.ts > t.ts THEN row.ts ELSE t.ts
<1>1. at0 \in [Metrics -> Times \cup {None}] /\ val0 \in [Metrics -> Values \cup {None}]
  BY DEF ShadowRow
<1>2. newer \subseteq DOMAIN t.props /\ \A x \in newer : t.props[x] \in Values
  BY PayloadType DEF Newer
<1>3. t.ts \in Times
  BY DEF TxState
<1>4. ts1 \in Times
  BY <1>3 DEF ShadowRow
<1>5. at1 \in [Metrics -> Times \cup {None}]
  <2> HIDE DEF at0, newer
  <2> QED BY <1>1, <1>3
<1>6. val1 \in [Metrics -> Values \cup {None}]
  <2> HIDE DEF val0, newer
  <2> QED BY <1>1, <1>2
<1>7. Merged(t, row) = [pond |-> t.pond, product |-> t.product, at |-> at1, val |-> val1, ts |-> ts1]
  BY DEF Merged
<1> HIDE DEF at1, val1, ts1
<1> QED BY <1>4, <1>5, <1>6, <1>7 DEF ShadowRow

\* Merging keeps the row the latest: it has the latest stamp of each metric and a
\* value reported then, in whatever order the reports are merged.
LEMMA MergedLatest ==
    ASSUME NEW t \in TxState, NEW row \in ShadowRow \cup {None},
           t.props \in Payloads,
           NEW acc \in SUBSET [ts : Times, props : Payloads],
           t.pond \in Ponds, t.product \in Products,
           NEW b, b.pond = t.pond, b.product = t.product, Latest(row, acc, b)
    PROVE  Latest(Merged(t, row), acc \cup {[ts |-> t.ts, props |-> t.props]}, b)
<1> DEFINE same == row # None /\ row.pond = t.pond /\ row.product = t.product
           at0 == IF same THEN row.at ELSE [x \in Metrics |-> None]
           val0 == IF same THEN row.val ELSE [x \in Metrics |-> None]
           newer == Newer(t, at0)
           base == IF t.kind = "generic" THEN row # None ELSE same
           new == [ts |-> t.ts, props |-> t.props]
           m == Merged(t, row)
           now == acc \cup {new}
<1>0. Merged(t, row) = [pond |-> t.pond, product |-> t.product,
         at |-> [x \in Metrics |-> IF x \in newer THEN t.ts ELSE at0[x]],
         val |-> [x \in Metrics |-> IF x \in newer THEN t.props[x] ELSE val0[x]],
         ts |-> IF base /\ row.ts > t.ts THEN row.ts ELSE t.ts]
  BY DEF Merged
<1>1. /\ m.pond = t.pond /\ m.product = t.product
      /\ m.ts = IF base /\ row.ts > t.ts THEN row.ts ELSE t.ts
      /\ \A x \in Metrics : m.at[x] = IF x \in newer THEN t.ts ELSE at0[x]
      /\ \A x \in Metrics : m.val[x] = IF x \in newer THEN t.props[x] ELSE val0[x]
  <2> HIDE DEF newer, at0, val0, base
  <2> QED BY <1>0
<1>2. m # None
  BY MergedType, IngestAssumption
<1> SUFFICES Latest(m, now, b)
  OBVIOUS
<1>a. t.ts \in Times /\ t.ts \in Nat /\ None \notin Times
  BY IngestAssumption DEF TxState, Times
<1>b. \A n \in Times : n \in Nat
  BY IngestAssumption DEF Times
<1>c. \A r \in acc : r.ts \in Times /\ r.ts \in Nat
  BY <1>b
<1>d. now # {} /\ new \in now /\ new.ts = t.ts /\ new.props = t.props
  OBVIOUS
<1>3. /\ now # {} /\ new \in now /\ new.ts = t.ts /\ new.props = t.props
      /\ t.ts \in Times /\ t.ts \in Nat /\ None \notin Times
      /\ \A r \in acc : r.ts \in Times /\ r.ts \in Nat
  BY <1>a, <1>c, <1>d
<1>4. \A x \in Metrics : x \in newer <=> x \in DOMAIN t.props /\ (at0[x] = None \/ t.ts >= at0[x])
  BY DEF Newer
<1>5. CASE acc = {}
  <2>1. row = None /\ ~same /\ ~base
    BY <1>5 DEF Latest
  <2>2. \A x \in Metrics : at0[x] = None /\ val0[x] = None
    BY <2>1
  <2> HIDE DEF m, newer, at0, val0, base, same
  <2>3. m.ts = t.ts
    BY <1>1, <2>1
  <2>4. \A x \in Metrics :
           IF x \in DOMAIN t.props THEN m.at[x] = t.ts /\ m.val[x] = t.props[x]
           ELSE m.at[x] = None /\ m.val[x] = None
    BY <1>1, <1>4, <2>2
  <2>5. now = {new}
    BY <1>5
  <2> HIDE DEF now, new
  <2> QED BY <1>1, <1>2, <1>3, <2>3, <2>4, <2>5 DEF Latest
<1>6. CASE acc # {}
  <2>1. /\ row # None /\ row \in ShadowRow
        /\ row.pond = b.pond /\ row.product = b.product
        /\ row.ts \in {r.ts : r \in acc}
        /\ \A r \in acc : row.ts >= r.ts
        /\ \A x \in Metrics :
                IF \A r \in acc : x \notin DOMAIN r.props THEN row.at[x] = None /\ row.val[x] = None
                ELSE /\ \A r \in acc : x \in DOMAIN r.props => row.at[x] >= r.ts
                     /\ \E r \in acc : x \in DOMAIN r.props /\ r.ts = row.at[x] /\ r.props[x] = row.val[x]
    BY <1>6 DEF Latest
  <2>2. same /\ base
    BY <2>1
  <2>3. at0 = row.at /\ val0 = row.val
    BY <2>2
  <2> HIDE DEF m, newer, at0, val0, base, same
  <2>4. m.ts = IF row.ts > t.ts THEN row.ts ELSE t.ts
    BY <1>1, <2>2
  <2>5. m.ts \in {r.ts : r \in now} /\ \A r \in now : m.ts >= r.ts
    <3>1. row.ts \in Nat /\ t.ts \in Nat /\ \A r \in acc : r.ts \in Nat
      BY <1>3, <2>1
    <3>2. \A r \in now : r \in acc \/ r = new
      OBVIOUS
    <3>3. \A r \in now : m.ts >= r.ts
      BY <1>3, <2>1, <2>4, <3>1, <3>2
    <3>4. m.ts \in {r.ts : r \in now}
      BY <1>3, <2>1, <2>4
    <3> QED BY <3>3, <3>4
  <2>6. ASSUME NEW x \in Metrics
        PROVE  IF \A r \in now : x \notin DOMAIN r.props THEN m.at[x] = None /\ m.val[x] = None
               ELSE /\ \A r \in now : x \in DOMAIN r.props => m.at[x] >= r.ts
                    /\ \E r \in now : x \in DOMAIN r.props /\ r.ts = m.at[x] /\ r.props[x] = m.val[x]
    <3>1. \A r \in acc : r \in now
      OBVIOUS
    <3>2. \A r \in now : r \in acc \/ r = new
      OBVIOUS
    <3> HIDE DEF now, new
    <3>3. CASE x \in newer
      <4>1. m.at[x] = t.ts /\ m.val[x] = t.props[x] /\ x \in DOMAIN t.props
        BY <1>1, <1>4, <3>3
      <4>2. \A r \in acc : x \in DOMAIN r.props => t.ts >= r.ts
        <5>1. SUFFICES ASSUME NEW r \in acc, x \in DOMAIN r.props PROVE t.ts >= r.ts
          OBVIOUS
        <5>2. row.at[x] >= r.ts /\ row.at[x] \in Times
          BY <1>3, <2>1, <5>1
        <5>3. row.at[x] # None /\ row.at[x] \in Nat /\ r.ts \in Nat /\ t.ts \in Nat
          BY <1>b, <1>3, <5>1, <5>2
        <5>4. t.ts >= row.at[x]
          BY <1>4, <2>3, <3>3, <5>3
        <5> QED BY <5>2, <5>3, <5>4
      <4>3. t.ts >= t.ts
        BY <1>3
      <4> QED BY <1>3, <3>2, <4>1, <4>2, <4>3
    <3>4. CASE x \notin newer /\ x \in DOMAIN t.props
      <4>1. m.at[x] = row.at[x] /\ m.val[x] = row.val[x]
        BY <1>1, <2>3, <3>4
      <4>2. row.at[x] # None /\ ~(t.ts >= row.at[x])
        BY <1>4, <2>3, <3>4
      <4>3. /\ \A r \in acc : x \in DOMAIN r.props => row.at[x] >= r.ts
            /\ \E r \in acc : x \in DOMAIN r.props /\ r.ts = row.at[x] /\ r.props[x] = row.val[x]
        BY <2>1, <4>2
      <4>4. row.at[x] >= t.ts
        BY <1>3, <4>2, <4>3
      <4> QED BY <1>3, <3>1, <3>2, <4>1, <4>3, <4>4
    <3>5. CASE x \notin DOMAIN t.props
      <4>1. m.at[x] = row.at[x] /\ m.val[x] = row.val[x]
        BY <1>1, <1>4, <2>3, <3>5
      <4> QED BY <1>3, <2>1, <3>1, <3>2, <3>5, <4>1
    <3> QED BY <3>3, <3>4, <3>5
  <2> HIDE DEF now, new
  <2> QED BY <1>1, <1>2, <1>3, <2>5, <2>6 DEF Latest
<1> QED BY <1>5, <1>6

-----------------------------------------------------------------------------
\* What the locks keep.

\* A step that keeps what handler h has locked: the device row, its shadow and the
\* closed alarms of the device, and the rows of ingest_messages.
Keeps(h) ==
    /\ \A d \in Devices : rowLock[d] = h =>
          /\ rowLock'[d] = h /\ device'[d] = device[d] /\ shadow'[d] = shadow[d]
          /\ \A p \in Ponds, q \in Products, x \in Metrics :
                ~(raised[<<d, p, q, x>>] > confirmed[<<d, p, q, x>>])
                   => ~(raised'[<<d, p, q, x>>] > confirmed'[<<d, p, q, x>>])
    /\ \A k \in Keys : keyLock[k] = h =>
          keyLock'[k] = h /\ (ingested[k] # "fresh" => ingested'[k] = ingested[k])

\* Then what a report of h relies on stays so.
LEMMA KeepsTx ==
    ASSUME TypeOK, NEW h \in Handlers, NEW t \in TxState, TxOK(h, t), Keeps(h)
    PROVE  TxOK(h, t)'
<1>1. t.purge \subseteq Keys /\ t.raise \subseteq Metrics /\ t.dev \in Devices \cup {None}
      /\ t.msg \in Messages \cup {None}
  BY DEF TxState
<1>2. /\ t.pc # "idle" => t.dev \in Devices /\ t.props \in Payloads
      /\ t.pc = "idle" => t.purge = {}
      /\ t.pc \in {"purge", "insert"} => t.msg # None
      /\ t.pc = "lock" => t.pond \in Ponds /\ t.product \in Products
  BY DEF TxOK
<1>3. ASSUME HasRow(t)
      PROVE  /\ t.dev \in Devices
             /\ rowLock[t.dev] = h /\ rowLock'[t.dev] = h /\ device'[t.dev] = device[t.dev]
             /\ shadow'[t.dev] = shadow[t.dev]
             /\ device[t.dev].enabled
             /\ t.pond = device[t.dev].pond /\ t.product = device[t.dev].product
             /\ t.pond \in Ponds /\ t.product \in Products
  <2>1. t.dev \in Devices
    BY <1>2, <1>3 DEF HasRow
  <2>2. /\ rowLock[t.dev] = h /\ device[t.dev].enabled
        /\ t.pond = device[t.dev].pond /\ t.product = device[t.dev].product
    BY <1>3 DEF TxOK
  <2>3. device[t.dev].pond \in Ponds /\ device[t.dev].product \in Products
    BY <2>1 DEF TypeOK
  <2> QED BY <2>1, <2>2, <2>3 DEF Keeps
<1>4. \A k \in t.purge : keyLock'[k] = h /\ ingested'[k] = "old"
  BY <1>1 DEF TxOK, Keeps
<1>5. ASSUME HasKey(t)
      PROVE  /\ keyLock'[<<t.dev, t.msg>>] = h
             /\ ingested'[<<t.dev, t.msg>>] = "none" \/ <<t.dev, t.msg>> \in t.purge
  <2>1. <<t.dev, t.msg>> \in Keys
    BY <1>1, <1>2, <1>5 DEF HasKey, Keys
  <2>2. /\ keyLock[<<t.dev, t.msg>>] = h
        /\ ingested[<<t.dev, t.msg>>] = "none" \/ <<t.dev, t.msg>> \in t.purge
    BY <1>5 DEF TxOK
  <2> QED BY <2>1, <2>2 DEF Keeps
<1>6. ASSUME t.pc = "commit"
      PROVE  /\ t.copy = Merged(t, shadow'[t.dev])
             /\ \A x \in t.raise : ~(raised'[<<t.dev, t.pond, t.product, x>>]
                                        > confirmed'[<<t.dev, t.pond, t.product, x>>])
  <2>1. HasRow(t)
    BY <1>6 DEF HasRow
  <2>2. /\ t.copy = Merged(t, shadow[t.dev])
        /\ \A x \in t.raise : ~(raised[<<t.dev, t.pond, t.product, x>>]
                                   > confirmed[<<t.dev, t.pond, t.product, x>>])
    BY <1>6 DEF TxOK, Open
  <2> QED BY <1>1, <1>3, <2>1, <2>2 DEF Keeps
<1> QED BY <1>2, <1>3, <1>4, <1>5, <1>6 DEF TxOK, Open

\* A handler whose transaction becomes t, while every other keeps what it locked.
LEMMA TxStep ==
    ASSUME TypeOK, TxInv, NEW h \in Handlers, NEW t \in TxState,
           tx' = [tx EXCEPT ![h] = t], TxOK(h, t)',
           \A g \in Handlers \ {h} : Keeps(g)
    PROVE  tx' \in [Handlers -> TxState] /\ TxInv'
<1>1. tx' \in [Handlers -> TxState]
  BY DEF TypeOK
<1>2. ASSUME NEW g \in Handlers PROVE TxOK(g, tx[g])'
  <2>1. PICK u : u = tx'[g]
    OBVIOUS
  <2>2. TxOK(g, u)'
    <3>1. CASE g = h
      BY <2>1, <3>1 DEF TypeOK
    <3>2. CASE g # h
      <4>1. u = tx[g] /\ u \in TxState
        BY <2>1, <3>2 DEF TypeOK
      <4>2. TxOK(g, u)
        BY <4>1 DEF TxInv
      <4> QED BY <3>2, <4>1, <4>2, KeepsTx
    <3> QED BY <3>1, <3>2
  <2> QED BY <2>1, <2>2 DEF TxOK, HasRow, HasKey, Open
<1> QED BY <1>1, <1>2 DEF TxInv

\* The same when no transaction moves.
LEMMA TxStay ==
    ASSUME TypeOK, TxInv, tx' = tx, \A g \in Handlers : Keeps(g)
    PROVE  TxInv'
<1>1. ASSUME NEW g \in Handlers PROVE TxOK(g, tx[g])'
  <2>1. PICK u : u = tx[g]
    OBVIOUS
  <2>2. TxOK(g, u) /\ u \in TxState
    BY <2>1 DEF TxInv, TypeOK
  <2>3. TxOK(g, u)'
    BY <2>2, KeepsTx
  <2> QED BY <2>1, <2>3 DEF TxOK, HasRow, HasKey, Open
<1> QED BY <1>1 DEF TxInv

\* A step that leaves the tables and the histories alone.
LEMMA TablesStay ==
    ASSUME IndInv, UNCHANGED tables, UNCHANGED history,
           rowLock' \in [Devices -> Handlers \cup {None}], keyLock' \in [Keys -> Handlers \cup {None}],
           tx' \in [Handlers -> TxState], TxInv',
           clock' \in Times, reports' \in 0..MaxReports, changes' \in 0..MaxChanges
    PROVE  IndInv'
<1>1. UNCHANGED <<device, ingested, shadow, rules, raised, confirmed, accepted, times, expired>>
  BY DEF tables, history
<1>2. TypeOK'
  BY <1>1 DEF IndInv, TypeOK
<1>3. StoredOncePerRow' /\ OneOpenAlarm'
  BY <1>1 DEF IndInv, StoredOncePerRow, OneOpenAlarm
<1>4. ShadowIsLatest'
  BY <1>1 DEF IndInv, ShadowIsLatest, Stamps, Binding
<1> QED BY <1>2, <1>3, <1>4 DEF IndInv

-----------------------------------------------------------------------------
\* The steps of a report.

\* A handler with nothing to do.
LEMMA NoTxType ==
    NoTx \in TxState /\ NoTx.pc = "idle" /\ NoTx.purge = {}
<1>1. 0 \in Times
  BY IngestAssumption DEF Times
<1> QED BY <1>1 DEF NoTx, TxState

\* Nothing is relied on by an idle handler.
LEMMA NoTxOK == \A h \in Handlers : TxOK(h, NoTx)'
<1>1. \A h \in Handlers : ~HasRow(NoTx) /\ ~HasKey(NoTx)
  BY NoTxType DEF HasRow, HasKey
<1> QED BY <1>1, NoTxType DEF TxOK

\* A step of one handler that changes no table and releases no lock of another.
LEMMA QuietKeeps ==
    ASSUME TypeOK, UNCHANGED tables, NEW g \in Handlers,
           \A d \in Devices : rowLock[d] = g => rowLock'[d] = g,
           \A k \in Keys : keyLock[k] = g => keyLock'[k] = g
    PROVE  Keeps(g)
<1>1. UNCHANGED <<device, ingested, shadow, raised, confirmed>>
  BY DEF tables
<1> QED BY <1>1 DEF Keeps

\* The end of a transaction takes no lock from another handler.
LEMMA ReleaseKeeps ==
    ASSUME TypeOK, NEW h \in Handlers, Release(h)
    PROVE  /\ rowLock' \in [Devices -> Handlers \cup {None}]
           /\ keyLock' \in [Keys -> Handlers \cup {None}]
           /\ \A g \in Handlers \ {h} : /\ \A d \in Devices : rowLock[d] = g => rowLock'[d] = g
                                        /\ \A k \in Keys : keyLock[k] = g => keyLock'[k] = g
           /\ tx' = [tx EXCEPT ![h] = NoTx]
  BY DEF TypeOK, Release

\* OnPublish.
LEMMA PublishInd ==
    ASSUME IndInv, NEW h \in Handlers, NEW d \in Devices, NEW m \in Messages \cup {None},
           NEW p \in Payloads, Publish(h, d, m, p)
    PROVE  IndInv'
<1>a. PICK kind, t : /\ kind = IF device[d].product \in Generic THEN "generic" ELSE "water"
                     /\ t = [NoTx EXCEPT !.pc = IF kind = "generic" /\ m # None THEN "purge" ELSE "query",
                                         !.dev = d, !.msg = m, !.kind = kind, !.ts = Received, !.props = p]
  OBVIOUS
<1>0. /\ kind \in {"generic", "water"}
      /\ t = [NoTx EXCEPT !.pc = IF kind = "generic" /\ m # None THEN "purge" ELSE "query",
                          !.dev = d, !.msg = m, !.kind = kind, !.ts = Received, !.props = p]
      /\ tx' = [tx EXCEPT ![h] = t]
  <2>1. tx' = [tx EXCEPT ![h] = t]
    BY <1>a DEF Publish
  <2>2. kind \in {"generic", "water"}
    BY <1>a
  <2> QED BY <1>a, <2>1, <2>2
<1>1. tx' = [tx EXCEPT ![h] = t]
  BY <1>0
<1>2. UNCHANGED tables /\ UNCHANGED locks /\ UNCHANGED history /\ reports' = reports + 1
      /\ UNCHANGED <<clock, changes>> /\ reports < MaxReports
  BY DEF Publish
<1>3. clock \in Times /\ reports' \in 0..MaxReports /\ changes \in 0..MaxChanges
  BY <1>2, IngestAssumption DEF IndInv, TypeOK
<1>4. /\ t \in TxState /\ t.dev = d /\ t.msg = m /\ t.kind = kind /\ t.props = p /\ t.purge = {}
      /\ t.pc = IF kind = "generic" /\ m # None THEN "purge" ELSE "query"
  BY <1>0, <1>3, NoTxType DEF TxState, Received
<1>6. ~HasRow(t) /\ ~HasKey(t)
  BY <1>4 DEF HasRow, HasKey
<1>7. TxOK(h, t)'
  BY <1>4, <1>6 DEF TxOK
<1>8. \A g \in Handlers : Keeps(g)
  BY <1>2, QuietKeeps DEF IndInv, locks
<1>9. tx' \in [Handlers -> TxState] /\ TxInv'
  BY <1>1, <1>4, <1>7, <1>8, TxStep DEF IndInv
<1>10. rowLock' \in [Devices -> Handlers \cup {None}] /\ keyLock' \in [Keys -> Handlers \cup {None}]
  BY <1>2 DEF IndInv, TypeOK, locks
<1> QED BY <1>2, <1>3, <1>9, <1>10, TablesStay

\* Rollback and its releases.
LEMMA RollbackInd ==
    ASSUME IndInv, NEW h \in Handlers, Rollback(h)
    PROVE  IndInv'
<1>1. Release(h) /\ UNCHANGED tables /\ UNCHANGED history /\ UNCHANGED <<clock, reports, changes>>
  BY DEF Rollback, bounds
<1>2. \A g \in Handlers \ {h} : Keeps(g)
  BY <1>1, ReleaseKeeps, QuietKeeps DEF IndInv
<1>3. tx' \in [Handlers -> TxState] /\ TxInv'
  BY <1>1, <1>2, ReleaseKeeps, NoTxType, NoTxOK, TxStep DEF IndInv
<1>4. rowLock' \in [Devices -> Handlers \cup {None}] /\ keyLock' \in [Keys -> Handlers \cup {None}]
  BY <1>1, ReleaseKeeps DEF IndInv
<1>5. clock' \in Times /\ reports' \in 0..MaxReports /\ changes' \in 0..MaxChanges
  BY <1>1 DEF IndInv, TypeOK
<1> QED BY <1>1, <1>3, <1>4, <1>5, TablesStay

\* The query's snapshot of the device row.
LEMMA QueryInd ==
    ASSUME IndInv, NEW h \in Handlers, Query(h)
    PROVE  IndInv'
<1>0. PICK o, t : /\ o = tx[h]
                  /\ t = [o EXCEPT !.pc = "lock", !.pond = device[o.dev].pond,
                                   !.product = device[o.dev].product]
  OBVIOUS
<1>1. /\ tx' = [tx EXCEPT ![h] = t] /\ o.pc = "query"
      /\ UNCHANGED tables /\ UNCHANGED locks /\ UNCHANGED history /\ UNCHANGED <<clock, reports, changes>>
  BY <1>0 DEF Query, bounds
<1>2. o \in TxState /\ TxOK(h, o)
  BY <1>0 DEF IndInv, TypeOK, TxInv
<1>3. o.dev \in Devices /\ o.props \in Payloads
  BY <1>1, <1>2 DEF TxOK
<1>4. device[o.dev].pond \in Ponds /\ device[o.dev].product \in Products
  BY <1>3 DEF IndInv, TypeOK
<1>5. /\ t \in TxState /\ t.pc = "lock" /\ t.dev = o.dev /\ t.msg = o.msg /\ t.kind = o.kind
      /\ t.props = o.props /\ t.purge = o.purge /\ t.pond \in Ponds /\ t.product \in Products
  BY <1>0, <1>2, <1>4 DEF TxState
<1>6. UNCHANGED <<device, ingested, shadow, raised, confirmed, rowLock, keyLock>>
  BY <1>1 DEF tables, locks
<1>7. ~HasRow(t) /\ (HasKey(t) <=> HasKey(o))
  BY <1>1, <1>5 DEF HasRow, HasKey
<1>8. TxOK(h, t)'
  BY <1>1, <1>2, <1>3, <1>5, <1>6, <1>7 DEF TxOK
<1>9. \A g \in Handlers : Keeps(g)
  BY <1>1, <1>6, QuietKeeps DEF IndInv
<1>10. tx' \in [Handlers -> TxState] /\ TxInv'
  BY <1>1, <1>5, <1>8, <1>9, TxStep DEF IndInv
<1>11. /\ rowLock' \in [Devices -> Handlers \cup {None}] /\ keyLock' \in [Keys -> Handlers \cup {None}]
       /\ clock' \in Times /\ reports' \in 0..MaxReports /\ changes' \in 0..MaxChanges
  BY <1>1, <1>6 DEF IndInv, TypeOK
<1> QED BY <1>1, <1>10, <1>11, TablesStay

\* The lock of the device row, with the row as it is then.
LEMMA LockInd ==
    ASSUME IndInv, NEW h \in Handlers, Lock(h)
    PROVE  IndInv'
<1>0. PICK o, pc, t : /\ o = tx[h]
                      /\ pc = IF o.kind = "water" /\ o.msg # None THEN "purge" ELSE "read"
                      /\ t = [o EXCEPT !.pc = pc]
  OBVIOUS
<1>1. /\ tx' = [tx EXCEPT ![h] = t] /\ o.pc = "lock"
      /\ rowLock[o.dev] = None /\ rowLock' = [rowLock EXCEPT ![o.dev] = h] /\ keyLock' = keyLock
      /\ UNCHANGED tables /\ UNCHANGED history /\ UNCHANGED <<clock, reports, changes>>
  BY <1>0 DEF Lock, Goto, bounds
<1>2. o \in TxState /\ TxOK(h, o)
  BY <1>0 DEF IndInv, TypeOK, TxInv
<1>3. o.dev \in Devices /\ o.props \in Payloads
  BY <1>1, <1>2 DEF TxOK
<1>4. device[o.dev].enabled /\ o.pond = device[o.dev].pond /\ o.product = device[o.dev].product
  BY <1>0 DEF Lock, StillMatches, Bound, Binding
<1>5. /\ t \in TxState /\ t.pc = pc /\ t.dev = o.dev /\ t.msg = o.msg /\ t.kind = o.kind
      /\ t.props = o.props /\ t.purge = o.purge /\ t.pond = o.pond /\ t.product = o.product
  BY <1>0, <1>2 DEF TxState
<1>6. UNCHANGED <<device, ingested, shadow, raised, confirmed, keyLock>>
  BY <1>1 DEF tables
<1>7. pc = IF o.kind = "water" /\ o.msg # None THEN "purge" ELSE "read"
  BY <1>0
<1>8. o.kind \in {"water", "generic"} /\ o.msg \in Messages \cup {None}
  BY <1>2 DEF TxState
<1>9. rowLock'[o.dev] = h
  BY <1>1, <1>3 DEF IndInv, TypeOK
<1>10. (HasKey(t) <=> HasKey(o)) /\ t.pc \in {"purge", "read"}
  BY <1>1, <1>5, <1>7, <1>8 DEF HasKey
<1>11. TxOK(h, t)'
  BY <1>1, <1>2, <1>3, <1>4, <1>5, <1>6, <1>7, <1>8, <1>9, <1>10 DEF TxOK
<1>12. \A g \in Handlers : Keeps(g)
  <2> SUFFICES ASSUME NEW g \in Handlers PROVE Keeps(g)
    OBVIOUS
  <2>1. \A d \in Devices : rowLock[d] = g => rowLock'[d] = g
    BY <1>1, IngestAssumption DEF IndInv, TypeOK
  <2> QED BY <1>1, <2>1, QuietKeeps DEF IndInv
<1>13. tx' \in [Handlers -> TxState] /\ TxInv'
  BY <1>1, <1>5, <1>11, <1>12, TxStep DEF IndInv
<1>14. /\ rowLock' \in [Devices -> Handlers \cup {None}] /\ keyLock' \in [Keys -> Handlers \cup {None}]
       /\ clock' \in Times /\ reports' \in 0..MaxReports /\ changes' \in 0..MaxChanges
  BY <1>1, <1>6 DEF IndInv, TypeOK
<1> QED BY <1>1, <1>13, <1>14, TablesStay

\* A shadow and reports that are as they were, or empty, of the same binding.
LEMMA LatestStays ==
    ASSUME ShadowIsLatest,
           \A d \in Devices : \/ /\ shadow'[d] = shadow[d] /\ accepted'[d] = accepted[d]
                                 /\ device'[d].pond = device[d].pond /\ device'[d].product = device[d].product
                              \/ shadow'[d] = None /\ accepted'[d] = {}
    PROVE  ShadowIsLatest'
<1>1. (ShadowIsLatest <=> \A d \in Devices : Latest(shadow[d], accepted[d], Binding(d)))'
  BY LatestMeans, PTL
<1>2. ASSUME NEW d \in Devices PROVE Latest(shadow'[d], accepted'[d], Binding(d)')
  <2>1. Latest(shadow[d], accepted[d], Binding(d))
    BY LatestMeans
  <2>2. CASE shadow'[d] = None /\ accepted'[d] = {}
    BY <2>2 DEF Latest
  <2>3. CASE /\ shadow'[d] = shadow[d] /\ accepted'[d] = accepted[d]
             /\ device'[d].pond = device[d].pond /\ device'[d].product = device[d].product
    <3>1. Binding(d)' = Binding(d)
      BY <2>3 DEF Binding
    <3> QED BY <2>1, <2>3, <3>1
  <2> QED BY <2>2, <2>3
<1> QED BY <1>1, <1>2

\* DELETE of the rows that are a day old.
LEMMA PurgeInd ==
    ASSUME IndInv, NEW h \in Handlers, Purge(h)
    PROVE  IndInv'
<1>0. PICK o, old, t : /\ o = tx[h]
                       /\ old = {k \in Keys : ingested[k] = "old"}
                       /\ t = [o EXCEPT !.pc = "insert", !.purge = old]
  OBVIOUS
<1>1. /\ tx' = [tx EXCEPT ![h] = t] /\ o.pc = "purge"
      /\ \A k \in old : keyLock[k] = None
      /\ keyLock' = [k \in Keys |-> IF k \in old THEN h ELSE keyLock[k]] /\ rowLock' = rowLock
      /\ UNCHANGED tables /\ UNCHANGED history /\ UNCHANGED <<clock, reports, changes>>
  BY <1>0 DEF Purge, bounds
<1>2. o \in TxState /\ TxOK(h, o)
  BY <1>0 DEF IndInv, TypeOK, TxInv
<1>3. o.dev \in Devices /\ o.props \in Payloads /\ o.msg # None
  BY <1>1, <1>2 DEF TxOK
<1>4. old \subseteq Keys /\ \A k \in old : ingested[k] = "old" /\ keyLock'[k] = h
  BY <1>0, <1>1
<1>5. /\ t \in TxState /\ t.pc = "insert" /\ t.dev = o.dev /\ t.msg = o.msg /\ t.kind = o.kind
      /\ t.props = o.props /\ t.purge = old /\ t.pond = o.pond /\ t.product = o.product
  BY <1>0, <1>2, <1>4 DEF TxState
<1>6. UNCHANGED <<device, ingested, shadow, raised, confirmed, rowLock>>
  BY <1>1 DEF tables
<1>7. (HasRow(t) <=> HasRow(o)) /\ ~HasKey(t)
  BY <1>1, <1>5 DEF HasRow, HasKey
<1>8. TxOK(h, t)'
  BY <1>1, <1>2, <1>3, <1>4, <1>5, <1>6, <1>7 DEF TxOK
<1>9. \A g \in Handlers : Keeps(g)
  <2> SUFFICES ASSUME NEW g \in Handlers PROVE Keeps(g)
    OBVIOUS
  <2>1. \A k \in Keys : keyLock[k] = g => keyLock'[k] = g
    BY <1>1, IngestAssumption
  <2> QED BY <1>1, <2>1, QuietKeeps DEF IndInv
<1>10. tx' \in [Handlers -> TxState] /\ TxInv'
  BY <1>1, <1>5, <1>8, <1>9, TxStep DEF IndInv
<1>11. /\ rowLock' \in [Devices -> Handlers \cup {None}] /\ keyLock' \in [Keys -> Handlers \cup {None}]
       /\ clock' \in Times /\ reports' \in 0..MaxReports /\ changes' \in 0..MaxChanges
  BY <1>1, <1>6 DEF IndInv, TypeOK
<1> QED BY <1>1, <1>10, <1>11, TablesStay

\* INSERT of the row of the message.
LEMMA InsertInd ==
    ASSUME IndInv, NEW h \in Handlers, Insert(h)
    PROVE  IndInv'
<1>0. PICK o, pc, key, t : /\ o = tx[h] /\ key = <<o.dev, o.msg>>
                           /\ pc = IF o.kind = "water" THEN "read" ELSE "query"
                           /\ t = [o EXCEPT !.pc = pc]
  OBVIOUS
<1>1. /\ tx' = [tx EXCEPT ![h] = t] /\ o.pc = "insert"
      /\ keyLock[key] \in {None, h} /\ keyLock' = [keyLock EXCEPT ![key] = h] /\ rowLock' = rowLock
      /\ UNCHANGED tables /\ UNCHANGED history /\ UNCHANGED <<clock, reports, changes>>
  BY <1>0 DEF Insert, Goto, KeyFree, Key, bounds
<1>2. o \in TxState /\ TxOK(h, o)
  BY <1>0 DEF IndInv, TypeOK, TxInv
<1>3. /\ o.dev \in Devices /\ o.props \in Payloads /\ o.msg # None
      /\ o.kind \in {"water", "generic"} /\ o.msg \in Messages \cup {None}
  BY <1>1, <1>2 DEF TxOK, TxState
<1>4. key \in Keys
  BY <1>0, <1>3 DEF Keys
<1>5. ingested[key] = "none" \/ key \in o.purge
  BY <1>0, <1>4 DEF Insert, Recorded, Purged, Key
<1>6. /\ t \in TxState /\ t.pc = pc /\ t.dev = o.dev /\ t.msg = o.msg /\ t.kind = o.kind
      /\ t.props = o.props /\ t.purge = o.purge /\ t.pond = o.pond /\ t.product = o.product
  BY <1>0, <1>2 DEF TxState
<1>7. UNCHANGED <<device, ingested, shadow, raised, confirmed, rowLock>>
  BY <1>1 DEF tables
<1>8. /\ pc = IF o.kind = "water" THEN "read" ELSE "query"
      /\ key = <<t.dev, t.msg>>
  BY <1>0, <1>6
<1>9. keyLock'[key] = h /\ \A k \in Keys : keyLock[k] = h => keyLock'[k] = h
  BY <1>1, <1>4 DEF IndInv, TypeOK
<1>10. HasRow(t) => HasRow(o)
  BY <1>1, <1>3, <1>6, <1>8 DEF HasRow
<1>11. o.purge \subseteq Keys
  BY <1>2 DEF TxState
<1>12. TxOK(h, t)'
  BY <1>1, <1>2, <1>3, <1>5, <1>6, <1>7, <1>8, <1>9, <1>10, <1>11 DEF TxOK
<1>13. \A g \in Handlers : Keeps(g)
  <2> SUFFICES ASSUME NEW g \in Handlers PROVE Keeps(g)
    OBVIOUS
  <2>1. \A k \in Keys : keyLock[k] = g => keyLock'[k] = g
    BY <1>1, IngestAssumption DEF IndInv, TypeOK
  <2> QED BY <1>1, <2>1, QuietKeeps DEF IndInv
<1>14. tx' \in [Handlers -> TxState] /\ TxInv'
  BY <1>1, <1>6, <1>12, <1>13, TxStep DEF IndInv
<1>15. /\ rowLock' \in [Devices -> Handlers \cup {None}] /\ keyLock' \in [Keys -> Handlers \cup {None}]
       /\ clock' \in Times /\ reports' \in 0..MaxReports /\ changes' \in 0..MaxChanges
  BY <1>1, <1>7 DEF IndInv, TypeOK
<1> QED BY <1>1, <1>14, <1>15, TablesStay

\* The statements after the row and the key: what the commit will write.
LEMMA ReadInd ==
    ASSUME IndInv, NEW h \in Handlers, Read(h)
    PROVE  IndInv'
<1>0. PICK o, raise, copy, t : /\ o = tx[h] /\ raise = Raises(h) /\ copy = Merged(o, shadow[o.dev])
                               /\ t = [o EXCEPT !.pc = "commit", !.raise = raise, !.copy = copy]
  OBVIOUS
<1>1. /\ tx' = [tx EXCEPT ![h] = t] /\ o.pc = "read"
      /\ UNCHANGED tables /\ UNCHANGED locks /\ UNCHANGED history /\ UNCHANGED <<clock, reports, changes>>
  BY <1>0 DEF Read, bounds
<1>2. o \in TxState /\ TxOK(h, o)
  BY <1>0 DEF IndInv, TypeOK, TxInv
<1>3. o.dev \in Devices /\ o.props \in Payloads /\ HasRow(o)
  BY <1>1, <1>2 DEF TxOK, HasRow
<1>4. o.pond \in Ponds /\ o.product \in Products
  <2>1. o.pond = device[o.dev].pond /\ o.product = device[o.dev].product
    BY <1>2, <1>3 DEF TxOK
  <2> QED BY <1>3, <2>1 DEF IndInv, TypeOK
<1>5. shadow[o.dev] \in ShadowRow \cup {None}
  BY <1>3 DEF IndInv, TypeOK
<1>6. copy \in ShadowRow
  BY <1>0, <1>2, <1>3, <1>4, <1>5, MergedType
<1>7. raise \subseteq Metrics /\ \A x \in raise : ~Open(<<o.dev, o.pond, o.product, x>>)
  BY <1>0, <1>3, PayloadType DEF Raises, Breaches
<1>8. /\ t \in TxState /\ t.pc = "commit" /\ t.dev = o.dev /\ t.msg = o.msg /\ t.kind = o.kind
      /\ t.props = o.props /\ t.purge = o.purge /\ t.pond = o.pond /\ t.product = o.product
      /\ t.ts = o.ts /\ t.raise = raise /\ t.copy = copy
  BY <1>0, <1>2, <1>6, <1>7 DEF TxState
<1>9. UNCHANGED <<device, ingested, shadow, raised, confirmed, rowLock, keyLock>>
  BY <1>1 DEF tables, locks
<1>10. HasKey(t) => HasKey(o)
  BY <1>1, <1>8 DEF HasKey
<1>11. copy = Merged(t, shadow[o.dev])
  BY <1>0, <1>8 DEF Merged, Newer
<1>12. \A x \in raise : ~Open(<<o.dev, o.pond, o.product, x>>)'
  BY <1>7, <1>9 DEF Open
<1>13. TxOK(h, t)'
  BY <1>1, <1>2, <1>3, <1>8, <1>9, <1>10, <1>11, <1>12 DEF TxOK
<1>14. \A g \in Handlers : Keeps(g)
  BY <1>1, <1>9, QuietKeeps DEF IndInv
<1>15. tx' \in [Handlers -> TxState] /\ TxInv'
  BY <1>1, <1>8, <1>13, <1>14, TxStep DEF IndInv
<1>16. /\ rowLock' \in [Devices -> Handlers \cup {None}] /\ keyLock' \in [Keys -> Handlers \cup {None}]
       /\ clock' \in Times /\ reports' \in 0..MaxReports /\ changes' \in 0..MaxChanges
  BY <1>1, <1>9 DEF IndInv, TypeOK
<1> QED BY <1>1, <1>15, <1>16, TablesStay
\* A purge that commits: the rows it deletes are its own, each was counted stored.
LEMMA PurgeCounts ==
    ASSUME IndInv, NEW h \in Handlers, CountExpired(h)
    PROVE  /\ expired' \in [Keys -> Nat]
           /\ \A k \in Keys : k \in tx[h].purge =>
                 keyLock[k] = h /\ ingested[k] = "old" /\ times[k] = expired[k] + 1 /\ expired'[k] = expired[k] + 1
           /\ \A k \in Keys : k \notin tx[h].purge => expired'[k] = expired[k]
<1>1. TxOK(h, tx[h])
  BY DEF IndInv, TxInv
<1>2. expired \in [Keys -> Nat] /\ times \in [Keys -> Nat]
  BY DEF IndInv, TypeOK
<1>3. expired' = [k \in Keys |-> expired[k] + IF k \in tx[h].purge THEN 1 ELSE 0]
  BY DEF CountExpired
<1>4. \A k \in Keys : k \in tx[h].purge => keyLock[k] = h /\ ingested[k] = "old"
  BY <1>1 DEF TxOK
<1>5. \A k \in Keys : times[k] = expired[k] + IF ingested[k] = "none" THEN 0 ELSE 1
  BY DEF IndInv, StoredOncePerRow
<1> QED BY <1>2, <1>3, <1>4, <1>5

\* A duplicate: only the purge commits.
LEMMA DuplicateInd ==
    ASSUME IndInv, NEW h \in Handlers, Duplicate(h)
    PROVE  IndInv'
<1>1. /\ Release(h) /\ CountExpired(h)
      /\ ingested' = [k \in Keys |-> IF k \in tx[h].purge THEN "none" ELSE ingested[k]]
      /\ UNCHANGED <<device, shadow, rules, raised, confirmed, accepted, times, clock, reports, changes>>
  BY DEF Duplicate, Purged, bounds
<1>2. \A g \in Handlers \ {h} : Keeps(g)
  <2> SUFFICES ASSUME NEW g \in Handlers \ {h} PROVE Keeps(g)
    OBVIOUS
  <2>1. /\ \A d \in Devices : rowLock[d] = g => rowLock'[d] = g
        /\ \A k \in Keys : keyLock[k] = g => keyLock'[k] = g
    BY <1>1, ReleaseKeeps DEF IndInv
  <2>2. \A k \in Keys : keyLock[k] = g => ingested'[k] = ingested[k]
    BY <1>1, PurgeCounts
  <2> QED BY <1>1, <2>1, <2>2 DEF Keeps
<1>3. tx' \in [Handlers -> TxState] /\ TxInv'
  BY <1>1, <1>2, ReleaseKeeps, NoTxType, NoTxOK, TxStep DEF IndInv
<1>4. rowLock' \in [Devices -> Handlers \cup {None}] /\ keyLock' \in [Keys -> Handlers \cup {None}]
  BY <1>1, ReleaseKeeps DEF IndInv
<1>5. expired' \in [Keys -> Nat]
  BY <1>1, PurgeCounts
<1>6. ingested' \in [Keys -> {"none", "fresh", "old"}]
  BY <1>1 DEF IndInv, TypeOK
<1>7. TypeOK'
  BY <1>1, <1>3, <1>4, <1>5, <1>6 DEF IndInv, TypeOK
<1>8. StoredOncePerRow'
  <2> SUFFICES ASSUME NEW k \in Keys
               PROVE  times'[k] = expired'[k] + IF ingested'[k] = "none" THEN 0 ELSE 1
    BY DEF StoredOncePerRow
  <2>1. expired[k] \in Nat /\ times[k] = expired[k] + IF ingested[k] = "none" THEN 0 ELSE 1
    BY DEF IndInv, TypeOK, StoredOncePerRow
  <2>2. CASE k \in tx[h].purge
    BY <1>1, <2>1, <2>2, PurgeCounts
  <2>3. CASE k \notin tx[h].purge
    BY <1>1, <2>1, <2>3, PurgeCounts
  <2> QED BY <2>2, <2>3
<1>9. OneOpenAlarm'
  BY <1>1 DEF IndInv, OneOpenAlarm
<1>10. ShadowIsLatest'
  BY <1>1, LatestStays DEF IndInv
<1> QED BY <1>3, <1>7, <1>8, <1>9, <1>10 DEF IndInv

\* The commit of a report.
LEMMA CommitInd ==
    ASSUME IndInv, NEW h \in Handlers, Commit(h)
    PROVE  IndInv'
<1>0. PICK t : t = tx[h]
  OBVIOUS
<1>1. /\ t.pc = "commit" /\ Release(h) /\ CountExpired(h)
      /\ shadow' = [shadow EXCEPT ![t.dev] = t.copy]
      /\ raised' = [k \in Alarms |-> raised[k] +
            IF k \in {<<t.dev, t.pond, t.product, x>> : x \in t.raise} THEN 1 ELSE 0]
      /\ ingested' = [k \in Keys |-> IF k = <<t.dev, t.msg>> THEN "fresh"
                                     ELSE IF k \in t.purge THEN "none" ELSE ingested[k]]
      /\ accepted' = [accepted EXCEPT ![t.dev] = @ \cup {[ts |-> t.ts, props |-> t.props]}]
      /\ times' = [k \in Keys |-> times[k] + IF k = <<t.dev, t.msg>> THEN 1 ELSE 0]
      /\ UNCHANGED <<device, rules, confirmed, clock, reports, changes>>
  BY <1>0 DEF Commit, Key, Purged, bounds
<1>2. t \in TxState /\ TxOK(h, t)
  BY <1>0 DEF IndInv, TypeOK, TxInv
<1>3. /\ t.dev \in Devices /\ t.props \in Payloads /\ HasRow(t) /\ t.ts \in Times
      /\ t.msg \in Messages \cup {None} /\ t.raise \subseteq Metrics /\ t.purge \subseteq Keys
  BY <1>1, <1>2 DEF TxOK, HasRow, TxState
<1>4. /\ rowLock[t.dev] = h /\ device[t.dev].enabled
      /\ t.pond = device[t.dev].pond /\ t.product = device[t.dev].product
      /\ t.pond \in Ponds /\ t.product \in Products
  <2>1. /\ rowLock[t.dev] = h /\ device[t.dev].enabled
        /\ t.pond = device[t.dev].pond /\ t.product = device[t.dev].product
    BY <1>2, <1>3 DEF TxOK
  <2> QED BY <1>3, <2>1 DEF IndInv, TypeOK
<1>5. /\ shadow[t.dev] \in ShadowRow \cup {None} /\ t.copy = Merged(t, shadow[t.dev])
      /\ t.copy \in ShadowRow
  <2>1. shadow[t.dev] \in ShadowRow \cup {None} /\ t.copy = Merged(t, shadow[t.dev])
    BY <1>1, <1>2, <1>3 DEF TxOK, IndInv, TypeOK
  <2> QED BY <1>2, <1>3, <1>4, <2>1, MergedType
<1>6. ASSUME <<t.dev, t.msg>> \in Keys
      PROVE  /\ keyLock[<<t.dev, t.msg>>] = h
             /\ ingested[<<t.dev, t.msg>>] = "none" \/ <<t.dev, t.msg>> \in t.purge
  <2>1. t.msg # None
    BY <1>6, IngestAssumption DEF Keys
  <2>2. HasKey(t)
    BY <1>1, <2>1 DEF HasKey
  <2> QED BY <1>2, <2>2 DEF TxOK
<1>7. \A g \in Handlers \ {h} : Keeps(g)
  <2> SUFFICES ASSUME NEW g \in Handlers \ {h} PROVE Keeps(g)
    OBVIOUS
  <2>1. /\ \A d \in Devices : rowLock[d] = g => rowLock'[d] = g
        /\ \A k \in Keys : keyLock[k] = g => keyLock'[k] = g
    BY <1>1, ReleaseKeeps DEF IndInv
  <2>2. \A k \in Keys : keyLock[k] = g => ingested'[k] = ingested[k]
    <3> SUFFICES ASSUME NEW k \in Keys, keyLock[k] = g PROVE ingested'[k] = ingested[k]
      OBVIOUS
    <3>1. k # <<t.dev, t.msg>>
      BY <1>6
    <3>2. k \notin t.purge
      BY <1>0, <1>1, PurgeCounts
    <3> QED BY <1>1, <3>1, <3>2
  <2>3. ASSUME NEW d \in Devices, rowLock[d] = g
        PROVE  /\ shadow'[d] = shadow[d]
               /\ \A p \in Ponds, q \in Products, x \in Metrics :
                     raised'[<<d, p, q, x>>] = raised[<<d, p, q, x>>]
    <3>1. d # t.dev
      BY <1>4, <2>3
    <3>2. shadow'[d] = shadow[d]
      BY <1>1, <3>1 DEF IndInv, TypeOK
    <3>3. ASSUME NEW p \in Ponds, NEW q \in Products, NEW x \in Metrics
          PROVE  raised'[<<d, p, q, x>>] = raised[<<d, p, q, x>>]
      <4>1. <<d, p, q, x>> \in Alarms /\ raised[<<d, p, q, x>>] \in Nat
        BY DEF Alarms, IndInv, TypeOK
      <4>2. <<d, p, q, x>> \notin {<<t.dev, t.pond, t.product, y>> : y \in t.raise}
        BY <3>1
      <4> QED BY <1>1, <4>1, <4>2
    <3> QED BY <3>2, <3>3
  <2>4. device' = device /\ confirmed' = confirmed
    BY <1>1
  <2> QED BY <2>1, <2>2, <2>3, <2>4 DEF Keeps
<1>8. tx' \in [Handlers -> TxState] /\ TxInv'
  BY <1>1, <1>7, ReleaseKeeps, NoTxType, NoTxOK, TxStep DEF IndInv
<1>9. rowLock' \in [Devices -> Handlers \cup {None}] /\ keyLock' \in [Keys -> Handlers \cup {None}]
  BY <1>1, ReleaseKeeps DEF IndInv
<1>10. TypeOK'
  <2>1. expired' \in [Keys -> Nat]
    BY <1>1, PurgeCounts
  <2>2. ingested' \in [Keys -> {"none", "fresh", "old"}]
    BY <1>1 DEF IndInv, TypeOK
  <2>3. raised' \in [Alarms -> Nat] /\ times' \in [Keys -> Nat]
    BY <1>1 DEF IndInv, TypeOK
  <2>4. shadow' \in [Devices -> ShadowRow \cup {None}]
    BY <1>1, <1>5 DEF IndInv, TypeOK
  <2>5. accepted' \in [Devices -> SUBSET [ts : Times, props : Payloads]]
    BY <1>1, <1>3 DEF IndInv, TypeOK
  <2> QED BY <1>1, <1>8, <1>9, <2>1, <2>2, <2>3, <2>4, <2>5 DEF IndInv, TypeOK
<1>11. StoredOncePerRow'
  <2> SUFFICES ASSUME NEW k \in Keys
               PROVE  times'[k] = expired'[k] + IF ingested'[k] = "none" THEN 0 ELSE 1
    BY DEF StoredOncePerRow
  <2>1. expired[k] \in Nat /\ times[k] = expired[k] + IF ingested[k] = "none" THEN 0 ELSE 1
    BY DEF IndInv, TypeOK, StoredOncePerRow
  <2>2. CASE k = <<t.dev, t.msg>>
    <3>1. ingested'[k] = "fresh" /\ times'[k] = times[k] + 1
      BY <1>1, <2>2
    <3>2. CASE k \in t.purge
      BY <1>0, <1>1, <2>1, <3>1, <3>2, PurgeCounts
    <3>3. CASE k \notin t.purge
      <4>1. ingested[k] = "none"
        BY <1>6, <2>2, <3>3
      <4>2. expired'[k] = expired[k]
        BY <1>0, <1>1, <3>3, PurgeCounts
      <4> QED BY <2>1, <3>1, <4>1, <4>2
    <3> QED BY <3>2, <3>3
  <2>3. CASE k # <<t.dev, t.msg>>
    <3>1. times'[k] = times[k] /\ ingested'[k] = IF k \in t.purge THEN "none" ELSE ingested[k]
      BY <1>1, <2>1, <2>3
    <3>2. CASE k \in t.purge
      BY <1>0, <1>1, <2>1, <3>1, <3>2, PurgeCounts
    <3>3. CASE k \notin t.purge
      BY <1>0, <1>1, <2>1, <3>1, <3>3, PurgeCounts
    <3> QED BY <3>2, <3>3
  <2> QED BY <2>2, <2>3
<1>12. OneOpenAlarm'
  <2> SUFFICES ASSUME NEW k \in Alarms PROVE raised'[k] \in {confirmed'[k], confirmed'[k] + 1}
    BY DEF OneOpenAlarm
  <2>1. raised[k] \in Nat /\ confirmed[k] \in Nat /\ raised[k] \in {confirmed[k], confirmed[k] + 1}
    BY DEF IndInv, TypeOK, OneOpenAlarm
  <2>2. CASE k \in {<<t.dev, t.pond, t.product, x>> : x \in t.raise}
    <3>1. ~(raised[k] > confirmed[k])
      BY <1>1, <1>2, <2>2 DEF TxOK, Open
    <3> QED BY <1>1, <2>1, <2>2, <3>1
  <2>3. CASE k \notin {<<t.dev, t.pond, t.product, x>> : x \in t.raise}
    BY <1>1, <2>1, <2>3
  <2> QED BY <2>2, <2>3
<1>13. ShadowIsLatest'
  <2>1. (ShadowIsLatest <=> \A d \in Devices : Latest(shadow[d], accepted[d], Binding(d)))'
    BY LatestMeans, PTL
  <2>2. ASSUME NEW d \in Devices PROVE Latest(shadow'[d], accepted'[d], Binding(d)')
    <3>1. Latest(shadow[d], accepted[d], Binding(d)) /\ Binding(d)' = Binding(d)
      BY <1>1, LatestMeans DEF IndInv, Binding
    <3>2. CASE d # t.dev
      <4>1. shadow'[d] = shadow[d] /\ accepted'[d] = accepted[d]
        BY <1>1, <3>2 DEF IndInv, TypeOK
      <4> QED BY <3>1, <4>1
    <3>3. CASE d = t.dev
      <4>1. /\ shadow'[d] = Merged(t, shadow[d])
            /\ accepted'[d] = accepted[d] \cup {[ts |-> t.ts, props |-> t.props]}
        BY <1>1, <1>5, <3>3 DEF IndInv, TypeOK
      <4>2. Binding(d).pond = t.pond /\ Binding(d).product = t.product
        BY <1>4, <3>3 DEF Binding
      <4>3. accepted[d] \in SUBSET [ts : Times, props : Payloads]
        BY DEF IndInv, TypeOK
      <4>4. PICK b : b = Binding(d)
        OBVIOUS
      <4>5. Latest(Merged(t, shadow[d]), accepted[d] \cup {[ts |-> t.ts, props |-> t.props]}, b)
        BY <1>2, <1>3, <1>4, <1>5, <3>1, <3>3, <4>2, <4>3, <4>4, MergedLatest
      <4> QED BY <3>1, <4>1, <4>4, <4>5
    <3> QED BY <3>2, <3>3
  <2> QED BY <2>1, <2>2
<1> QED BY <1>8, <1>10, <1>11, <1>12, <1>13 DEF IndInv
-----------------------------------------------------------------------------
\* Administration and time.

\* A change of a device row nobody has locked, or of no device row at all.
LEMMA FreeKeeps ==
    ASSUME TypeOK, UNCHANGED locks, NEW g \in Handlers,
           \A d \in Devices : rowLock[d] # None => device'[d] = device[d] /\ shadow'[d] = shadow[d],
           \A k \in Alarms : ~(raised[k] > confirmed[k]) => confirmed'[k] = confirmed[k],
           \A k \in Alarms : raised'[k] = raised[k],
           \A k \in Keys : ingested[k] # "fresh" => ingested'[k] = ingested[k]
    PROVE  Keeps(g)
<1>1. g # None
  BY IngestAssumption
<1>2. UNCHANGED <<rowLock, keyLock>>
  BY DEF locks
<1>3. ASSUME NEW d \in Devices, NEW p \in Ponds, NEW q \in Products, NEW x \in Metrics,
             ~(raised[<<d, p, q, x>>] > confirmed[<<d, p, q, x>>])
      PROVE  ~(raised'[<<d, p, q, x>>] > confirmed'[<<d, p, q, x>>])
  <2>1. <<d, p, q, x>> \in Alarms
    BY DEF Alarms
  <2> QED BY <1>3, <2>1
<1> QED BY <1>1, <1>2, <1>3 DEF Keeps

\* MoveDevice, AssignDeviceProductByActor, DeleteDevice and RestoreDevice: the row of
\* d is free and becomes r, and unless the binding stays the shadow is cleared.
LEMMA DeviceRow ==
    ASSUME IndInv, NEW d \in Devices, Changes(d),
           NEW r \in [pond : Ponds, product : Products, enabled : BOOLEAN],
           device' = [device EXCEPT ![d] = r],
           \/ ClearShadow(d)
           \/ UNCHANGED <<shadow, accepted>> /\ r.pond = device[d].pond /\ r.product = device[d].product,
           UNCHANGED <<ingested, rules, raised, confirmed, locks, tx, times, expired, clock, reports>>
    PROVE  IndInv'
<1>1. rowLock[d] = None /\ changes < MaxChanges /\ changes' = changes + 1
  BY DEF Changes
<1>2. /\ shadow' \in [Devices -> ShadowRow \cup {None}]
      /\ accepted' \in [Devices -> SUBSET [ts : Times, props : Payloads]]
      /\ device' \in [Devices -> [pond : Ponds, product : Products, enabled : BOOLEAN]]
  BY DEF IndInv, TypeOK, ClearShadow
<1>3. \A e \in Devices \ {d} : device'[e] = device[e] /\ shadow'[e] = shadow[e] /\ accepted'[e] = accepted[e]
  BY DEF IndInv, TypeOK, ClearShadow
<1>4. changes' \in 0..MaxChanges
  BY <1>1, IngestAssumption DEF IndInv, TypeOK
<1>5. UNCHANGED <<rowLock, keyLock>>
  BY DEF locks
<1>6. \A g \in Handlers : Keeps(g)
  BY <1>1, <1>3, FreeKeeps DEF IndInv
<1>7. TxInv'
  BY <1>6, TxStay DEF IndInv
<1>8. TypeOK'
  BY <1>2, <1>4, <1>5 DEF IndInv, TypeOK
<1>9. StoredOncePerRow' /\ OneOpenAlarm'
  BY DEF IndInv, StoredOncePerRow, OneOpenAlarm
<1>10. ShadowIsLatest'
  <2>1. \/ shadow'[d] = None /\ accepted'[d] = {}
        \/ /\ shadow'[d] = shadow[d] /\ accepted'[d] = accepted[d]
           /\ device'[d].pond = device[d].pond /\ device'[d].product = device[d].product
    BY DEF IndInv, TypeOK, ClearShadow
  <2> QED BY <1>3, <2>1, LatestStays DEF IndInv
<1> QED BY <1>7, <1>8, <1>9, <1>10 DEF IndInv

\* The four changes of a device row.
LEMMA DeviceInd ==
    ASSUME IndInv, NEW d \in Devices,
           \/ \E p \in Ponds : MoveDevice(d, p)
           \/ \E q \in Products : AssignProduct(d, q)
           \/ DeleteDevice(d) \/ RestoreDevice(d)
    PROVE  IndInv'
<1>0. device[d] \in [pond : Ponds, product : Products, enabled : BOOLEAN]
  BY DEF IndInv, TypeOK
<1>1. CASE \E p \in Ponds : MoveDevice(d, p)
  <2>1. PICK p \in Ponds : MoveDevice(d, p)
    BY <1>1
  <2>2. PICK r : r = [device[d] EXCEPT !.pond = p]
    OBVIOUS
  <2>3. r \in [pond : Ponds, product : Products, enabled : BOOLEAN]
    BY <1>0, <2>2
  <2> QED BY <2>1, <2>2, <2>3, DeviceRow DEF MoveDevice
<1>2. CASE \E q \in Products : AssignProduct(d, q)
  <2>1. PICK q \in Products : AssignProduct(d, q)
    BY <1>2
  <2>2. PICK r : r = [device[d] EXCEPT !.product = q]
    OBVIOUS
  <2>3. r \in [pond : Ponds, product : Products, enabled : BOOLEAN]
    BY <1>0, <2>2
  <2> QED BY <2>1, <2>2, <2>3, DeviceRow DEF AssignProduct
<1>3. CASE DeleteDevice(d)
  <2>2. PICK r : r = [device[d] EXCEPT !.enabled = FALSE]
    OBVIOUS
  <2>3. /\ r \in [pond : Ponds, product : Products, enabled : BOOLEAN]
        /\ r.pond = device[d].pond /\ r.product = device[d].product
    BY <1>0, <2>2
  <2> QED BY <1>3, <2>2, <2>3, DeviceRow DEF DeleteDevice, history
<1>4. CASE RestoreDevice(d)
  <2>2. PICK r : r = [device[d] EXCEPT !.enabled = TRUE]
    OBVIOUS
  <2>3. r \in [pond : Ponds, product : Products, enabled : BOOLEAN]
    BY <1>0, <2>2
  <2> QED BY <1>4, <2>2, <2>3, DeviceRow DEF RestoreDevice
<1> QED BY <1>1, <1>2, <1>3, <1>4

\* Rules, confirmations, the ageing of a row and the clock.
LEMMA RestInd ==
    ASSUME IndInv,
           \/ \E p \in Ponds, x \in Metrics : SetRule(p, x)
           \/ \E k \in Alarms : ConfirmAlarm(k)
           \/ \E k \in Keys : Age(k)
           \/ Tick
    PROVE  IndInv'
<1>0. /\ UNCHANGED <<device, shadow, raised, locks, tx, accepted, times, expired, reports>>
      /\ UNCHANGED <<rowLock, keyLock>>
  BY DEF SetRule, ConfirmAlarm, Age, Tick, history, bounds, tables, locks
<1>1. CASE \E p \in Ponds, x \in Metrics : SetRule(p, x)
  <2>1. PICK p \in Ponds, x \in Metrics : SetRule(p, x)
    BY <1>1
  <2>2. UNCHANGED <<ingested, confirmed, clock>> /\ changes < MaxChanges /\ changes' = changes + 1
    BY <2>1 DEF SetRule
  <2>3. changes' \in 0..MaxChanges
    BY <2>2, IngestAssumption DEF IndInv, TypeOK
  <2>4. rules' \in [Ponds -> SUBSET Metrics]
    BY <2>1 DEF SetRule, IndInv, TypeOK
  <2>5. TypeOK'
    BY <1>0, <2>2, <2>3, <2>4 DEF IndInv, TypeOK
  <2>6. \A g \in Handlers : Keeps(g)
    BY <1>0, <2>2, FreeKeeps DEF IndInv
  <2>7. TxInv'
    BY <1>0, <2>6, TxStay DEF IndInv
  <2>8. StoredOncePerRow' /\ OneOpenAlarm'
    BY <1>0, <2>2 DEF IndInv, StoredOncePerRow, OneOpenAlarm
  <2>9. ShadowIsLatest'
    BY <1>0, LatestStays DEF IndInv
  <2> QED BY <2>5, <2>7, <2>8, <2>9 DEF IndInv
<1>2. CASE \E k \in Alarms : ConfirmAlarm(k)
  <2>1. PICK a \in Alarms : ConfirmAlarm(a)
    BY <1>2
  <2>2. /\ UNCHANGED <<ingested, rules, clock, changes>>
        /\ raised[a] > confirmed[a] /\ confirmed' = [confirmed EXCEPT ![a] = @ + 1]
    BY <2>1 DEF ConfirmAlarm, Open, bounds
  <2>3. confirmed' \in [Alarms -> Nat]
    BY <2>2 DEF IndInv, TypeOK
  <2>4. \A k \in Alarms : ~(raised[k] > confirmed[k]) => confirmed'[k] = confirmed[k]
    BY <2>2 DEF IndInv, TypeOK
  <2>5. TypeOK'
    BY <1>0, <2>2, <2>3 DEF IndInv, TypeOK
  <2>6. \A g \in Handlers : Keeps(g)
    BY <1>0, <2>2, <2>4, FreeKeeps DEF IndInv
  <2>7. TxInv'
    BY <1>0, <2>6, TxStay DEF IndInv
  <2>8. StoredOncePerRow'
    BY <1>0, <2>2 DEF IndInv, StoredOncePerRow
  <2>9. OneOpenAlarm'
    <3> SUFFICES ASSUME NEW k \in Alarms PROVE raised'[k] \in {confirmed'[k], confirmed'[k] + 1}
      BY DEF OneOpenAlarm
    <3>1. raised[k] \in Nat /\ confirmed[k] \in Nat /\ raised[k] \in {confirmed[k], confirmed[k] + 1}
      BY DEF IndInv, TypeOK, OneOpenAlarm
    <3>2. confirmed'[k] = IF k = a THEN confirmed[k] + 1 ELSE confirmed[k]
      BY <2>2 DEF IndInv, TypeOK
    <3> QED BY <1>0, <2>2, <3>1, <3>2
  <2>10. ShadowIsLatest'
    BY <1>0, LatestStays DEF IndInv
  <2> QED BY <2>5, <2>7, <2>8, <2>9, <2>10 DEF IndInv
<1>3. CASE \E k \in Keys : Age(k)
  <2>1. PICK a \in Keys : Age(a)
    BY <1>3
  <2>2. /\ UNCHANGED <<rules, confirmed, clock>> /\ changes < MaxChanges /\ changes' = changes + 1
        /\ ingested[a] = "fresh" /\ ingested' = [ingested EXCEPT ![a] = "old"]
    BY <2>1 DEF Age
  <2>3. changes' \in 0..MaxChanges /\ ingested' \in [Keys -> {"none", "fresh", "old"}]
    BY <2>2, IngestAssumption DEF IndInv, TypeOK
  <2>4. \A k \in Keys : /\ ingested[k] # "fresh" => ingested'[k] = ingested[k]
                        /\ ingested'[k] = "none" <=> ingested[k] = "none"
    BY <2>2 DEF IndInv, TypeOK
  <2>5. TypeOK'
    BY <1>0, <2>2, <2>3 DEF IndInv, TypeOK
  <2>6. \A g \in Handlers : Keeps(g)
    BY <1>0, <2>2, <2>4, FreeKeeps DEF IndInv
  <2>7. TxInv'
    BY <1>0, <2>6, TxStay DEF IndInv
  <2>8. StoredOncePerRow' /\ OneOpenAlarm'
    BY <1>0, <2>2, <2>4 DEF IndInv, StoredOncePerRow, OneOpenAlarm
  <2>9. ShadowIsLatest'
    BY <1>0, LatestStays DEF IndInv
  <2> QED BY <2>5, <2>7, <2>8, <2>9 DEF IndInv
<1>4. CASE Tick
  <2>1. UNCHANGED tables /\ UNCHANGED <<reports, changes>> /\ clock < MaxClock /\ clock' = clock + 1
    BY <1>4 DEF Tick
  <2>2. /\ clock' \in Times /\ reports' \in 0..MaxReports /\ changes' \in 0..MaxChanges
    BY <2>1, IngestAssumption DEF IndInv, TypeOK, Times
  <2>3. \A g \in Handlers : Keeps(g)
    BY <1>0, <2>1, QuietKeeps DEF IndInv
  <2>4. TxInv'
    BY <1>0, <2>3, TxStay DEF IndInv
  <2>5. /\ rowLock' \in [Devices -> Handlers \cup {None}] /\ keyLock' \in [Keys -> Handlers \cup {None}]
        /\ tx' \in [Handlers -> TxState] /\ UNCHANGED history
    BY <1>0 DEF IndInv, TypeOK, history
  <2> QED BY <2>1, <2>2, <2>4, <2>5, TablesStay
<1> QED BY <1>1, <1>2, <1>3, <1>4

-----------------------------------------------------------------------------
\* The inductive invariant.

\* At the start no message is stored and every handler is idle.
LEMMA InitInd == Init => IndInv
<1> SUFFICES ASSUME Init PROVE IndInv
  OBVIOUS
<1>1. TypeOK
  <2>1. 0 \in Times /\ 0 \in 0..MaxReports /\ 0 \in 0..MaxChanges
    BY IngestAssumption DEF Times
  <2> QED BY <2>1, NoTxType, IngestAssumption DEF Init, TypeOK
<1>2. TxInv
  <2>1. \A h \in Handlers : tx[h] = NoTx
    BY DEF Init
  <2>2. \A h \in Handlers : TxOK(h, NoTx)
    <3>1. ~HasRow(NoTx) /\ ~HasKey(NoTx)
      BY NoTxType DEF HasRow, HasKey
    <3> QED BY <3>1, NoTxType DEF TxOK
  <2> QED BY <2>1, <2>2 DEF TxInv
<1>3. StoredOncePerRow /\ OneOpenAlarm
  BY DEF Init, StoredOncePerRow, OneOpenAlarm
<1>4. ShadowIsLatest
  BY DEF Init, ShadowIsLatest
<1> QED BY <1>1, <1>2, <1>3, <1>4 DEF IndInv

\* Every step keeps the invariant.
LEMMA NextInd == IndInv /\ [Next]_vars => IndInv'
<1> SUFFICES ASSUME IndInv, [Next]_vars PROVE IndInv'
  OBVIOUS
<1>1. CASE \E h \in Handlers : Report(h)
  <2>1. PICK h \in Handlers : Report(h)
    BY <1>1
  <2>2. CASE \E d \in Devices, m \in Messages \cup {None}, p \in Payloads : Publish(h, d, m, p)
    BY <2>2, PublishInd
  <2>3. CASE Query(h) \/ Lock(h) \/ Purge(h) \/ Insert(h)
    BY <2>3, QueryInd, LockInd, PurgeInd, InsertInd
  <2>4. CASE Duplicate(h) \/ Read(h) \/ Commit(h) \/ Rollback(h)
    BY <2>4, DuplicateInd, ReadInd, CommitInd, RollbackInd
  <2> QED BY <2>1, <2>2, <2>3, <2>4 DEF Report
<1>2. CASE Admin
  BY <1>2, DeviceInd, RestInd DEF Admin
<1>3. CASE (\E k \in Keys : Age(k)) \/ Tick
  BY <1>3, RestInd
<1>4. CASE UNCHANGED vars
  <2>1. UNCHANGED <<tables, locks, tx, history, clock, reports, changes>>
    BY <1>4 DEF vars, bounds
  <2>2. UNCHANGED <<rowLock, keyLock>>
    BY <2>1 DEF locks
  <2>3. \A g \in Handlers : Keeps(g)
    BY <2>1, <2>2, QuietKeeps DEF IndInv
  <2>4. TxInv'
    BY <2>1, <2>3, TxStay DEF IndInv
  <2> QED BY <2>1, <2>2, <2>4, TablesStay DEF IndInv, TypeOK
<1> QED BY <1>1, <1>2, <1>3, <1>4 DEF Next

\* The locks of a report and what they keep, in every reachable state.
LEMMA Inductive == Spec => []IndInv
<1> QED BY InitInd, NextInd, PTL DEF Spec

-----------------------------------------------------------------------------
\* storeReading and storeGenericReading, for any devices, connections and messages: a
\* message is stored once for each row of ingest_messages it has had, whichever
\* pipeline each delivery took, and a rule has at most one open alarm of a device.
THEOREM RowsAreSingleAlways == Spec => []RowsAreSingle
<1>1. IndInv => RowsAreSingle
  BY DEF IndInv, RowsAreSingle
<1> QED BY <1>1, Inductive, PTL

\* shadowUpsert and genericShadowUpsert: in whatever order reports commit, the shadow
\* is the latest value of every metric since it was cleared, under the device's binding.
THEOREM ShadowIsLatestAlways == Spec => []ShadowIsLatest
<1>1. IndInv => ShadowIsLatest
  BY DEF IndInv
<1> QED BY <1>1, Inductive, PTL

\* The lock of the device row: from the moment a report validates to its commit the
\* device is enabled and has the pond and product the report is stored under.
THEOREM StoresUnderBindingAlways == Spec => []StoresUnderBinding
<1>1. ASSUME IndInv PROVE StoresUnderBinding
  <2> SUFFICES ASSUME NEW h \in Handlers, tx[h].pc \in {"read", "commit"}
               PROVE  device[tx[h].dev].enabled /\ Bound(h) = Binding(tx[h].dev)
    BY DEF StoresUnderBinding
  <2>1. TxOK(h, tx[h])
    BY <1>1 DEF IndInv, TxInv
  <2>2. HasRow(tx[h])
    BY DEF HasRow
  <2> QED BY <2>1, <2>2 DEF TxOK, Bound, Binding
<1> QED BY <1>1, Inductive, PTL
=============================================================================
