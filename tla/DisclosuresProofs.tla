------------------------- MODULE DisclosuresProofs -------------------------
(***************************************************************************)
(* Theorems about Disclosures for any receipts, groups and transactions, of   *)
(* any length.                                                               *)
(***************************************************************************)
EXTENDS Disclosures, FiniteSetTheorems, WellFoundedInduction, TLAPS

(* The newest disclosure -------------------------------------------------- *)
LEMMA LeastExists ==
  ASSUME NEW S, S \subseteq Nat, S # {}
  PROVE  \E m \in S : \A x \in S : m <= x
<1>1. PICK m \in S : \A x \in S : ~(<<x, m>> \in OpToRel(<, Nat))
  BY WFMin, NatLessThanWellFounded
<1>2. \A x \in S : ~(x < m)
  BY <1>1 DEF OpToRel
<1>. QED
  BY <1>2

LEMMA NewestIs ==
  ASSUME NEW S, S \subseteq Rcepts, S # {}
  PROVE  Newest(S) \in S /\ \A e \in S : e <= Newest(S)
<1>1. S \subseteq Nat /\ IsFiniteSet(S) /\ \A y \in S : y \in Nat
  BY DisclosuresAssumption, FS_Subset
<1>. DEFINE Above(x) == {y \in S : x < y}
            Ranks == {Cardinality(Above(x)) : x \in S}
<1>2. \A x \in S : IsFiniteSet(Above(x)) /\ Cardinality(Above(x)) \in Nat
  BY <1>1, FS_Subset, FS_CardinalityType
<1>3. PICK x \in S : \A y \in S : Cardinality(Above(x)) <= Cardinality(Above(y))
  <2>1. Ranks \subseteq Nat /\ Ranks # {}
    BY <1>2
  <2>2. PICK m \in Ranks : \A n \in Ranks : m <= n
    <3>. HIDE DEF Ranks
    <3>. QED
      BY <2>1, LeastExists
  <2>. QED
    BY <2>2
<1>4. ASSUME NEW z \in S, x < z PROVE FALSE
  <2>1. Above(z) \subseteq Above(x) /\ z \in Above(x) /\ z \notin Above(z)
    <3>1. x \in Nat /\ z \in Nat /\ \A y \in S : y \in Nat /\ z < y => x < y
      BY <1>1, <1>4
    <3>2. Above(z) \subseteq Above(x)
      BY <1>1, <3>1
    <3>3. z \in Above(x)
      BY <1>4
    <3>4. z \notin Above(z)
      BY <3>1
    <3>. QED
      BY <3>2, <3>3, <3>4
  <2>2. /\ Cardinality(Above(z)) <= Cardinality(Above(x))
        /\ Cardinality(Above(x)) = Cardinality(Above(z)) => Above(x) = Above(z)
    <3>. HIDE DEF Above
    <3>. QED
      BY <1>2, <2>1, FS_Subset
  <2>3. Cardinality(Above(x)) <= Cardinality(Above(z))
    BY <1>3
  <2>. HIDE DEF Above
  <2>. QED
    BY <1>2, <2>1, <2>2, <2>3
<1>5. \A e \in S : e <= x
  BY <1>1, <1>4
<1>. QED
  BY <1>5 DEF Newest

(* The transactions one by one ---------------------------------------------- *)
Steps == {"open", "upsert", "select", "targets", "mark", "group"}

LEMMA TxFields ==
  ASSUME NEW a \in TxType
  PROVE  /\ a.step \in Steps /\ a.d \in Rcepts \cup {NoRcept} /\ a.g \in Groups \cup {None}
         /\ a.items \in 0 .. MaxItems /\ a.latest \in Rcepts \cup {NoRcept}
         /\ a.targets \subseteq Rcepts /\ a.count \in Nat /\ a.row \in [Rcepts -> RowType]
         /\ a.wrote \subseteq Rcepts /\ a.stamped \subseteq Rcepts
         /\ a.group \in [Groups -> GroupType] /\ a.wroteGroup \subseteq Groups
         /\ a.at \subseteq Groups /\ a.alone \subseteq Groups /\ a.left \subseteq Groups
  BY DEF TxType, Steps

LEMMA ViewTypes ==
  ASSUME TypeOK, NEW t \in Txs
  PROVE  /\ tx[t] \in TxType
         /\ \A d \in Rcepts : RowOf(t, d) \in RowType
         /\ \A g \in Groups : GroupOf(t, g) \in GroupType
         /\ \A g : Visible(t, g) \subseteq Rcepts
<1>1. tx[t] \in TxType /\ row \in [Rcepts -> RowType] /\ group \in [Groups -> GroupType]
  BY DEF TypeOK
<1>2. tx[t].row \in [Rcepts -> RowType] /\ tx[t].group \in [Groups -> GroupType]
  BY <1>1, TxFields
<1>. QED
  BY <1>1, <1>2 DEF RowOf, GroupOf, Visible

(* Two states of a transaction that differ in where others have been, at most. *)
SameWork(a, b) ==
  /\ a.step = b.step /\ a.d = b.d /\ a.g = b.g /\ a.items = b.items
  /\ a.latest = b.latest /\ a.targets = b.targets /\ a.count = b.count
  /\ a.row = b.row /\ a.wrote = b.wrote /\ a.stamped = b.stamped
  /\ a.group = b.group /\ a.wroteGroup = b.wroteGroup /\ a.left = b.left

LEMMA SameWorkSelf == \A a : SameWork(a, a)
  BY DEF SameWork

(* Coming to a group changes where transactions are, and nothing else.         *)
LEMMA ComesDoes ==
  ASSUME NEW f \in [Txs -> TxType], NEW t \in Txs, NEW g \in Groups, NEW h,
         h = Comes(f, t, g)
  PROVE  /\ h \in [Txs -> TxType]
         /\ \A q \in Txs : SameWork(h[q], f[q])
         /\ h[t].at = f[t].at \cup {g}
         /\ f[t].alone \subseteq h[t].alone /\ h[t].alone \subseteq f[t].alone \cup {g}
         /\ g \in h[t].alone \ f[t].alone
              => g \notin f[t].at /\ \A q \in Txs \ {t} : g \notin f[q].at
         /\ \A q \in Txs \ {t} :
              /\ h[q].at = f[q].at /\ h[q].alone \subseteq f[q].alone
              /\ g \notin f[t].at => g \notin h[q].alone
<1>1. \A q \in Txs : f[q] \in TxType
  OBVIOUS
<1>2. CASE g \in f[t].at
  <2>1. h = f
    BY <1>2 DEF Comes
  <2>. QED
    BY <1>2, <2>1, SameWorkSelf
<1>3. CASE g \notin f[t].at
  <2>. DEFINE mine == [f[t] EXCEPT !.at = @ \cup {g},
                         !.alone = IF \E p \in Txs \ {t} : g \in f[p].at THEN @ ELSE @ \cup {g}]
              other(q) == [f[q] EXCEPT !.alone = @ \ {g}]
  <2>1. h = [q \in Txs |-> IF q = t THEN mine ELSE other(q)]
    BY <1>3 DEF Comes
  <2>2. /\ mine \in TxType /\ SameWork(mine, f[t])
        /\ mine.at = f[t].at \cup {g}
        /\ mine.alone = IF \E p \in Txs \ {t} : g \in f[p].at THEN f[t].alone
                        ELSE f[t].alone \cup {g}
    <3>. DEFINE a == IF \E p \in Txs \ {t} : g \in f[p].at THEN f[t].alone
                     ELSE f[t].alone \cup {g}
    <3>1. mine = [f[t] EXCEPT !.at = f[t].at \cup {g}, !.alone = a]
      OBVIOUS
    <3>2. a \subseteq Groups /\ f[t].at \cup {g} \subseteq Groups
      BY <1>1, TxFields
    <3>. HIDE DEF a, mine
    <3>3. mine \in TxType
      <4>1. f[t] \in TxType
        BY <1>1
      <4>2. /\ a \in SUBSET Groups /\ f[t].at \cup {g} \in SUBSET Groups
        BY <3>2
      <4>. QED
        BY <3>1, <4>1, <4>2 DEF TxType
    <3>4. SameWork(mine, f[t]) /\ mine.at = f[t].at \cup {g} /\ mine.alone = a
      <4>1. f[t] \in TxType
        BY <1>1
      <4>2. mine.at = f[t].at \cup {g} /\ mine.alone = a
        BY <3>1, <4>1 DEF TxType
      <4>3. SameWork(mine, f[t])
        BY <3>1, <4>1 DEF TxType, SameWork
      <4>. QED
        BY <4>2, <4>3
    <3>. QED
      BY <3>3, <3>4 DEF a
  <2>3. ASSUME NEW q \in Txs
        PROVE  /\ other(q) \in TxType /\ SameWork(other(q), f[q])
               /\ other(q).at = f[q].at /\ other(q).alone = f[q].alone \ {g}
    <3>1. f[q] \in TxType /\ f[q].alone \ {g} \subseteq Groups
      BY <1>1, TxFields
    <3>2. other(q) \in TxType
      BY <3>1 DEF TxType
    <3>3. /\ SameWork(other(q), f[q])
          /\ other(q).at = f[q].at /\ other(q).alone = f[q].alone \ {g}
      BY <3>1 DEF TxType, SameWork
    <3>. QED
      BY <3>2, <3>3
  <2>. HIDE DEF mine, other
  <2>4. h[t] = mine /\ \A q \in Txs \ {t} : h[q] = other(q)
    BY <2>1
  <2>5. h \in [Txs -> TxType]
    BY <2>1, <2>2, <2>3
  <2>6. \A q \in Txs : SameWork(h[q], f[q])
    BY <2>2, <2>3, <2>4
  <2>. QED
    BY <1>3, <2>2, <2>3, <2>4, <2>5, <2>6
<1>. QED
  BY <1>2, <1>3

(* Where a transaction is in its statements: from the upsert to the end of an  *)
(* item it has a group at hand, and from the SELECT on a disclosure of it.     *)
GroupAtHand(t) == IF tx[t].step = "open" THEN {} ELSE {tx[t].g}

StepInv ==
  \A t \in Txs :
    /\ tx[t].step # "open" => tx[t].g \in Groups
    /\ tx[t].step # "open" => tx[t].items < MaxItems
    /\ tx[t].step = "open" => tx[t].g = None
    /\ tx[t].step = "upsert" => tx[t].d \in Rcepts
    /\ tx[t].step \notin {"open", "upsert"}
         => \E d \in tx[t].wrote : tx[t].row[d].group = tx[t].g

SafeInv == TypeOK /\ StepInv

(* What a step of t leaves of the other transactions.                         *)
OthersKeep(t) ==
  \A q \in Txs \ {t} : /\ SameWork(tx'[q], tx[q]) /\ tx'[q].at = tx[q].at
                       /\ tx'[q].alone \subseteq tx[q].alone

(* What a step of t that comes to g, or is there, does to the history.         *)
AtGroup(t, g) ==
  /\ tx'[t].at = tx[t].at \cup {g}
  /\ tx[t].alone \subseteq tx'[t].alone /\ tx'[t].alone \subseteq tx[t].alone \cup {g}
  /\ g \in tx'[t].alone \ tx[t].alone
       => g \notin tx[t].at /\ \A q \in Txs \ {t} : g \notin tx[q].at
  /\ g \notin tx[t].at => \A q \in Txs \ {t} : g \notin tx'[q].alone

StaysPut(t) == tx'[t].at = tx[t].at /\ tx'[t].alone = tx[t].alone

LEMMA OwnStep ==
  ASSUME TypeOK, NEW t \in Txs, NEW x \in TxType, tx' = [tx EXCEPT ![t] = x]
  PROVE  /\ tx' \in [Txs -> TxType] /\ tx'[t] = x
         /\ \A q \in Txs \ {t} : tx'[q] = tx[q]
         /\ OthersKeep(t)
<1>1. tx \in [Txs -> TxType]
  BY DEF TypeOK
<1>2. /\ tx' \in [Txs -> TxType] /\ tx'[t] = x
      /\ \A q \in Txs \ {t} : tx'[q] = tx[q]
  BY <1>1
<1>. QED
  BY <1>2, SameWorkSelf DEF OthersKeep

LEMMA ComingStep ==
  ASSUME TypeOK, NEW t \in Txs, NEW x \in TxType, NEW g \in Groups,
         x.at = tx[t].at, x.alone = tx[t].alone,
         tx' = Comes([tx EXCEPT ![t] = x], t, g)
  PROVE  /\ tx' \in [Txs -> TxType] /\ SameWork(tx'[t], x)
         /\ OthersKeep(t) /\ AtGroup(t, g)
<1>. DEFINE f == [tx EXCEPT ![t] = x]
<1>1. tx \in [Txs -> TxType]
  BY DEF TypeOK
<1>2. f \in [Txs -> TxType] /\ f[t] = x /\ \A q \in Txs \ {t} : f[q] = tx[q]
  BY <1>1
<1>3. tx' = Comes(f, t, g)
  OBVIOUS
<1>. HIDE DEF f
<1>4. /\ tx' \in [Txs -> TxType]
      /\ \A q \in Txs : SameWork(tx'[q], f[q])
      /\ tx'[t].at = f[t].at \cup {g}
      /\ f[t].alone \subseteq tx'[t].alone /\ tx'[t].alone \subseteq f[t].alone \cup {g}
      /\ g \in tx'[t].alone \ f[t].alone
           => g \notin f[t].at /\ \A q \in Txs \ {t} : g \notin f[q].at
      /\ \A q \in Txs \ {t} :
           /\ tx'[q].at = f[q].at /\ tx'[q].alone \subseteq f[q].alone
           /\ g \notin f[t].at => g \notin tx'[q].alone
  <2>1. ASSUME NEW h, h = Comes(f, t, g)
        PROVE  /\ h \in [Txs -> TxType]
               /\ \A q \in Txs : SameWork(h[q], f[q])
               /\ h[t].at = f[t].at \cup {g}
               /\ f[t].alone \subseteq h[t].alone /\ h[t].alone \subseteq f[t].alone \cup {g}
               /\ g \in h[t].alone \ f[t].alone
                    => g \notin f[t].at /\ \A q \in Txs \ {t} : g \notin f[q].at
               /\ \A q \in Txs \ {t} :
                    /\ h[q].at = f[q].at /\ h[q].alone \subseteq f[q].alone
                    /\ g \notin f[t].at => g \notin h[q].alone
    BY <1>2, <2>1, ComesDoes
  <2>. QED
    BY <1>3, <2>1
<1>5. OthersKeep(t)
  BY <1>2, <1>4 DEF OthersKeep
<1>6. AtGroup(t, g)
  BY <1>2, <1>4 DEF AtGroup
<1>. QED
  BY <1>2, <1>4, <1>5, <1>6

LEMMA EnsureDoes ==
  ASSUME SafeInv, NEW t \in Txs, NEW d \in Rcepts, NEW g \in Groups,
         EnsureDisclosureGroup(t, d, g)
  PROVE  /\ tx' \in [Txs -> TxType] /\ OthersKeep(t) /\ AtGroup(t, g)
         /\ tx[t].step = "open" /\ tx[t].g = None
         /\ tx'[t].step = "upsert" /\ tx'[t].d = d /\ tx'[t].g = g
         /\ tx'[t].items = tx[t].items /\ tx[t].items < MaxItems
         /\ tx'[t].row = tx[t].row /\ tx'[t].wrote = tx[t].wrote
         /\ tx'[t].stamped = tx[t].stamped /\ tx'[t].left = tx[t].left
         /\ \/ tx'[t].wroteGroup = tx[t].wroteGroup /\ tx'[t].group = tx[t].group
            \/ /\ tx'[t].wroteGroup = tx[t].wroteGroup \cup {g}
               /\ \A q \in Txs \ {t} : g \notin tx[q].wroteGroup
               /\ \A h \in Groups \ {g} : tx'[t].group[h] = tx[t].group[h]
         /\ UNCHANGED <<row, group, tangled>>
<1>. DEFINE new == ~GroupOf(t, g).exists
            mine == [tx[t] EXCEPT
              !.step = "upsert", !.d = d, !.g = g,
              !.group[g] = IF new THEN [NoGroup EXCEPT !.exists = TRUE] ELSE @,
              !.wroteGroup = IF new THEN @ \cup {g} ELSE @]
<1>1. /\ TypeOK /\ tx[t] \in TxType /\ tx[t].step = "open" /\ tx[t].g = None
      /\ tx[t].items < MaxItems
      /\ new => ~GroupLocked(t, g)
      /\ tx' = Comes([tx EXCEPT ![t] = mine], t, g)
      /\ UNCHANGED <<row, group, tangled>>
  BY ViewTypes DEF SafeInv, StepInv, EnsureDisclosureGroup
<1>2. /\ tx[t].group \in [Groups -> GroupType] /\ tx[t].wroteGroup \subseteq Groups
  BY <1>1, TxFields
<1>. HIDE DEF new
<1>3. [NoGroup EXCEPT !.exists = TRUE] \in GroupType
  BY DEF NoGroup, GroupType
<1>4. mine \in TxType
  <2>1. [tx[t].group EXCEPT ![g] = IF new THEN [NoGroup EXCEPT !.exists = TRUE] ELSE @]
          \in [Groups -> GroupType]
    BY <1>2, <1>3
  <2>. QED
    BY <1>1, <1>2, <2>1 DEF TxType
<1>5. /\ mine.at = tx[t].at /\ mine.alone = tx[t].alone
      /\ mine.step = "upsert" /\ mine.d = d /\ mine.g = g /\ mine.items = tx[t].items
      /\ mine.row = tx[t].row /\ mine.wrote = tx[t].wrote
      /\ mine.stamped = tx[t].stamped /\ mine.left = tx[t].left
      /\ mine.wroteGroup = IF new THEN tx[t].wroteGroup \cup {g} ELSE tx[t].wroteGroup
      /\ ~new => mine.group = tx[t].group
      /\ \A h \in Groups \ {g} : mine.group[h] = tx[t].group[h]
  <2>1. \A h \in Groups \ {g} : mine.group[h] = tx[t].group[h]
    BY <1>1, <1>2 DEF TxType
  <2>2. ~new => mine.group = tx[t].group
    BY <1>1, <1>2 DEF TxType
  <2>. QED
    BY <1>1, <1>2, <2>1, <2>2 DEF TxType
<1>. HIDE DEF mine
<1>6. /\ tx' \in [Txs -> TxType] /\ SameWork(tx'[t], mine) /\ OthersKeep(t) /\ AtGroup(t, g)
  BY <1>1, <1>4, <1>5, ComingStep
<1>7. /\ tx'[t].step = "upsert" /\ tx'[t].d = d /\ tx'[t].g = g
      /\ tx'[t].items = tx[t].items
      /\ tx'[t].row = tx[t].row /\ tx'[t].wrote = tx[t].wrote
      /\ tx'[t].stamped = tx[t].stamped /\ tx'[t].left = tx[t].left
      /\ tx'[t].wroteGroup = mine.wroteGroup /\ tx'[t].group = mine.group
  BY <1>5, <1>6 DEF SameWork
<1>8. new => \A q \in Txs \ {t} : g \notin tx[q].wroteGroup
  BY <1>1 DEF GroupLocked
<1>. QED
  BY <1>1, <1>5, <1>6, <1>7, <1>8

(* What UpsertDisclosure writes.                                              *)
Upserted(t) ==
  [group |-> tx[t].g,
   latest |-> IF RowOf(t, tx[t].d).group = None THEN TRUE ELSE RowOf(t, tx[t].d).latest]

Moves(t) == RowOf(t, tx[t].d).group \notin {None, tx[t].g}

LEMMA UpsertDoes ==
  ASSUME SafeInv, NEW t \in Txs, UpsertDisclosure(t)
  PROVE  /\ tx[t].step = "upsert" /\ tx[t].d \in Rcepts /\ tx[t].g \in Groups
         /\ tx' \in [Txs -> TxType] /\ OthersKeep(t)
         /\ IF Moves(t) THEN AtGroup(t, RowOf(t, tx[t].d).group) ELSE StaysPut(t)
         /\ tx'[t].step = "select" /\ tx'[t].g = tx[t].g /\ tx'[t].items = tx[t].items
         /\ tx'[t].wrote = tx[t].wrote \cup {tx[t].d}
         /\ tx'[t].stamped = tx[t].stamped \cup {tx[t].d}
         /\ tx'[t].row = [tx[t].row EXCEPT ![tx[t].d] = Upserted(t)]
         /\ tx'[t].left = IF Moves(t) THEN tx[t].left \cup {RowOf(t, tx[t].d).group}
                          ELSE tx[t].left
         /\ tx'[t].group = tx[t].group /\ tx'[t].wroteGroup = tx[t].wroteGroup
         /\ \A q \in Txs \ {t} : tx[t].d \notin tx[q].wrote
         /\ UNCHANGED <<row, group, tangled>>
<1>. DEFINE d == tx[t].d
            g == tx[t].g
            old == RowOf(t, d).group
            moved == old \notin {None, g}
            mine == [tx[t] EXCEPT
              !.step = "select", !.d = NoRcept, !.wrote = @ \cup {d}, !.stamped = @ \cup {d},
              !.row[d] = [group |-> g, latest |-> IF old = None THEN TRUE ELSE RowOf(t, d).latest],
              !.left = IF moved THEN @ \cup {old} ELSE @]
<1>1. /\ TypeOK /\ tx[t] \in TxType /\ tx[t].step = "upsert" /\ d \in Rcepts /\ g \in Groups
      /\ ~RowLocked(t, d)
      /\ tx' = IF moved THEN Comes([tx EXCEPT ![t] = mine], t, old) ELSE [tx EXCEPT ![t] = mine]
      /\ UNCHANGED <<row, group, tangled>>
  BY ViewTypes DEF SafeInv, StepInv, UpsertDisclosure
<1>2. RowOf(t, d) \in RowType /\ RowOf(t, d).group \in Groups \cup {None}
      /\ RowOf(t, d).latest \in BOOLEAN
  BY <1>1, ViewTypes DEF RowType
<1>3. /\ tx[t].row \in [Rcepts -> RowType] /\ tx[t].wrote \subseteq Rcepts
      /\ tx[t].stamped \subseteq Rcepts /\ tx[t].left \subseteq Groups
  BY <1>1, TxFields
<1>4. Upserted(t) \in RowType
  BY <1>1, <1>2 DEF Upserted, RowType
<1>5. mine = [tx[t] EXCEPT !.step = "select", !.d = NoRcept,
                !.wrote = @ \cup {d}, !.stamped = @ \cup {d},
                !.row = [@ EXCEPT ![d] = Upserted(t)],
                !.left = IF moved THEN @ \cup {old} ELSE @]
  BY <1>1 DEF Upserted
<1>6. moved => old \in Groups
  BY <1>2
<1>. HIDE DEF mine, moved, old
<1>7. /\ mine \in TxType /\ mine.at = tx[t].at /\ mine.alone = tx[t].alone
      /\ mine.step = "select" /\ mine.g = g /\ mine.items = tx[t].items
      /\ mine.wrote = tx[t].wrote \cup {d} /\ mine.stamped = tx[t].stamped \cup {d}
      /\ mine.row = [tx[t].row EXCEPT ![d] = Upserted(t)]
      /\ mine.left = IF moved THEN tx[t].left \cup {old} ELSE tx[t].left
      /\ mine.group = tx[t].group /\ mine.wroteGroup = tx[t].wroteGroup
  <2>1. [tx[t].row EXCEPT ![d] = Upserted(t)] \in [Rcepts -> RowType]
    BY <1>1, <1>3, <1>4
  <2>. QED
    BY <1>1, <1>3, <1>5, <1>6, <2>1 DEF TxType
<1>8. /\ tx' \in [Txs -> TxType] /\ OthersKeep(t) /\ SameWork(tx'[t], mine)
      /\ IF moved THEN AtGroup(t, old) ELSE StaysPut(t)
  <2>1. CASE moved
    BY <1>1, <1>6, <1>7, <2>1, ComingStep
  <2>2. CASE ~moved
    <3>1. tx' \in [Txs -> TxType] /\ OthersKeep(t) /\ tx'[t] = mine
      BY <1>1, <1>7, <2>2, OwnStep
    <3>. QED
      BY <1>7, <2>2, <3>1, SameWorkSelf DEF StaysPut
  <2>. QED
    BY <2>1, <2>2
<1>9. \A q \in Txs \ {t} : d \notin tx[q].wrote
  BY <1>1 DEF RowLocked
<1>10. /\ tx'[t].step = "select" /\ tx'[t].g = g /\ tx'[t].items = tx[t].items
       /\ tx'[t].wrote = mine.wrote /\ tx'[t].stamped = mine.stamped
       /\ tx'[t].row = mine.row /\ tx'[t].left = mine.left
       /\ tx'[t].group = mine.group /\ tx'[t].wroteGroup = mine.wroteGroup
  BY <1>7, <1>8 DEF SameWork
<1>. QED
  BY <1>1, <1>7, <1>8, <1>9, <1>10 DEF Moves, moved, old

(* A step that leaves everything but the statement at hand.                    *)
LooksOnly(t) ==
  /\ tx' \in [Txs -> TxType] /\ OthersKeep(t) /\ StaysPut(t)
  /\ tx'[t].g = tx[t].g /\ tx'[t].items = tx[t].items
  /\ tx'[t].row = tx[t].row /\ tx'[t].wrote = tx[t].wrote
  /\ tx'[t].stamped = tx[t].stamped /\ tx'[t].left = tx[t].left
  /\ tx'[t].group = tx[t].group /\ tx'[t].wroteGroup = tx[t].wroteGroup
  /\ UNCHANGED <<row, group, tangled>>

(* The group at hand has a disclosure from the upsert on.                      *)
LEMMA HasMember ==
  ASSUME SafeInv, NEW t \in Txs, tx[t].step \notin {"open", "upsert"}
  PROVE  /\ tx[t].g \in Groups /\ Visible(t, tx[t].g) \subseteq Rcepts
         /\ Visible(t, tx[t].g) # {}
<1>1. PICK d \in tx[t].wrote : tx[t].row[d].group = tx[t].g
  BY DEF SafeInv, StepInv
<1>2. tx[t].wrote \subseteq Rcepts /\ tx[t].g \in Groups
  BY ViewTypes, TxFields DEF SafeInv, StepInv
<1>3. d \in Visible(t, tx[t].g)
  BY <1>1, <1>2 DEF Visible, RowOf
<1>. QED
  BY <1>2, <1>3, ViewTypes DEF SafeInv

LEMMA SelectDoes ==
  ASSUME SafeInv, NEW t \in Txs, SelectLatest(t)
  PROVE  /\ LooksOnly(t) /\ tx[t].step = "select" /\ tx'[t].step = "targets"
         /\ tx'[t].latest = Newest(Visible(t, tx[t].g))
<1>. DEFINE n == Newest(Visible(t, tx[t].g))
            mine == [tx[t] EXCEPT !.step = "targets", !.latest = n]
<1>1. /\ TypeOK /\ tx[t] \in TxType /\ tx[t].step = "select"
      /\ tx' = [tx EXCEPT ![t].step = "targets", ![t].latest = n]
      /\ UNCHANGED <<row, group, tangled>>
  BY ViewTypes DEF SafeInv, SelectLatest
<1>2. n \in Rcepts
  BY <1>1, HasMember, NewestIs
<1>. HIDE DEF n
<1>3. tx' = [tx EXCEPT ![t] = mine]
  BY <1>1 DEF TypeOK
<1>4. /\ mine \in TxType /\ mine.step = "targets" /\ mine.latest = n
      /\ mine.at = tx[t].at /\ mine.alone = tx[t].alone /\ mine.g = tx[t].g
      /\ mine.items = tx[t].items
      /\ mine.row = tx[t].row /\ mine.wrote = tx[t].wrote
      /\ mine.stamped = tx[t].stamped /\ mine.left = tx[t].left
      /\ mine.group = tx[t].group /\ mine.wroteGroup = tx[t].wroteGroup
  BY <1>1, <1>2 DEF TxType
<1>. HIDE DEF mine
<1>5. tx' \in [Txs -> TxType] /\ OthersKeep(t) /\ tx'[t] = mine
  BY <1>1, <1>3, <1>4, OwnStep
<1>. QED
  BY <1>1, <1>4, <1>5 DEF LooksOnly, StaysPut, n

LEMMA StartDoes ==
  ASSUME SafeInv, NEW t \in Txs, MarkStarts(t)
  PROVE  /\ LooksOnly(t) /\ tx[t].step = "targets" /\ tx'[t].step = "mark"
         /\ tx'[t].latest = tx[t].latest /\ tx'[t].targets = Visible(t, tx[t].g)
<1>. DEFINE V == Visible(t, tx[t].g)
            mine == [tx[t] EXCEPT !.step = "mark", !.targets = V]
<1>1. /\ TypeOK /\ tx[t] \in TxType /\ tx[t].step = "targets"
      /\ tx' = [tx EXCEPT ![t].step = "mark", ![t].targets = V]
      /\ UNCHANGED <<row, group, tangled>>
  BY ViewTypes DEF SafeInv, MarkStarts
<1>2. V \subseteq Rcepts
  BY <1>1, ViewTypes
<1>. HIDE DEF V
<1>3. tx' = [tx EXCEPT ![t] = mine]
  BY <1>1 DEF TypeOK
<1>4. /\ mine \in TxType /\ mine.step = "mark" /\ mine.targets = V
      /\ mine.latest = tx[t].latest
      /\ mine.at = tx[t].at /\ mine.alone = tx[t].alone /\ mine.g = tx[t].g
      /\ mine.items = tx[t].items
      /\ mine.row = tx[t].row /\ mine.wrote = tx[t].wrote
      /\ mine.stamped = tx[t].stamped /\ mine.left = tx[t].left
      /\ mine.group = tx[t].group /\ mine.wroteGroup = tx[t].wroteGroup
  BY <1>1, <1>2 DEF TxType
<1>. HIDE DEF mine
<1>5. tx' \in [Txs -> TxType] /\ OthersKeep(t) /\ tx'[t] = mine
  BY <1>1, <1>3, <1>4, OwnStep
<1>. QED
  BY <1>1, <1>4, <1>5 DEF LooksOnly, StaysPut, V

LEMMA CountDoes ==
  ASSUME SafeInv, NEW t \in Txs, CountVersions(t)
  PROVE  /\ LooksOnly(t) /\ tx[t].step = "mark" /\ tx'[t].step = "group"
         /\ tx'[t].latest = tx[t].latest /\ tx'[t].targets = {} /\ tx[t].targets = {}
         /\ tx'[t].count = Cardinality(Visible(t, tx[t].g))
<1>. DEFINE n == Cardinality(Visible(t, tx[t].g))
            mine == [tx[t] EXCEPT !.step = "group", !.count = n]
<1>1. /\ TypeOK /\ tx[t] \in TxType /\ tx[t].step = "mark" /\ tx[t].targets = {}
      /\ tx' = [tx EXCEPT ![t].step = "group", ![t].count = n]
      /\ UNCHANGED <<row, group, tangled>>
  BY ViewTypes DEF SafeInv, CountVersions
<1>2. n \in Nat
  BY <1>1, ViewTypes, DisclosuresAssumption, FS_Subset, FS_CardinalityType
<1>. HIDE DEF n
<1>3. tx' = [tx EXCEPT ![t] = mine]
  BY <1>1 DEF TypeOK
<1>4. /\ mine \in TxType /\ mine.step = "group" /\ mine.targets = {} /\ mine.count = n
      /\ mine.latest = tx[t].latest
      /\ mine.at = tx[t].at /\ mine.alone = tx[t].alone /\ mine.g = tx[t].g
      /\ mine.items = tx[t].items
      /\ mine.row = tx[t].row /\ mine.wrote = tx[t].wrote
      /\ mine.stamped = tx[t].stamped /\ mine.left = tx[t].left
      /\ mine.group = tx[t].group /\ mine.wroteGroup = tx[t].wroteGroup
  BY <1>1, <1>2 DEF TxType
<1>. HIDE DEF mine
<1>5. tx' \in [Txs -> TxType] /\ OthersKeep(t) /\ tx'[t] = mine
  BY <1>1, <1>3, <1>4, OwnStep
<1>. QED
  BY <1>1, <1>4, <1>5 DEF LooksOnly, StaysPut, n

(* A row of the UPDATE: left out when the disclosure is elsewhere by then.      *)
LEMMA MarkDoes ==
  ASSUME SafeInv, NEW t \in Txs, NEW d \in Rcepts, MarkRow(t, d)
  PROVE  /\ tx' \in [Txs -> TxType] /\ OthersKeep(t) /\ StaysPut(t)
         /\ tx[t].step = "mark" /\ tx'[t].step = "mark" /\ tx'[t].g = tx[t].g
         /\ tx'[t].items = tx[t].items
         /\ tx'[t].latest = tx[t].latest /\ tx'[t].targets = tx[t].targets \ {d}
         /\ tx'[t].stamped = tx[t].stamped /\ tx'[t].left = tx[t].left
         /\ tx'[t].group = tx[t].group /\ tx'[t].wroteGroup = tx[t].wroteGroup
         /\ IF RowOf(t, d).group = tx[t].g
            THEN /\ tx'[t].wrote = tx[t].wrote \cup {d}
                 /\ tx'[t].row = [tx[t].row EXCEPT ![d] = Marked(RowOf(t, d), d, tx[t].latest)]
            ELSE tx'[t].wrote = tx[t].wrote /\ tx'[t].row = tx[t].row
         /\ \A q \in Txs \ {t} : d \notin tx[q].wrote
         /\ UNCHANGED <<row, group, tangled>>
<1>. DEFINE here == RowOf(t, d).group = tx[t].g
            r == Marked(RowOf(t, d), d, tx[t].latest)
            rest == [tx[t] EXCEPT !.targets = @ \ {d}]
            mine == IF here THEN [rest EXCEPT !.wrote = @ \cup {d}, !.row[d] = r] ELSE rest
<1>1. /\ TypeOK /\ tx[t] \in TxType /\ tx[t].step = "mark" /\ ~RowLocked(t, d)
      /\ tx' = [tx EXCEPT ![t] = mine]
      /\ UNCHANGED <<row, group, tangled>>
  <2>1. /\ TypeOK /\ tx[t] \in TxType
    BY ViewTypes DEF SafeInv
  <2>2. tx' = [tx EXCEPT ![t] = mine]
    BY DEF MarkRow
  <2>. QED
    BY <2>1, <2>2 DEF MarkRow
<1>2. r \in RowType
  BY <1>1, ViewTypes DEF RowType, Marked
<1>3. /\ tx[t].row \in [Rcepts -> RowType] /\ tx[t].wrote \subseteq Rcepts
      /\ tx[t].targets \subseteq Rcepts
  BY <1>1, TxFields
<1>4. [tx[t].row EXCEPT ![d] = r] \in [Rcepts -> RowType]
  BY <1>2, <1>3
<1>. HIDE DEF r, here
<1>5. /\ mine \in TxType /\ mine.step = "mark" /\ mine.targets = tx[t].targets \ {d}
      /\ mine.latest = tx[t].latest
      /\ mine.at = tx[t].at /\ mine.alone = tx[t].alone /\ mine.g = tx[t].g
      /\ mine.items = tx[t].items
      /\ mine.stamped = tx[t].stamped /\ mine.left = tx[t].left
      /\ mine.group = tx[t].group /\ mine.wroteGroup = tx[t].wroteGroup
      /\ IF here THEN /\ mine.wrote = tx[t].wrote \cup {d}
                      /\ mine.row = [tx[t].row EXCEPT ![d] = r]
         ELSE mine.wrote = tx[t].wrote /\ mine.row = tx[t].row
  <2>1. /\ rest \in TxType /\ rest.step = "mark" /\ rest.targets = tx[t].targets \ {d}
        /\ rest.latest = tx[t].latest
        /\ rest.at = tx[t].at /\ rest.alone = tx[t].alone /\ rest.g = tx[t].g
        /\ rest.items = tx[t].items
        /\ rest.stamped = tx[t].stamped /\ rest.left = tx[t].left
        /\ rest.group = tx[t].group /\ rest.wroteGroup = tx[t].wroteGroup
        /\ rest.wrote = tx[t].wrote /\ rest.row = tx[t].row
    BY <1>1, <1>3 DEF TxType
  <2>2. CASE ~here
    BY <2>1, <2>2
  <2>3. CASE here
    <3>. HIDE DEF rest
    <3>1. mine = [rest EXCEPT !.wrote = tx[t].wrote \cup {d},
                              !.row = [tx[t].row EXCEPT ![d] = r]]
      BY <2>1, <2>3
    <3>2. tx[t].wrote \cup {d} \subseteq Rcepts
      BY <1>3
    <3>. HIDE DEF mine
    <3>3. mine \in TxType
      BY <1>4, <2>1, <3>1, <3>2 DEF TxType
    <3>4. /\ mine.step = "mark" /\ mine.targets = tx[t].targets \ {d}
          /\ mine.latest = tx[t].latest
          /\ mine.at = tx[t].at /\ mine.alone = tx[t].alone /\ mine.g = tx[t].g
          /\ mine.items = tx[t].items
          /\ mine.stamped = tx[t].stamped /\ mine.left = tx[t].left
          /\ mine.group = tx[t].group /\ mine.wroteGroup = tx[t].wroteGroup
          /\ mine.wrote = tx[t].wrote \cup {d}
          /\ mine.row = [tx[t].row EXCEPT ![d] = r]
      BY <2>1, <3>1 DEF TxType
    <3>. QED
      BY <2>3, <3>3, <3>4
  <2>. QED
    BY <2>2, <2>3
<1>. HIDE DEF mine
<1>6. tx' \in [Txs -> TxType] /\ OthersKeep(t) /\ tx'[t] = mine
  BY <1>1, <1>5, OwnStep
<1>7. \A q \in Txs \ {t} : d \notin tx[q].wrote
  BY <1>1 DEF RowLocked
<1>. QED
  BY <1>1, <1>5, <1>6, <1>7 DEF StaysPut, here, r

LEMMA UpdateDoes ==
  ASSUME SafeInv, NEW t \in Txs, UpdateGroup(t)
  PROVE  /\ tx' \in [Txs -> TxType] /\ OthersKeep(t) /\ StaysPut(t)
         /\ tx[t].step = "group" /\ tx'[t].step = "open"
         /\ tx[t].g \in Groups /\ tx'[t].g = None
         /\ tx'[t].items = tx[t].items + 1 /\ tx[t].items < MaxItems
         /\ tx'[t].row = tx[t].row /\ tx'[t].wrote = tx[t].wrote
         /\ tx'[t].stamped = tx[t].stamped /\ tx'[t].left = tx[t].left \ {tx[t].g}
         /\ tx'[t].wroteGroup = tx[t].wroteGroup \cup {tx[t].g}
         /\ tx'[t].group = [tx[t].group EXCEPT ![tx[t].g] =
              [exists |-> TRUE, latest |-> tx[t].latest, count |-> tx[t].count]]
         /\ \A q \in Txs \ {t} : tx[t].g \notin tx[q].wroteGroup
         /\ UNCHANGED <<row, group, tangled>>
<1>. DEFINE g == tx[t].g
            e == [exists |-> TRUE, latest |-> tx[t].latest, count |-> tx[t].count]
            mine == [tx[t] EXCEPT !.step = "open", !.g = None, !.latest = NoRcept, !.count = 0,
                       !.items = @ + 1, !.wroteGroup = @ \cup {g},
                       !.group[g] = e, !.left = @ \ {g}]
<1>1. /\ TypeOK /\ tx[t] \in TxType /\ tx[t].step = "group" /\ g \in Groups
      /\ tx[t].items < MaxItems
      /\ ~GroupLocked(t, g)
      /\ tx' = [tx EXCEPT ![t] = mine]
      /\ UNCHANGED <<row, group, tangled>>
  <2>1. /\ TypeOK /\ tx[t] \in TxType /\ tx[t].step = "group" /\ g \in Groups
       /\ tx[t].items < MaxItems
    BY ViewTypes DEF SafeInv, StepInv, UpdateGroup
  <2>2. tx' = [tx EXCEPT ![t] = mine]
    BY DEF UpdateGroup
  <2>. QED
    BY <2>1, <2>2 DEF UpdateGroup
<1>2. tx[t].items + 1 \in 0 .. MaxItems
  BY <1>1, TxFields, DisclosuresAssumption
<1>3. /\ tx[t].group \in [Groups -> GroupType] /\ tx[t].wroteGroup \subseteq Groups
      /\ tx[t].left \subseteq Groups /\ tx[t].latest \in Rcepts \cup {NoRcept}
      /\ tx[t].count \in Nat
  BY <1>1, TxFields
<1>4. e \in GroupType
  BY <1>3 DEF GroupType
<1>5. [tx[t].group EXCEPT ![g] = e] \in [Groups -> GroupType]
  BY <1>3, <1>4
<1>. HIDE DEF e
<1>6. /\ mine \in TxType /\ mine.step = "open" /\ mine.g = None
      /\ mine.items = tx[t].items + 1
      /\ mine.at = tx[t].at /\ mine.alone = tx[t].alone
      /\ mine.row = tx[t].row /\ mine.wrote = tx[t].wrote
      /\ mine.stamped = tx[t].stamped /\ mine.left = tx[t].left \ {g}
      /\ mine.wroteGroup = tx[t].wroteGroup \cup {g}
      /\ mine.group = [tx[t].group EXCEPT ![g] = e]
  <2>. DEFINE n == tx[t].items + 1
              G == [tx[t].group EXCEPT ![g] = e]
  <2>1. mine = [tx[t] EXCEPT !.step = "open", !.g = None, !.latest = NoRcept, !.count = 0,
                  !.items = n, !.wroteGroup = tx[t].wroteGroup \cup {g},
                  !.group = G, !.left = tx[t].left \ {g}]
    BY <1>1
  <2>2. /\ n \in 0 .. MaxItems /\ G \in [Groups -> GroupType]
        /\ tx[t].wroteGroup \cup {g} \subseteq Groups /\ tx[t].left \ {g} \subseteq Groups
    BY <1>1, <1>2, <1>3, <1>5
  <2>. HIDE DEF n, G, mine
  <2>3. mine \in TxType
    BY <1>1, <2>1, <2>2 DEF TxType
  <2>4. /\ mine.step = "open" /\ mine.g = None /\ mine.items = n
        /\ mine.at = tx[t].at /\ mine.alone = tx[t].alone
        /\ mine.row = tx[t].row /\ mine.wrote = tx[t].wrote
        /\ mine.stamped = tx[t].stamped /\ mine.left = tx[t].left \ {g}
        /\ mine.wroteGroup = tx[t].wroteGroup \cup {g} /\ mine.group = G
    BY <1>1, <2>1 DEF TxType
  <2>. QED
    BY <2>3, <2>4 DEF n, G
<1>. HIDE DEF mine
<1>7. tx' \in [Txs -> TxType] /\ OthersKeep(t) /\ tx'[t] = mine
  BY <1>1, <1>6, OwnStep
<1>8. \A q \in Txs \ {t} : g \notin tx[q].wroteGroup
  BY <1>1 DEF GroupLocked
<1>. QED
  BY <1>1, <1>6, <1>7, <1>8 DEF StaysPut, e

LEMMA EmptyTypes ==
  NoTx \in TxType /\ NoRow \in RowType /\ NoGroup \in GroupType
<1>1. NoRow \in RowType /\ NoGroup \in GroupType
  BY DEF NoRow, NoGroup, RowType, GroupType
<1>2. 0 \in 0 .. MaxItems
  BY DisclosuresAssumption
<1>3. [d \in Rcepts |-> NoRow] \in [Rcepts -> RowType]
      /\ [g \in Groups |-> NoGroup] \in [Groups -> GroupType]
  BY <1>1
<1>. QED
  BY <1>1, <1>2, <1>3 DEF NoTx, TxType

LEMMA EmptyIs ==
  /\ NoTx.step = "open" /\ NoTx.g = None /\ NoTx.items = 0 /\ NoTx.wrote = {}
  /\ NoTx.stamped = {} /\ NoTx.wroteGroup = {} /\ NoTx.at = {} /\ NoTx.alone = {} /\ NoTx.left = {}
  BY DEF NoTx

(* The end of a transaction, of either kind.                                  *)
LEMMA EndDoes ==
  ASSUME SafeInv, NEW t \in Txs, Commit(t) \/ RollBack(t)
  PROVE  /\ tx' \in [Txs -> TxType] /\ tx'[t] = NoTx
         /\ \A q \in Txs \ {t} : tx'[q] = tx[q]
         /\ OthersKeep(t)
<1>. QED
  BY EmptyTypes, OwnStep DEF SafeInv, Commit, RollBack

LEMMA CommitDoes ==
  ASSUME SafeInv, NEW t \in Txs, Commit(t)
  PROVE  /\ tx[t].step = "open" /\ tx[t].g = None
         /\ row' \in [Rcepts -> RowType] /\ group' \in [Groups -> GroupType]
         /\ \A d \in Rcepts : row'[d] = RowOf(t, d)
         /\ \A g \in Groups : group'[g] = GroupOf(t, g)
         /\ tangled' = (tangled \ tx[t].alone) \cup (tx[t].at \ tx[t].alone) \cup tx[t].left
         /\ tangled' \subseteq Groups
<1>1. /\ row' = [d \in Rcepts |-> RowOf(t, d)] /\ group' = [g \in Groups |-> GroupOf(t, g)]
      /\ tangled' = (tangled \ tx[t].alone) \cup (tx[t].at \ tx[t].alone) \cup tx[t].left
      /\ tx[t].step = "open" /\ tx[t].g = None
  BY DEF Commit, SafeInv, StepInv
<1>2. /\ \A d \in Rcepts : RowOf(t, d) \in RowType
      /\ \A g \in Groups : GroupOf(t, g) \in GroupType
      /\ tx[t].at \subseteq Groups /\ tx[t].left \subseteq Groups /\ tangled \subseteq Groups
  BY ViewTypes, TxFields DEF SafeInv, TypeOK
<1>. QED
  BY <1>1, <1>2

(* What all steps have in common --------------------------------------------- *)

(* The rows that t holds the locks of grow by rows that nobody holds.          *)
Locks(t) ==
  /\ \A d \in tx'[t].wrote \ tx[t].wrote : \A q \in Txs \ {t} : d \notin tx[q].wrote
  /\ \A g \in tx'[t].wroteGroup \ tx[t].wroteGroup : \A q \in Txs \ {t} : g \notin tx[q].wroteGroup

LEMMA StepDoes ==
  ASSUME SafeInv, NEW t \in Txs, TxStep(t)
  PROVE  tx' \in [Txs -> TxType] /\ OthersKeep(t) /\ Locks(t)
<1>1. ASSUME NEW d \in Rcepts, NEW g \in Groups, EnsureDisclosureGroup(t, d, g)
      PROVE  tx' \in [Txs -> TxType] /\ OthersKeep(t) /\ Locks(t)
  BY <1>1, EnsureDoes DEF Locks
<1>2. CASE UpsertDisclosure(t)
  <2>1. /\ tx' \in [Txs -> TxType] /\ OthersKeep(t)
        /\ tx'[t].wrote = tx[t].wrote \cup {tx[t].d}
        /\ tx'[t].wroteGroup = tx[t].wroteGroup
        /\ \A q \in Txs \ {t} : tx[t].d \notin tx[q].wrote
    BY <1>2, UpsertDoes
  <2>. QED
    BY <2>1 DEF Locks
<1>3. CASE SelectLatest(t)
  BY <1>3, SelectDoes DEF Locks, LooksOnly
<1>4. CASE MarkStarts(t)
  BY <1>4, StartDoes DEF Locks, LooksOnly
<1>5. ASSUME NEW d \in Rcepts, MarkRow(t, d)
      PROVE  tx' \in [Txs -> TxType] /\ OthersKeep(t) /\ Locks(t)
  <2>1. /\ tx' \in [Txs -> TxType] /\ OthersKeep(t)
        /\ tx'[t].wrote \subseteq tx[t].wrote \cup {d}
        /\ tx'[t].wroteGroup = tx[t].wroteGroup
        /\ \A q \in Txs \ {t} : d \notin tx[q].wrote
    BY <1>5, MarkDoes
  <2>. QED
    BY <2>1 DEF Locks
<1>6. CASE CountVersions(t)
  BY <1>6, CountDoes DEF Locks, LooksOnly
<1>7. CASE UpdateGroup(t)
  <2>1. /\ tx' \in [Txs -> TxType] /\ OthersKeep(t)
        /\ tx'[t].wrote = tx[t].wrote
        /\ tx'[t].wroteGroup = tx[t].wroteGroup \cup {tx[t].g}
        /\ \A q \in Txs \ {t} : tx[t].g \notin tx[q].wroteGroup
    BY <1>7, UpdateDoes
  <2>. QED
    BY <2>1 DEF Locks
<1>8. CASE Commit(t) \/ RollBack(t)
  BY <1>8, EndDoes, EmptyIs DEF Locks
<1>. QED
  BY <1>1, <1>2, <1>3, <1>4, <1>5, <1>6, <1>7, <1>8 DEF TxStep

LEMMA OnlyCommitPublishes ==
  ASSUME SafeInv, NEW t \in Txs, TxStep(t), ~Commit(t)
  PROVE  UNCHANGED <<row, group, tangled>>
  BY EnsureDoes, UpsertDoes, SelectDoes, StartDoes, MarkDoes, CountDoes, UpdateDoes
     DEF TxStep, RollBack, LooksOnly

LEMMA TypeStep ==
  ASSUME SafeInv, NEW t \in Txs, TxStep(t)
  PROVE  TypeOK'
<1>1. /\ row' \in [Rcepts -> RowType] /\ group' \in [Groups -> GroupType]
      /\ tangled' \subseteq Groups
  <2>1. CASE Commit(t)
    BY <2>1, CommitDoes
  <2>2. CASE ~Commit(t)
    BY <2>2, OnlyCommitPublishes DEF SafeInv, TypeOK
  <2>. QED
    BY <2>1, <2>2
<1>2. tx' \in [Txs -> TxType] /\ OthersKeep(t) /\ Locks(t)
  BY StepDoes
<1>3. ASSUME NEW p \in Txs, NEW q \in Txs, p # q
      PROVE  tx'[p].wrote \cap tx'[q].wrote = {} /\ tx'[p].wroteGroup \cap tx'[q].wroteGroup = {}
  <2>1. /\ tx[p].wrote \cap tx[q].wrote = {} /\ tx[p].wroteGroup \cap tx[q].wroteGroup = {}
    BY <1>3 DEF SafeInv, TypeOK
  <2>2. \A u \in Txs \ {t} : tx'[u].wrote = tx[u].wrote /\ tx'[u].wroteGroup = tx[u].wroteGroup
    BY <1>2 DEF OthersKeep, SameWork
  <2>3. CASE p = t
    BY <1>2, <1>3, <2>1, <2>2, <2>3 DEF Locks
  <2>4. CASE q = t
    BY <1>2, <1>3, <2>1, <2>2, <2>4 DEF Locks
  <2>5. CASE p # t /\ q # t
    BY <2>1, <2>2, <2>5
  <2>. QED
    BY <2>3, <2>4, <2>5
<1>. QED
  BY <1>1, <1>2, <1>3 DEF TypeOK

(* The parts of StepInv for one transaction.                                  *)
StepOf(x) ==
  /\ x.step # "open" => x.g \in Groups
  /\ x.step # "open" => x.items < MaxItems
  /\ x.step = "open" => x.g = None
  /\ x.step = "upsert" => x.d \in Rcepts
  /\ x.step \notin {"open", "upsert"} => \E d \in x.wrote : x.row[d].group = x.g

LEMMA StepStep ==
  ASSUME SafeInv, NEW t \in Txs, TxStep(t)
  PROVE  StepInv'
<1>1. \A q \in Txs : StepOf(tx[q])
  BY DEF SafeInv, StepInv, StepOf
<1>2. \A q \in Txs \ {t} : StepOf(tx'[q])
  <2>1. \A q \in Txs \ {t} : SameWork(tx'[q], tx[q])
    BY StepDoes DEF OthersKeep
  <2>. QED
    BY <1>1, <2>1 DEF StepOf, SameWork
<1>3. StepOf(tx'[t])
  <2>0. /\ StepOf(tx[t]) /\ tx[t].step \in Steps /\ tx[t].wrote \subseteq Rcepts
        /\ tx[t].row \in [Rcepts -> RowType]
    BY <1>1, ViewTypes, TxFields DEF SafeInv
  <2>1. ASSUME NEW d \in Rcepts, NEW g \in Groups, EnsureDisclosureGroup(t, d, g)
        PROVE  StepOf(tx'[t])
    <3>1. /\ tx'[t].step = "upsert" /\ tx'[t].d = d /\ tx'[t].g = g
          /\ tx'[t].items = tx[t].items /\ tx[t].items < MaxItems
      BY <2>1, EnsureDoes
    <3>. QED
      BY <3>1 DEF StepOf
  <2>2. CASE UpsertDisclosure(t)
    <3>1. /\ tx[t].step = "upsert" /\ tx[t].d \in Rcepts /\ tx[t].g \in Groups
          /\ tx'[t].step = "select" /\ tx'[t].g = tx[t].g /\ tx'[t].items = tx[t].items
          /\ tx'[t].wrote = tx[t].wrote \cup {tx[t].d}
          /\ tx'[t].row = [tx[t].row EXCEPT ![tx[t].d] = Upserted(t)]
      BY <2>2, UpsertDoes
    <3>2. tx'[t].row[tx[t].d].group = tx[t].g
      BY <2>0, <3>1 DEF Upserted
    <3>. QED
      BY <2>0, <3>1, <3>2 DEF StepOf
  <2>3. ASSUME LooksOnly(t), tx[t].step \notin {"open", "upsert"},
               tx'[t].step \notin {"open", "upsert"}
        PROVE  StepOf(tx'[t])
    BY <2>0, <2>3 DEF StepOf, LooksOnly
  <2>4. CASE SelectLatest(t) \/ MarkStarts(t) \/ CountVersions(t)
    <3>1. LooksOnly(t) /\ tx[t].step \notin {"open", "upsert"}
                       /\ tx'[t].step \notin {"open", "upsert"}
      BY <2>4, SelectDoes, StartDoes, CountDoes
    <3>. QED
      BY <2>3, <3>1
  <2>5. ASSUME NEW d \in Rcepts, MarkRow(t, d)
        PROVE  StepOf(tx'[t])
    <3>1. /\ tx[t].step = "mark" /\ tx'[t].step = "mark" /\ tx'[t].g = tx[t].g
          /\ tx'[t].items = tx[t].items
          /\ IF RowOf(t, d).group = tx[t].g
             THEN /\ tx'[t].wrote = tx[t].wrote \cup {d}
                  /\ tx'[t].row = [tx[t].row EXCEPT ![d] = Marked(RowOf(t, d), d, tx[t].latest)]
             ELSE tx'[t].wrote = tx[t].wrote /\ tx'[t].row = tx[t].row
      BY <2>5, MarkDoes
    <3>2. PICK e \in tx[t].wrote : tx[t].row[e].group = tx[t].g
      BY <2>0, <3>1 DEF StepOf
    <3>3. e \in tx'[t].wrote /\ tx'[t].row[e].group = tx[t].g
      <4>1. RowOf(t, d) \in RowType
        BY ViewTypes DEF SafeInv
      <4>2. Marked(RowOf(t, d), d, tx[t].latest).group = RowOf(t, d).group
        BY <4>1 DEF Marked, RowType
      <4>. QED
        BY <2>0, <3>1, <3>2, <4>2
    <3>. QED
      BY <2>0, <3>1, <3>3 DEF StepOf
  <2>6. CASE UpdateGroup(t)
    <3>1. tx'[t].step = "open" /\ tx'[t].g = None
      BY <2>6, UpdateDoes
    <3>. QED
      BY <3>1 DEF StepOf
  <2>7. CASE Commit(t) \/ RollBack(t)
    BY <2>7, EndDoes, EmptyIs DEF StepOf
  <2>. QED
    BY <2>1, <2>2, <2>4, <2>5, <2>6, <2>7 DEF TxStep
<1>. QED
  BY <1>2, <1>3 DEF StepInv, StepOf

LEMMA SafeStep == SafeInv /\ [Next]_vars => SafeInv'
<1>. SUFFICES ASSUME SafeInv, [Next]_vars PROVE SafeInv'
  OBVIOUS
<1>1. CASE Next
  BY <1>1, TypeStep, StepStep DEF Next, SafeInv
<1>2. CASE UNCHANGED vars
  BY <1>2 DEF vars, SafeInv, TypeOK, StepInv
<1>. QED
  BY <1>1, <1>2

LEMMA SafeStart == Init => SafeInv
<1>. SUFFICES ASSUME Init PROVE SafeInv
  OBVIOUS
<1>1. TypeOK
  <2>1. \A t \in Txs : tx[t] = NoTx
    BY DEF Init
  <2>2. tx \in [Txs -> TxType] /\ row \in [Rcepts -> RowType] /\ group \in [Groups -> GroupType]
    BY EmptyTypes DEF Init
  <2>. QED
    BY <2>1, <2>2, EmptyIs DEF Init, TypeOK
<1>2. StepInv
  BY EmptyIs DEF Init, StepInv
<1>. QED
  BY <1>1, <1>2 DEF SafeInv

LEMMA Safe == Spec => []SafeInv
<1>1. Init => SafeInv
  BY SafeStart
<1>2. SafeInv /\ [Next]_vars => SafeInv'
  BY SafeStep
<1>. QED
  BY <1>1, <1>2, PTL DEF Spec

(* Types, whatever the statements of transactions interleave to; and the row   *)
(* locks of the database hold: no row is written by two open transactions.     *)
THEOREM TypeCorrect == Spec => []TypeOK
<1>1. SafeInv => TypeOK
  BY DEF SafeInv
<1>. QED
  BY <1>1, Safe, PTL

(* Who is where --------------------------------------------------------------- *)

(* A transaction is at every group that it wrote, took a disclosure from or     *)
(* has at hand, and at those that its rows came from and went to.              *)
AtOf(t) ==
  /\ tx[t].wroteGroup \cup tx[t].left \cup tx[t].alone \cup GroupAtHand(t) \subseteq tx[t].at
  /\ \A d \in tx[t].wrote : /\ tx[t].row[d].group \in tx[t].at
                            /\ row[d].group \in tx[t].at \cup {None}

(* Where a transaction is alone, no other one is.                             *)
AloneInv == \A t, q \in Txs : t # q => tx[t].alone \cap tx[q].at = {}

AtInv == AloneInv /\ \A t \in Txs : AtOf(t)

LEMMA AloneStep ==
  ASSUME SafeInv, AtInv, NEW t \in Txs, TxStep(t)
  PROVE  AloneInv'
<1>1. \A q \in Txs \ {t} : tx'[q].at = tx[q].at /\ tx'[q].alone \subseteq tx[q].alone
  BY StepDoes DEF OthersKeep
<1>2. \/ StaysPut(t)
      \/ tx'[t].at = {} /\ tx'[t].alone = {}
      \/ \E g \in Groups : AtGroup(t, g)
  <2>1. ASSUME NEW d \in Rcepts, NEW g \in Groups, EnsureDisclosureGroup(t, d, g)
        PROVE  AtGroup(t, g)
    BY <2>1, EnsureDoes
  <2>2. CASE UpsertDisclosure(t)
    <3>1. IF Moves(t) THEN AtGroup(t, RowOf(t, tx[t].d).group) ELSE StaysPut(t)
      BY <2>2, UpsertDoes
    <3>2. Moves(t) => RowOf(t, tx[t].d).group \in Groups
      BY <2>2, UpsertDoes, ViewTypes DEF SafeInv, Moves, RowType
    <3>. QED
      BY <3>1, <3>2
  <2>3. CASE SelectLatest(t) \/ MarkStarts(t) \/ CountVersions(t)
    BY <2>3, SelectDoes, StartDoes, CountDoes DEF LooksOnly
  <2>4. ASSUME NEW d \in Rcepts, MarkRow(t, d)
        PROVE  StaysPut(t)
    BY <2>4, MarkDoes
  <2>5. CASE UpdateGroup(t)
    BY <2>5, UpdateDoes
  <2>6. CASE Commit(t) \/ RollBack(t)
    BY <2>6, EndDoes, EmptyIs
  <2>. QED
    BY <2>1, <2>2, <2>3, <2>4, <2>5, <2>6 DEF TxStep
<1>3. ASSUME NEW p \in Txs, NEW q \in Txs, p # q
      PROVE  tx'[p].alone \cap tx'[q].at = {}
  <2>1. tx[p].alone \cap tx[q].at = {}
    BY <1>3 DEF AtInv, AloneInv
  <2>2. CASE p # t /\ q # t
    BY <1>1, <2>1, <2>2
  <2>3. CASE p = t
    <3>1. tx'[q].at = tx[q].at
      BY <1>1, <1>3, <2>3
    <3>2. CASE StaysPut(t)
      BY <2>1, <2>3, <3>1, <3>2 DEF StaysPut
    <3>3. CASE tx'[t].alone = {}
      BY <2>3, <3>3
    <3>4. ASSUME NEW g \in Groups, AtGroup(t, g)
          PROVE  tx'[p].alone \cap tx'[q].at = {}
      BY <1>3, <2>1, <2>3, <3>1, <3>4 DEF AtGroup
    <3>. QED
      BY <1>2, <3>2, <3>3, <3>4
  <2>4. CASE q = t
    <3>1. tx'[p].alone \subseteq tx[p].alone
      BY <1>1, <1>3, <2>4
    <3>2. CASE StaysPut(t)
      BY <2>1, <2>4, <3>1, <3>2 DEF StaysPut
    <3>3. CASE tx'[t].at = {}
      BY <2>4, <3>3
    <3>4. ASSUME NEW g \in Groups, AtGroup(t, g)
          PROVE  tx'[p].alone \cap tx'[q].at = {}
      BY <1>3, <2>1, <2>4, <3>1, <3>4 DEF AtGroup
    <3>. QED
      BY <1>2, <3>2, <3>3, <3>4
  <2>. QED
    BY <2>2, <2>3, <2>4
<1>. QED
  BY <1>3 DEF AloneInv

(* The rows that others write are not touched by the end of a transaction.     *)
LEMMA OthersRowsStay ==
  ASSUME SafeInv, NEW t \in Txs, TxStep(t), NEW q \in Txs \ {t}, NEW d \in tx[q].wrote
  PROVE  row'[d] = row[d]
<1>1. CASE Commit(t)
  <2>1. d \notin tx[t].wrote /\ d \in Rcepts
    BY ViewTypes, TxFields DEF SafeInv, TypeOK
  <2>. QED
    BY <1>1, <2>1, CommitDoes DEF RowOf
<1>2. CASE ~Commit(t)
  BY <1>2, OnlyCommitPublishes
<1>. QED
  BY <1>1, <1>2

LEMMA AtStep ==
  ASSUME SafeInv, AtInv, NEW t \in Txs, TxStep(t)
  PROVE  AtInv'
<1>1. \A q \in Txs \ {t} : AtOf(q)'
  <2>. SUFFICES ASSUME NEW q \in Txs \ {t} PROVE AtOf(q)'
    OBVIOUS
  <2>1. AtOf(q)
    BY DEF AtInv
  <2>2. /\ SameWork(tx'[q], tx[q]) /\ tx'[q].at = tx[q].at /\ tx'[q].alone \subseteq tx[q].alone
        /\ \A d \in tx[q].wrote : row'[d] = row[d]
    BY StepDoes, OthersRowsStay DEF OthersKeep
  <2>3. /\ tx'[q].wroteGroup = tx[q].wroteGroup /\ tx'[q].left = tx[q].left
        /\ GroupAtHand(q)' = GroupAtHand(q)
        /\ tx'[q].wrote = tx[q].wrote /\ tx'[q].row = tx[q].row
    BY <2>2 DEF SameWork, GroupAtHand
  <2>. QED
    BY <2>1, <2>2, <2>3 DEF AtOf
<1>2. AtOf(t)'
  <2>0. /\ AtOf(t) /\ tx[t].row \in [Rcepts -> RowType] /\ tx[t].wrote \subseteq Rcepts
        /\ \A e \in Rcepts : RowOf(t, e) \in RowType
    BY ViewTypes, TxFields DEF SafeInv, AtInv
  <2>1. ASSUME NEW d \in Rcepts, NEW g \in Groups, EnsureDisclosureGroup(t, d, g)
        PROVE  AtOf(t)'
    <3>1. /\ AtGroup(t, g) /\ tx'[t].step = "upsert" /\ tx'[t].g = g
          /\ tx'[t].row = tx[t].row /\ tx'[t].wrote = tx[t].wrote /\ tx'[t].left = tx[t].left
          /\ tx'[t].wroteGroup \subseteq tx[t].wroteGroup \cup {g}
          /\ row' = row
      BY <2>1, EnsureDoes
    <3>2. GroupAtHand(t)' = {g}
      BY <3>1 DEF GroupAtHand
    <3>. QED
      BY <2>0, <3>1, <3>2 DEF AtOf, AtGroup
  <2>2. CASE UpsertDisclosure(t)
    <3>. DEFINE d == tx[t].d
                old == RowOf(t, d).group
    <3>1. /\ tx[t].step = "upsert" /\ d \in Rcepts /\ tx'[t].step = "select"
          /\ tx'[t].g = tx[t].g
          /\ IF Moves(t) THEN AtGroup(t, old) ELSE StaysPut(t)
          /\ tx'[t].wrote = tx[t].wrote \cup {d}
          /\ tx'[t].row = [tx[t].row EXCEPT ![d] = Upserted(t)]
          /\ tx'[t].left = IF Moves(t) THEN tx[t].left \cup {old} ELSE tx[t].left
          /\ tx'[t].wroteGroup = tx[t].wroteGroup /\ row' = row
      BY <2>2, UpsertDoes
    <3>2. GroupAtHand(t)' = {tx[t].g} /\ tx[t].g \in tx[t].at
      BY <2>0, <3>1 DEF GroupAtHand, AtOf
    <3>3. tx[t].at \subseteq tx'[t].at /\ (Moves(t) => old \in tx'[t].at)
      BY <3>1 DEF AtGroup, StaysPut
    <3>4. old \in tx'[t].at \cup {None}
      <4>1. ~Moves(t) => old = None \/ old = tx[t].g
        BY DEF Moves
      <4>. QED
        BY <3>2, <3>3, <4>1
    <3>5. tx'[t].alone \subseteq tx'[t].at
      BY <2>0, <3>1 DEF AtOf, AtGroup, StaysPut
    <3>6. ASSUME NEW e \in tx'[t].wrote
          PROVE  tx'[t].row[e].group \in tx'[t].at /\ row[e].group \in tx'[t].at \cup {None}
      <4>1. CASE e # d
        BY <2>0, <3>1, <3>3, <3>6, <4>1 DEF AtOf
      <4>2. CASE e = d
        <5>1. tx'[t].row[d].group = tx[t].g
          BY <2>0, <3>1 DEF Upserted
        <5>2. row[d].group \in tx'[t].at \cup {None}
          BY <2>0, <3>3, <3>4 DEF RowOf, AtOf
        <5>. QED
          BY <3>2, <3>3, <4>2, <5>1, <5>2
      <4>. QED
        BY <4>1, <4>2
    <3>7. tx'[t].wroteGroup \cup tx'[t].left \subseteq tx'[t].at
      BY <2>0, <3>1, <3>3 DEF AtOf
    <3>. HIDE DEF d, old
    <3>. QED
      BY <3>1, <3>2, <3>3, <3>5, <3>6, <3>7 DEF AtOf
  <2>3. CASE SelectLatest(t) \/ MarkStarts(t) \/ CountVersions(t)
    <3>1. LooksOnly(t) /\ tx[t].step # "open" /\ tx'[t].step # "open"
      BY <2>3, SelectDoes, StartDoes, CountDoes
    <3>2. GroupAtHand(t)' = GroupAtHand(t)
      BY <3>1 DEF GroupAtHand, LooksOnly
    <3>. QED
      BY <2>0, <3>1, <3>2 DEF AtOf, LooksOnly, StaysPut
  <2>4. ASSUME NEW d \in Rcepts, MarkRow(t, d)
        PROVE  AtOf(t)'
    <3>1. /\ StaysPut(t) /\ tx[t].step = "mark" /\ tx'[t].step = "mark" /\ tx'[t].g = tx[t].g
          /\ tx'[t].left = tx[t].left /\ tx'[t].wroteGroup = tx[t].wroteGroup
          /\ IF RowOf(t, d).group = tx[t].g
             THEN /\ tx'[t].wrote = tx[t].wrote \cup {d}
                  /\ tx'[t].row = [tx[t].row EXCEPT ![d] = Marked(RowOf(t, d), d, tx[t].latest)]
             ELSE tx'[t].wrote = tx[t].wrote /\ tx'[t].row = tx[t].row
          /\ row' = row
      BY <2>4, MarkDoes
    <3>2. GroupAtHand(t)' = GroupAtHand(t) /\ tx[t].g \in tx[t].at
      BY <2>0, <3>1 DEF GroupAtHand, AtOf
    <3>3. Marked(RowOf(t, d), d, tx[t].latest).group = RowOf(t, d).group
      BY <2>0 DEF Marked, RowType
    <3>4. ASSUME NEW e \in tx'[t].wrote
          PROVE  tx'[t].row[e].group \in tx[t].at /\ row[e].group \in tx[t].at \cup {None}
      <4>1. CASE e \in tx[t].wrote /\ (e # d \/ RowOf(t, d).group # tx[t].g)
        BY <2>0, <3>1, <4>1 DEF AtOf
      <4>2. CASE e = d /\ RowOf(t, d).group = tx[t].g
        <5>1. tx'[t].row[d].group = tx[t].g
          BY <2>0, <3>1, <3>3, <4>2
        <5>2. row[d].group \in tx[t].at \cup {None}
          BY <2>0, <3>2, <4>2 DEF RowOf, AtOf
        <5>. QED
          BY <3>2, <4>2, <5>1, <5>2
      <4>. QED
        BY <3>1, <3>4, <4>1, <4>2
    <3>. QED
      BY <2>0, <3>1, <3>2, <3>4 DEF AtOf, StaysPut
  <2>5. CASE UpdateGroup(t)
    <3>1. /\ StaysPut(t) /\ tx[t].step = "group" /\ tx'[t].step = "open"
          /\ tx'[t].row = tx[t].row /\ tx'[t].wrote = tx[t].wrote
          /\ tx'[t].left = tx[t].left \ {tx[t].g}
          /\ tx'[t].wroteGroup = tx[t].wroteGroup \cup {tx[t].g} /\ row' = row
      BY <2>5, UpdateDoes
    <3>2. GroupAtHand(t)' = {} /\ tx[t].g \in tx[t].at
      BY <2>0, <3>1 DEF GroupAtHand, AtOf
    <3>3. tx'[t].at = tx[t].at /\ tx'[t].alone = tx[t].alone
      BY <3>1 DEF StaysPut
    <3>4. /\ tx'[t].wroteGroup \cup tx'[t].left \cup tx'[t].alone \cup GroupAtHand(t)'
               \subseteq tx'[t].at
      BY <2>0, <3>1, <3>2, <3>3 DEF AtOf
    <3>5. \A e \in tx'[t].wrote : /\ tx'[t].row[e].group \in tx'[t].at
                                 /\ row'[e].group \in tx'[t].at \cup {None}
      BY <2>0, <3>1, <3>3 DEF AtOf
    <3>. QED
      BY <3>4, <3>5 DEF AtOf
  <2>6. CASE Commit(t) \/ RollBack(t)
    <3>1. GroupAtHand(t)' = {}
      BY <2>6, EndDoes, EmptyIs DEF GroupAtHand
    <3>. QED
      BY <2>6, <3>1, EndDoes, EmptyIs DEF AtOf
  <2>. QED
    BY <2>1, <2>2, <2>3, <2>4, <2>5, <2>6 DEF TxStep
<1>3. AloneInv'
  BY AloneStep
<1>. QED
  BY <1>1, <1>2, <1>3 DEF AtInv

LEMMA AtStart == Init => AtInv
  BY EmptyIs DEF Init, AtInv, AloneInv, AtOf, GroupAtHand

LEMMA AtNext == SafeInv /\ AtInv /\ [Next]_vars => AtInv'
<1>1. CASE Next
  BY <1>1, AtStep DEF Next
<1>2. ASSUME UNCHANGED vars, AtInv PROVE AtInv'
  BY <1>2 DEF vars, AtInv, AloneInv, AtOf, GroupAtHand
<1>. QED
  BY <1>1, <1>2

(* What a transaction leaves traces of ------------------------------------------ *)

(* A row that t wrote is in a group that t wrote or has at hand; so is the      *)
(* group where the committed row is, or t took the disclosure from it; and a    *)
(* row that t did not stamp stays in its group.                               *)
Touched(t) == tx[t].wroteGroup \cup GroupAtHand(t)

TraceOf(t) ==
  \A d \in tx[t].wrote :
    /\ tx[t].row[d].group \in Touched(t)
    /\ row[d].group \in Touched(t) \cup tx[t].left \cup {None}
    /\ d \notin tx[t].stamped => tx[t].row[d].group = row[d].group

TraceInv == \A t \in Txs : TraceOf(t)

LEMMA TraceStep ==
  ASSUME SafeInv, TraceInv, NEW t \in Txs, TxStep(t)
  PROVE  TraceInv'
<1>1. \A q \in Txs \ {t} : TraceOf(q)'
  <2>. SUFFICES ASSUME NEW q \in Txs \ {t} PROVE TraceOf(q)'
    OBVIOUS
  <2>1. TraceOf(q)
    BY DEF TraceInv
  <2>2. SameWork(tx'[q], tx[q]) /\ \A d \in tx[q].wrote : row'[d] = row[d]
    BY StepDoes, OthersRowsStay DEF OthersKeep
  <2>3. /\ tx'[q].left = tx[q].left /\ tx'[q].wrote = tx[q].wrote /\ tx'[q].row = tx[q].row
        /\ tx'[q].stamped = tx[q].stamped /\ Touched(q)' = Touched(q)
    BY <2>2 DEF SameWork, GroupAtHand, Touched
  <2>. QED
    BY <2>1, <2>2, <2>3 DEF TraceOf
<1>2. TraceOf(t)'
  <2>0. /\ TraceOf(t) /\ tx[t].row \in [Rcepts -> RowType] /\ tx[t].wrote \subseteq Rcepts
        /\ \A e \in Rcepts : RowOf(t, e) \in RowType
    BY ViewTypes, TxFields DEF SafeInv, TraceInv
  <2>1. ASSUME tx'[t].row = tx[t].row, tx'[t].wrote = tx[t].wrote, row' = row,
               tx'[t].stamped = tx[t].stamped, Touched(t) \subseteq Touched(t)',
               tx[t].left \subseteq tx'[t].left \cup Touched(t)'
        PROVE  TraceOf(t)'
    BY <2>0, <2>1 DEF TraceOf
  <2>2. ASSUME NEW d \in Rcepts, NEW g \in Groups, EnsureDisclosureGroup(t, d, g)
        PROVE  TraceOf(t)'
    <3>1. /\ tx[t].step = "open"
          /\ tx'[t].row = tx[t].row /\ tx'[t].wrote = tx[t].wrote /\ tx'[t].left = tx[t].left
          /\ tx'[t].stamped = tx[t].stamped /\ tx[t].wroteGroup \subseteq tx'[t].wroteGroup
          /\ row' = row
      BY <2>2, EnsureDoes
    <3>2. Touched(t) \subseteq Touched(t)'
      BY <3>1 DEF Touched, GroupAtHand
    <3>. QED
      BY <2>1, <3>1, <3>2
  <2>3. CASE UpsertDisclosure(t)
    <3>. DEFINE d == tx[t].d
                old == RowOf(t, d).group
    <3>1. /\ tx[t].step = "upsert" /\ d \in Rcepts /\ tx'[t].step = "select"
          /\ tx'[t].g = tx[t].g
          /\ tx'[t].wrote = tx[t].wrote \cup {d}
          /\ tx'[t].stamped = tx[t].stamped \cup {d}
          /\ tx'[t].row = [tx[t].row EXCEPT ![d] = Upserted(t)]
          /\ tx'[t].left = IF Moves(t) THEN tx[t].left \cup {old} ELSE tx[t].left
          /\ tx'[t].wroteGroup = tx[t].wroteGroup /\ row' = row
      BY <2>3, UpsertDoes
    <3>2. Touched(t)' = Touched(t) /\ tx[t].g \in Touched(t)
      BY <3>1 DEF Touched, GroupAtHand
    <3>3. tx[t].left \subseteq tx'[t].left
      BY <3>1
    <3>4. old \in Touched(t) \cup tx'[t].left \cup {None}
      BY <3>1, <3>2 DEF Moves
    <3>5. ASSUME NEW e \in tx'[t].wrote
          PROVE  /\ tx'[t].row[e].group \in Touched(t)
                 /\ row[e].group \in Touched(t) \cup tx'[t].left \cup {None}
                 /\ e \notin tx'[t].stamped => tx'[t].row[e].group = row[e].group
      <4>1. CASE e # d
        BY <2>0, <3>1, <3>3, <3>5, <4>1 DEF TraceOf
      <4>2. CASE e = d
        <5>1. tx'[t].row[d].group = tx[t].g
          BY <2>0, <3>1 DEF Upserted
        <5>2. row[d].group \in Touched(t) \cup tx'[t].left \cup {None}
          BY <2>0, <3>3, <3>4 DEF RowOf, TraceOf
        <5>. QED
          BY <3>1, <3>2, <4>2, <5>1, <5>2
      <4>. QED
        BY <4>1, <4>2
    <3>. HIDE DEF d, old
    <3>. QED
      BY <3>1, <3>2, <3>5 DEF TraceOf
  <2>4. CASE SelectLatest(t) \/ MarkStarts(t) \/ CountVersions(t)
    <3>1. LooksOnly(t) /\ tx[t].step # "open" /\ tx'[t].step # "open"
      BY <2>4, SelectDoes, StartDoes, CountDoes
    <3>2. Touched(t)' = Touched(t)
      BY <3>1 DEF GroupAtHand, LooksOnly, Touched
    <3>. QED
      BY <2>1, <3>1, <3>2 DEF LooksOnly
  <2>5. ASSUME NEW d \in Rcepts, MarkRow(t, d)
        PROVE  TraceOf(t)'
    <3>1. /\ tx[t].step = "mark" /\ tx'[t].step = "mark" /\ tx'[t].g = tx[t].g
          /\ tx'[t].left = tx[t].left /\ tx'[t].wroteGroup = tx[t].wroteGroup
          /\ tx'[t].stamped = tx[t].stamped
          /\ IF RowOf(t, d).group = tx[t].g
             THEN /\ tx'[t].wrote = tx[t].wrote \cup {d}
                  /\ tx'[t].row = [tx[t].row EXCEPT ![d] = Marked(RowOf(t, d), d, tx[t].latest)]
             ELSE tx'[t].wrote = tx[t].wrote /\ tx'[t].row = tx[t].row
          /\ row' = row
      BY <2>5, MarkDoes
    <3>2. Touched(t)' = Touched(t) /\ tx[t].g \in Touched(t)
      BY <3>1 DEF GroupAtHand, Touched
    <3>3. Marked(RowOf(t, d), d, tx[t].latest).group = RowOf(t, d).group
      BY <2>0 DEF Marked, RowType
    <3>4. CASE RowOf(t, d).group # tx[t].g
      BY <2>1, <3>1, <3>2, <3>4
    <3>5. CASE RowOf(t, d).group = tx[t].g
      <4>1. ASSUME NEW e \in tx'[t].wrote
            PROVE  /\ tx'[t].row[e].group \in Touched(t)
                   /\ row[e].group \in Touched(t) \cup tx[t].left \cup {None}
                   /\ e \notin tx[t].stamped => tx'[t].row[e].group = row[e].group
        <5>1. CASE e # d
          BY <2>0, <3>1, <3>5, <4>1, <5>1 DEF TraceOf
        <5>2. CASE e = d
          <6>1. tx'[t].row[d].group = tx[t].g
            BY <2>0, <3>1, <3>3, <3>5
          <6>2. CASE d \in tx[t].wrote
            <7>1. tx[t].row[d].group = tx[t].g
              BY <3>5, <6>2 DEF RowOf
            <7>. QED
              BY <2>0, <3>2, <5>2, <6>1, <6>2, <7>1 DEF TraceOf
          <6>3. CASE d \notin tx[t].wrote
            <7>1. row[d].group = tx[t].g
              BY <3>5, <6>3 DEF RowOf
            <7>. QED
              BY <3>2, <5>2, <6>1, <7>1
          <6>. QED
            BY <6>2, <6>3
        <5>. QED
          BY <5>1, <5>2
      <4>. QED
        BY <3>1, <3>2, <4>1 DEF TraceOf
    <3>. QED
      BY <3>4, <3>5
  <2>6. CASE UpdateGroup(t)
    <3>1. /\ tx[t].step = "group" /\ tx'[t].step = "open"
          /\ tx'[t].row = tx[t].row /\ tx'[t].wrote = tx[t].wrote
          /\ tx'[t].stamped = tx[t].stamped /\ tx'[t].left = tx[t].left \ {tx[t].g}
          /\ tx'[t].wroteGroup = tx[t].wroteGroup \cup {tx[t].g} /\ row' = row
      BY <2>6, UpdateDoes
    <3>2. Touched(t) \subseteq Touched(t)' /\ tx[t].g \in Touched(t)'
      BY <3>1 DEF GroupAtHand, Touched
    <3>. QED
      BY <2>1, <3>1, <3>2
  <2>7. CASE Commit(t) \/ RollBack(t)
    BY <2>7, EndDoes, EmptyIs DEF TraceOf
  <2>. QED
    BY <2>2, <2>3, <2>4, <2>5, <2>6, <2>7 DEF TxStep
<1>. QED
  BY <1>1, <1>2 DEF TraceInv

LEMMA TraceStart == Init => TraceInv
  BY EmptyIs DEF Init, TraceInv, TraceOf

LEMMA TraceNext == SafeInv /\ TraceInv /\ [Next]_vars => TraceInv'
<1>1. CASE Next
  BY <1>1, TraceStep DEF Next
<1>2. ASSUME UNCHANGED vars, TraceInv PROVE TraceInv'
  BY <1>2 DEF vars, TraceInv, TraceOf, Touched, GroupAtHand
<1>. QED
  BY <1>1, <1>2

(* A commit that touches no trace of a group leaves it as it was.              *)
LEMMA UntouchedGroup ==
  ASSUME SafeInv, TraceInv, NEW t \in Txs, Commit(t), NEW g \in Groups,
         g \notin tx[t].wroteGroup \cup tx[t].left
  PROVE  Members(g)' = Members(g) /\ group'[g] = group[g]
<1>1. /\ \A e \in Rcepts : row'[e] = RowOf(t, e)
      /\ \A h \in Groups : group'[h] = GroupOf(t, h)
      /\ tx[t].step = "open"
  BY CommitDoes
<1>2. Touched(t) = tx[t].wroteGroup /\ g # None
  BY <1>1, DisclosuresAssumption DEF Touched, GroupAtHand
<1>3. ASSUME NEW e \in Rcepts
      PROVE  row'[e].group = g <=> row[e].group = g
  <2>1. CASE e \notin tx[t].wrote
    BY <1>1, <2>1 DEF RowOf
  <2>2. CASE e \in tx[t].wrote
    <3>1. row'[e] = tx[t].row[e]
      BY <1>1, <2>2 DEF RowOf
    <3>2. /\ tx[t].row[e].group \in Touched(t)
          /\ row[e].group \in Touched(t) \cup tx[t].left \cup {None}
      BY <2>2 DEF TraceInv, TraceOf
    <3>. QED
      BY <1>2, <3>1, <3>2
  <2>. QED
    BY <2>1, <2>2
<1>4. group'[g] = group[g]
  BY <1>1 DEF GroupOf
<1>. QED
  BY <1>3, <1>4 DEF Members

LEMMA CommitSeen ==
  ASSUME SafeInv, TraceInv, NEW t \in Txs, Commit(t), NEW d \in Rcepts,
         row[d].group # None, Meta(d)' # Meta(d)
  PROVE  d \in tx[t].stamped \/ row'[d].group \in tx[t].wroteGroup \cup tx[t].left
<1>1. row'[d] = RowOf(t, d) /\ tx[t].step = "open"
  BY CommitDoes
<1>2. CASE d \in tx[t].wrote
  <2>1. row'[d] = tx[t].row[d] /\ Touched(t) = tx[t].wroteGroup
    BY <1>1, <1>2 DEF RowOf, Touched, GroupAtHand
  <2>. QED
    BY <1>2, <2>1 DEF TraceInv, TraceOf
<1>3. CASE d \notin tx[t].wrote
  <2>1. row'[d] = row[d] /\ row[d].group \in Groups
    BY <1>1, <1>3 DEF RowOf, SafeInv, TypeOK, RowType
  <2>. DEFINE g == row[d].group
  <2>2. ASSUME g \notin tx[t].wroteGroup \cup tx[t].left PROVE FALSE
    <3>1. Members(g)' = Members(g) /\ group'[g] = group[g]
      BY <2>1, <2>2, UntouchedGroup
    <3>2. Members(row[d].group)' = Members(g)
      BY <2>1, <3>1 DEF Members
    <3>. QED
      BY <2>1, <3>1, <3>2 DEF Meta
  <2>. QED
    BY <2>1, <2>2
<1>. QED
  BY <1>2, <1>3

(* The completion pass sees every change: a commit that changes what the        *)
(* complete marker of a disclosure copies stamps the disclosure or writes its   *)
(* group, unless it took a disclosure from that group.                         *)
THEOREM ChangesCorrect == Spec => ChangesAreSeen
<1>1. Init => SafeInv /\ TraceInv
  BY SafeStart, TraceStart
<1>2. SafeInv /\ TraceInv /\ [Next]_vars => (SafeInv /\ TraceInv)'
  BY SafeStep, TraceNext
<1>3. SafeInv /\ TraceInv /\ [Next]_vars =>
        [\A t \in Txs : Commit(t) =>
           \A d \in Rcepts :
             (row[d].group # None /\ Meta(d)' # Meta(d))
             => \/ d \in tx[t].stamped
                \/ row'[d].group \in tx[t].wroteGroup \cup tx[t].left]_vars
  BY CommitSeen
<1>. QED
  BY <1>1, <1>2, <1>3, PTL DEF Spec, ChangesAreSeen

(* What a transaction sees of the groups where it is alone --------------------- *)
ExactIn(t, g) ==
  Visible(t, g) # {} =>
    /\ \A d \in Visible(t, g) : RowOf(t, d).latest = (d = Newest(Visible(t, g)))
    /\ GroupOf(t, g).latest = Newest(Visible(t, g))
    /\ GroupOf(t, g).count = Cardinality(Visible(t, g))

(* The group is exact in the eyes of t, but for the one at hand, where the      *)
(* statements get there one by one, and those that a disclosure left.          *)
ViewOf(t, g) ==
  /\ g \notin tx[t].left /\ g # tx[t].g => ExactIn(t, g)
  /\ g = tx[t].g /\ tx[t].step \in {"targets", "mark", "group"} =>
        tx[t].latest = Newest(Visible(t, g))
  /\ g = tx[t].g /\ tx[t].step \in {"mark", "group"} =>
       \A d \in Visible(t, g) \ tx[t].targets : RowOf(t, d).latest = (d = tx[t].latest)
  /\ g = tx[t].g /\ tx[t].step = "group" =>
        tx[t].targets = {} /\ tx[t].count = Cardinality(Visible(t, g))

ViewInv == \A t \in Txs : \A g \in tx[t].alone : ViewOf(t, g)

(* A step that changes nothing of g in the eyes of t.                          *)
SameView(t, g) ==
  /\ \A d \in Rcepts : /\ RowOf(t, d)'.group = g <=> RowOf(t, d).group = g
                       /\ RowOf(t, d).group = g => RowOf(t, d)'.latest = RowOf(t, d).latest
  /\ GroupOf(t, g)' = GroupOf(t, g)

LEMMA SameExact ==
  ASSUME NEW t, NEW g, SameView(t, g)
  PROVE  /\ Visible(t, g)' = Visible(t, g)
         /\ \A d \in Visible(t, g) : RowOf(t, d)'.latest = RowOf(t, d).latest
         /\ ExactIn(t, g) => ExactIn(t, g)'
<1>1. Visible(t, g)' = Visible(t, g)
  BY DEF SameView, Visible
<1>2. \A d \in Visible(t, g) : RowOf(t, d)'.latest = RowOf(t, d).latest
  BY DEF SameView, Visible
<1>3. GroupOf(t, g)' = GroupOf(t, g)
  BY DEF SameView
<1>. QED
  BY <1>1, <1>2, <1>3 DEF ExactIn

(* Another transaction changes nothing of a group where this one is alone.     *)
LEMMA OthersView ==
  ASSUME SafeInv, AtInv, NEW t \in Txs, TxStep(t), NEW q \in Txs \ {t}, NEW g \in tx[q].alone
  PROVE  SameView(q, g)
<1>1. SameWork(tx'[q], tx[q])
  BY StepDoes DEF OthersKeep
<1>2. tx'[q].row = tx[q].row /\ tx'[q].wrote = tx[q].wrote
      /\ tx'[q].group = tx[q].group /\ tx'[q].wroteGroup = tx[q].wroteGroup
  BY <1>1 DEF SameWork
<1>3. g \in Groups /\ g # None /\ g \notin tx[t].at
  BY ViewTypes, TxFields, DisclosuresAssumption DEF SafeInv, AtInv, AloneInv
<1>4. CASE ~Commit(t)
  <2>1. row' = row /\ group' = group
    BY <1>4, OnlyCommitPublishes
  <2>. QED
    BY <1>2, <2>1 DEF SameView, RowOf, GroupOf
<1>5. CASE Commit(t)
  <2>1. /\ \A d \in Rcepts : row'[d] = RowOf(t, d)
        /\ group'[g] = GroupOf(t, g)
    BY <1>3, <1>5, CommitDoes
  <2>2. ASSUME NEW d \in Rcepts
        PROVE  /\ row'[d].group = g <=> row[d].group = g
               /\ row[d].group = g => row'[d] = row[d]
    <3>1. CASE d \notin tx[t].wrote
      BY <2>1, <3>1 DEF RowOf
    <3>2. CASE d \in tx[t].wrote
      <4>1. row'[d] = tx[t].row[d]
        BY <2>1, <3>2 DEF RowOf
      <4>2. tx[t].row[d].group \in tx[t].at /\ row[d].group \in tx[t].at \cup {None}
        BY <3>2 DEF AtInv, AtOf
      <4>. QED
        BY <1>3, <4>1, <4>2
    <3>. QED
      BY <3>1, <3>2
  <2>3. group'[g] = group[g]
    BY <1>3, <2>1 DEF AtInv, AtOf, GroupOf
  <2>4. GroupOf(q, g)' = GroupOf(q, g)
    BY <1>2, <2>3 DEF GroupOf
  <2>5. \A d \in Rcepts : /\ RowOf(q, d)'.group = g <=> RowOf(q, d).group = g
                          /\ RowOf(q, d).group = g => RowOf(q, d)' = RowOf(q, d)
    BY <1>2, <2>2 DEF RowOf
  <2>. QED
    BY <2>4, <2>5 DEF SameView
<1>. QED
  BY <1>4, <1>5

LEMMA ViewOthers ==
  ASSUME SafeInv, AtInv, ViewInv, NEW t \in Txs, TxStep(t), NEW q \in Txs \ {t},
         NEW g \in tx'[q].alone
  PROVE  ViewOf(q, g)'
<1>1. SameWork(tx'[q], tx[q]) /\ g \in tx[q].alone
  BY StepDoes DEF OthersKeep
<1>2. ViewOf(q, g) /\ SameView(q, g)
  BY <1>1, OthersView DEF ViewInv
<1>3. /\ Visible(q, g)' = Visible(q, g)
      /\ \A d \in Visible(q, g) : RowOf(q, d)'.latest = RowOf(q, d).latest
      /\ ExactIn(q, g) => ExactIn(q, g)'
  BY <1>2, SameExact
<1>4. /\ tx'[q].step = tx[q].step /\ tx'[q].g = tx[q].g /\ tx'[q].left = tx[q].left
      /\ tx'[q].latest = tx[q].latest /\ tx'[q].targets = tx[q].targets
      /\ tx'[q].count = tx[q].count
  BY <1>1 DEF SameWork
<1>. QED
  BY <1>2, <1>3, <1>4 DEF ViewOf

(* The statements of an item, in the eyes of the transaction itself.           *)
LEMMA ViewEnsure ==
  ASSUME SafeInv, AtInv, ViewInv, NEW t \in Txs, NEW d \in Rcepts, NEW g \in Groups,
         EnsureDisclosureGroup(t, d, g), NEW h \in tx'[t].alone, h \in Groups
  PROVE  ViewOf(t, h)'
<1>1. /\ AtGroup(t, g) /\ tx[t].g = None
      /\ tx'[t].step = "upsert" /\ tx'[t].g = g
      /\ tx'[t].row = tx[t].row /\ tx'[t].wrote = tx[t].wrote /\ tx'[t].left = tx[t].left
      /\ row' = row /\ group' = group
  BY EnsureDoes
<1>2. CASE h = g
  BY <1>1, <1>2 DEF ViewOf
<1>3. CASE h # g
  <2>1. h \in tx[t].alone /\ h # tx[t].g
    BY <1>1, <1>3, DisclosuresAssumption DEF AtGroup
  <2>2. /\ h \in tx'[t].wroteGroup <=> h \in tx[t].wroteGroup
        /\ tx'[t].group[h] = tx[t].group[h]
    <3>1. \/ tx'[t].wroteGroup = tx[t].wroteGroup /\ tx'[t].group = tx[t].group
          \/ /\ tx'[t].wroteGroup = tx[t].wroteGroup \cup {g}
             /\ \A k \in Groups \ {g} : tx'[t].group[k] = tx[t].group[k]
      BY EnsureDoes
    <3>. QED
      BY <1>3, <3>1
  <2>3. SameView(t, h)
    BY <1>1, <2>2 DEF SameView, RowOf, GroupOf
  <2>4. ViewOf(t, h) /\ (ExactIn(t, h) => ExactIn(t, h)')
    BY <2>1, <2>3, SameExact DEF ViewInv
  <2>. QED
    BY <1>1, <1>3, <2>1, <2>4 DEF ViewOf
<1>. QED
  BY <1>2, <1>3

LEMMA ViewUpsert ==
  ASSUME SafeInv, ViewInv, NEW t \in Txs, UpsertDisclosure(t),
         NEW h \in tx'[t].alone, h \in Groups
  PROVE  ViewOf(t, h)'
<1>0. PICK d \in Rcepts : d = tx[t].d
  BY UpsertDoes
<1>. DEFINE old == RowOf(t, d).group
<1>1. /\ tx'[t].step = "select" /\ tx'[t].g = tx[t].g
      /\ IF Moves(t) THEN AtGroup(t, old) ELSE StaysPut(t)
      /\ tx'[t].wrote = tx[t].wrote \cup {d}
      /\ tx'[t].row = [tx[t].row EXCEPT ![d] = Upserted(t)]
      /\ tx'[t].left = IF Moves(t) THEN tx[t].left \cup {old} ELSE tx[t].left
      /\ tx'[t].group = tx[t].group /\ tx'[t].wroteGroup = tx[t].wroteGroup
      /\ row' = row /\ group' = group
  BY <1>0, UpsertDoes
<1>2. CASE h = tx[t].g \/ h \in tx'[t].left
  BY <1>1, <1>2 DEF ViewOf
<1>3. CASE h # tx[t].g /\ h \notin tx'[t].left
  <2>1. h # old /\ h \notin tx[t].left
    BY <1>0, <1>1, <1>3, DisclosuresAssumption DEF Moves
  <2>2. h \in tx[t].alone
    BY <1>1, <2>1 DEF AtGroup, StaysPut
  <2>3. SameView(t, h)
    <3>1. tx[t].row \in [Rcepts -> RowType]
      BY ViewTypes, TxFields DEF SafeInv
    <3>2. RowOf(t, d)'.group # h /\ RowOf(t, d).group # h
      <4>1. RowOf(t, d)' = Upserted(t)
        BY <1>1, <3>1 DEF RowOf
      <4>. QED
        BY <1>3, <2>1, <4>1 DEF Upserted
    <3>3. \A e \in Rcepts \ {d} : RowOf(t, e)' = RowOf(t, e)
      BY <1>1, <3>1 DEF RowOf
    <3>4. GroupOf(t, h)' = GroupOf(t, h)
      BY <1>1 DEF GroupOf
    <3>. QED
      BY <3>2, <3>3, <3>4 DEF SameView
  <2>4. ViewOf(t, h) /\ (ExactIn(t, h) => ExactIn(t, h)')
    BY <2>2, <2>3, SameExact DEF ViewInv
  <2>. QED
    BY <1>1, <1>3, <2>1, <2>4 DEF ViewOf
<1>. QED
  BY <1>2, <1>3

LEMMA LooksSame ==
  ASSUME NEW t \in Txs, LooksOnly(t), NEW h
  PROVE  /\ \A d : RowOf(t, d)' = RowOf(t, d)
         /\ Visible(t, h)' = Visible(t, h) /\ (ExactIn(t, h) => ExactIn(t, h)')
<1>1. SameView(t, h) /\ \A d : RowOf(t, d)' = RowOf(t, d)
  BY DEF LooksOnly, SameView, RowOf, GroupOf
<1>. QED
  BY <1>1, SameExact

LEMMA ViewLooks ==
  ASSUME SafeInv, ViewInv, NEW t \in Txs,
         SelectLatest(t) \/ MarkStarts(t) \/ CountVersions(t),
         NEW h \in tx'[t].alone
  PROVE  ViewOf(t, h)'
<1>1. LooksOnly(t)
  BY SelectDoes, StartDoes, CountDoes
<1>2. /\ ViewOf(t, h)
      /\ tx'[t].g = tx[t].g /\ tx'[t].left = tx[t].left
      /\ \A d : RowOf(t, d)' = RowOf(t, d)
      /\ Visible(t, h)' = Visible(t, h) /\ (ExactIn(t, h) => ExactIn(t, h)')
  BY <1>1, LooksSame DEF LooksOnly, StaysPut, ViewInv
<1>3. CASE h # tx[t].g
  BY <1>2, <1>3 DEF ViewOf
<1>4. CASE h = tx[t].g
  <2>1. CASE SelectLatest(t)
    <3>1. tx'[t].step = "targets" /\ tx'[t].latest = Newest(Visible(t, h))
      BY <1>4, <2>1, SelectDoes
    <3>. QED
      BY <1>2, <1>4, <3>1 DEF ViewOf
  <2>2. CASE MarkStarts(t)
    <3>1. /\ tx[t].step = "targets" /\ tx'[t].step = "mark" /\ tx'[t].latest = tx[t].latest
          /\ tx'[t].targets = Visible(t, h)
      BY <1>4, <2>2, StartDoes
    <3>. QED
      BY <1>2, <1>4, <3>1 DEF ViewOf
  <2>3. CASE CountVersions(t)
    <3>1. /\ tx[t].step = "mark" /\ tx'[t].step = "group" /\ tx'[t].latest = tx[t].latest
          /\ tx[t].targets = {} /\ tx'[t].targets = {}
          /\ tx'[t].count = Cardinality(Visible(t, h))
      BY <1>4, <2>3, CountDoes
    <3>. QED
      BY <1>2, <1>4, <3>1 DEF ViewOf
  <2>. QED
    BY <2>1, <2>2, <2>3
<1>. QED
  BY <1>3, <1>4

LEMMA ViewMark ==
  ASSUME SafeInv, ViewInv, NEW t \in Txs, NEW d \in Rcepts, MarkRow(t, d),
         NEW h \in tx'[t].alone
  PROVE  ViewOf(t, h)'
<1>1. /\ StaysPut(t) /\ tx[t].step = "mark" /\ tx'[t].step = "mark" /\ tx'[t].g = tx[t].g
      /\ tx'[t].latest = tx[t].latest /\ tx'[t].targets = tx[t].targets \ {d}
      /\ tx'[t].left = tx[t].left
      /\ tx'[t].group = tx[t].group /\ tx'[t].wroteGroup = tx[t].wroteGroup
      /\ row' = row /\ group' = group
  BY MarkDoes
<1>2. /\ \A e \in Rcepts \ {d} : RowOf(t, e)' = RowOf(t, e)
      /\ IF RowOf(t, d).group = tx[t].g
         THEN RowOf(t, d)' = Marked(RowOf(t, d), d, tx[t].latest)
         ELSE RowOf(t, d)' = RowOf(t, d)
  <2>1. IF RowOf(t, d).group = tx[t].g
        THEN /\ tx'[t].wrote = tx[t].wrote \cup {d}
             /\ tx'[t].row = [tx[t].row EXCEPT ![d] = Marked(RowOf(t, d), d, tx[t].latest)]
        ELSE tx'[t].wrote = tx[t].wrote /\ tx'[t].row = tx[t].row
    BY MarkDoes
  <2>2. tx[t].row \in [Rcepts -> RowType]
    BY ViewTypes, TxFields DEF SafeInv
  <2>3. CASE RowOf(t, d).group # tx[t].g
    <3>1. \A e \in Rcepts : RowOf(t, e)' = RowOf(t, e)
      BY <1>1, <2>1, <2>3 DEF RowOf
    <3>. QED
      BY <2>3, <3>1
  <2>4. CASE RowOf(t, d).group = tx[t].g
    <3>. DEFINE m == Marked(RowOf(t, d), d, tx[t].latest)
    <3>1. tx'[t].wrote = tx[t].wrote \cup {d} /\ tx'[t].row = [tx[t].row EXCEPT ![d] = m]
      BY <2>1, <2>4
    <3>. HIDE DEF m
    <3>2. tx'[t].row[d] = m /\ \A e \in Rcepts \ {d} : tx'[t].row[e] = tx[t].row[e]
      BY <2>2, <3>1
    <3>3. \A e \in Rcepts \ {d} : RowOf(t, e)' = RowOf(t, e)
      BY <1>1, <3>1, <3>2 DEF RowOf
    <3>4. RowOf(t, d)' = m
      BY <3>1, <3>2 DEF RowOf
    <3>. QED
      BY <2>4, <3>3, <3>4 DEF m
  <2>. QED
    BY <2>3, <2>4
<1>3. /\ Marked(RowOf(t, d), d, tx[t].latest).group = RowOf(t, d).group
      /\ Marked(RowOf(t, d), d, tx[t].latest).latest = (d = tx[t].latest)
  BY ViewTypes DEF SafeInv, Marked, RowType
<1>4. \A e \in Rcepts : RowOf(t, e)'.group = RowOf(t, e).group
  BY <1>2, <1>3
<1>5. ViewOf(t, h)
  BY <1>1 DEF ViewInv, StaysPut
<1>6. CASE h # tx[t].g
  <2>1. \A e \in Rcepts : RowOf(t, e).group = h => RowOf(t, e)' = RowOf(t, e)
    BY <1>2, <1>6
  <2>2. SameView(t, h)
    BY <1>1, <1>4, <2>1 DEF SameView, GroupOf
  <2>. QED
    BY <1>1, <1>5, <1>6, <2>2, SameExact DEF ViewOf
<1>7. CASE h = tx[t].g
  <2>1. Visible(t, h)' = Visible(t, h)
    BY <1>4 DEF Visible
  <2>2. ASSUME NEW e \in Visible(t, h) \ tx'[t].targets
        PROVE  RowOf(t, e)'.latest = (e = tx[t].latest)
    <3>1. e \in Rcepts /\ RowOf(t, e).group = h
      BY DEF Visible
    <3>2. CASE e = d
      BY <1>2, <1>3, <1>7, <3>1, <3>2
    <3>3. CASE e # d
      <4>1. e \in Visible(t, h) \ tx[t].targets
        BY <1>1, <2>2, <3>3
      <4>2. RowOf(t, e).latest = (e = tx[t].latest)
        BY <1>1, <1>5, <1>7, <4>1 DEF ViewOf
      <4>. QED
        BY <1>2, <3>1, <3>3, <4>2
    <3>. QED
      BY <3>2, <3>3
  <2>. QED
    BY <1>1, <1>5, <1>7, <2>1, <2>2 DEF ViewOf
<1>. QED
  BY <1>6, <1>7

LEMMA ViewUpdate ==
  ASSUME SafeInv, ViewInv, NEW t \in Txs, UpdateGroup(t), NEW h \in tx'[t].alone, h \in Groups
  PROVE  ViewOf(t, h)'
<1>0. PICK g \in Groups : g = tx[t].g
  BY UpdateDoes
<1>00. PICK e : e = [exists |-> TRUE, latest |-> tx[t].latest, count |-> tx[t].count]
  OBVIOUS
<1>1. /\ StaysPut(t) /\ tx[t].step = "group" /\ tx'[t].step = "open"
      /\ tx'[t].g = None
      /\ tx'[t].row = tx[t].row /\ tx'[t].wrote = tx[t].wrote
      /\ tx'[t].left = tx[t].left \ {g}
      /\ tx'[t].wroteGroup = tx[t].wroteGroup \cup {g}
      /\ tx'[t].group = [tx[t].group EXCEPT ![g] = e]
      /\ row' = row /\ group' = group
  BY <1>0, <1>00, UpdateDoes
<1>2. /\ tx[t].group \in [Groups -> GroupType] /\ ViewOf(t, h)
  BY <1>1, ViewTypes, TxFields DEF SafeInv, ViewInv, StaysPut
<1>3. \A d : RowOf(t, d)' = RowOf(t, d)
  BY <1>1 DEF RowOf
<1>4. CASE h # g
  <2>1. GroupOf(t, h)' = GroupOf(t, h)
    BY <1>1, <1>2, <1>4 DEF GroupOf
  <2>2. SameView(t, h)
    BY <1>3, <2>1 DEF SameView
  <2>3. ExactIn(t, h) => ExactIn(t, h)'
    BY <2>2, SameExact
  <2>. QED
    BY <1>0, <1>1, <1>2, <1>4, <2>3 DEF ViewOf
<1>5. CASE h = g
  <2>1. Visible(t, g)' = Visible(t, g)
    BY <1>3 DEF Visible
  <2>2. GroupOf(t, g)'.latest = tx[t].latest /\ GroupOf(t, g)'.count = tx[t].count
    <3>1. GroupOf(t, g)' = e
      BY <1>1, <1>2 DEF GroupOf
    <3>. QED
      BY <1>00, <3>1
  <2>3. /\ tx[t].latest = Newest(Visible(t, g))
        /\ \A d \in Visible(t, g) : RowOf(t, d).latest = (d = tx[t].latest)
        /\ tx[t].count = Cardinality(Visible(t, g))
    BY <1>0, <1>1, <1>2, <1>5 DEF ViewOf
  <2>4. ExactIn(t, g)'
    BY <1>3, <2>1, <2>2, <2>3 DEF ExactIn
  <2>. QED
    BY <1>1, <1>5, <2>4 DEF ViewOf
<1>. QED
  BY <1>4, <1>5

LEMMA ViewStep ==
  ASSUME SafeInv, AtInv, ViewInv, NEW t \in Txs, TxStep(t)
  PROVE  ViewInv'
<1>1. \A q \in Txs \ {t} : \A g \in tx'[q].alone : ViewOf(q, g)'
  BY ViewOthers
<1>2. ASSUME NEW h \in tx'[t].alone
      PROVE  ViewOf(t, h)'
  <2>0. h \in Groups
    BY StepDoes, TxFields
  <2>1. ASSUME NEW d \in Rcepts, NEW g \in Groups, EnsureDisclosureGroup(t, d, g)
        PROVE  ViewOf(t, h)'
    BY <2>0, <2>1, ViewEnsure
  <2>2. CASE UpsertDisclosure(t)
    BY <2>0, <2>2, ViewUpsert
  <2>3. CASE SelectLatest(t) \/ MarkStarts(t) \/ CountVersions(t)
    BY <2>3, ViewLooks
  <2>4. ASSUME NEW d \in Rcepts, MarkRow(t, d)
        PROVE  ViewOf(t, h)'
    BY <2>4, ViewMark
  <2>5. CASE UpdateGroup(t)
    BY <2>0, <2>5, ViewUpdate
  <2>6. CASE Commit(t) \/ RollBack(t)
    BY <2>6, EndDoes, EmptyIs
  <2>. QED
    BY <2>1, <2>2, <2>3, <2>4, <2>5, <2>6 DEF TxStep
<1>. QED
  BY <1>1, <1>2 DEF ViewInv

(* What a commit publishes ------------------------------------------------------- *)

(* A commit makes the view of the transaction the committed one.               *)
LEMMA ExactStep ==
  ASSUME SafeInv, AtInv, ViewInv, ExactUnlessTangled, NEW t \in Txs, Commit(t)
  PROVE  ExactUnlessTangled'
<1>1. /\ tx[t].g = None
      /\ \A d \in Rcepts : row'[d] = RowOf(t, d)
      /\ \A g \in Groups : group'[g] = GroupOf(t, g)
      /\ tangled' = (tangled \ tx[t].alone) \cup (tx[t].at \ tx[t].alone) \cup tx[t].left
  BY CommitDoes
<1>2. AtOf(t)
  BY DEF AtInv
<1>3. ASSUME NEW g \in Groups, g \notin tangled'
      PROVE  Exact(g)'
  <2>0. g # None
    BY DisclosuresAssumption
  <2>1. CASE g \in tx[t].alone
    <3>1. ExactIn(t, g)
      BY <1>1, <1>3, <2>0, <2>1 DEF ViewInv, ViewOf
    <3>2. Members(g)' = Visible(t, g)
      BY <1>1 DEF Members, Visible
    <3>3. Members(g)' \subseteq Rcepts
      BY <3>2 DEF Visible
    <3>. QED
      BY <1>1, <3>1, <3>2, <3>3 DEF Exact, ExactIn
  <2>2. CASE g \notin tx[t].alone
    <3>1. g \notin tangled /\ g \notin tx[t].at
      BY <1>1, <1>3, <2>2
    <3>2. Exact(g)
      BY <3>1 DEF ExactUnlessTangled
    <3>3. group'[g] = group[g]
      BY <1>1, <1>2, <3>1 DEF AtOf, GroupOf
    <3>4. ASSUME NEW d \in Rcepts
          PROVE  /\ row'[d].group = g <=> row[d].group = g
                 /\ row[d].group = g => row'[d] = row[d]
      <4>1. CASE d \notin tx[t].wrote
        BY <1>1, <4>1 DEF RowOf
      <4>2. CASE d \in tx[t].wrote
        <5>1. row'[d] = tx[t].row[d]
          BY <1>1, <4>2 DEF RowOf
        <5>2. tx[t].row[d].group \in tx[t].at /\ row[d].group \in tx[t].at \cup {None}
          BY <1>2, <4>2 DEF AtOf
        <5>. QED
          BY <2>0, <3>1, <5>1, <5>2
      <4>. QED
        BY <4>1, <4>2
    <3>5. Members(g)' = Members(g)
      BY <3>4 DEF Members
    <3>6. \A d \in Members(g) : row'[d] = row[d]
      BY <3>4 DEF Members
    <3>. QED
      BY <3>2, <3>3, <3>5, <3>6 DEF Exact
  <2>. QED
    BY <2>1, <2>2
<1>. QED
  BY <1>3 DEF ExactUnlessTangled

ViewsInv == SafeInv /\ AtInv /\ ViewInv /\ ExactUnlessTangled

LEMMA ViewsStart == Init => ViewsInv
<1>. SUFFICES ASSUME Init PROVE ViewsInv
  OBVIOUS
<1>1. SafeInv /\ AtInv
  BY SafeStart, AtStart
<1>2. ViewInv
  BY EmptyIs DEF Init, ViewInv
<1>3. \A g \in Groups : Members(g) = {}
  BY DisclosuresAssumption DEF Init, Members, NoRow
<1>. QED
  BY <1>1, <1>2, <1>3 DEF ViewsInv, ExactUnlessTangled, Exact

LEMMA ViewsNext == ViewsInv /\ [Next]_vars => ViewsInv'
<1>. SUFFICES ASSUME ViewsInv, [Next]_vars PROVE ViewsInv'
  OBVIOUS
<1>1. SafeInv' /\ AtInv'
  BY SafeStep, AtNext DEF ViewsInv
<1>2. ASSUME NEW t \in Txs, TxStep(t)
      PROVE  ViewInv' /\ ExactUnlessTangled'
  <2>1. ViewInv'
    BY <1>2, ViewStep DEF ViewsInv
  <2>2. CASE Commit(t)
    BY <2>1, <2>2, ExactStep DEF ViewsInv
  <2>3. CASE ~Commit(t)
    <3>1. row' = row /\ group' = group /\ tangled' = tangled
      BY <1>2, <2>3, OnlyCommitPublishes DEF ViewsInv
    <3>. QED
      BY <2>1, <3>1 DEF ViewsInv, ExactUnlessTangled, Exact, Members
  <2>. QED
    BY <2>2, <2>3
<1>3. CASE UNCHANGED vars
  <2>1. row' = row /\ group' = group /\ tx' = tx /\ tangled' = tangled
    BY <1>3 DEF vars
  <2>2. \A t, d : RowOf(t, d)' = RowOf(t, d)
    BY <2>1 DEF RowOf
  <2>3. \A t, g : GroupOf(t, g)' = GroupOf(t, g)
    BY <2>1 DEF GroupOf
  <2>4. \A t, g : Visible(t, g)' = Visible(t, g)
    BY <2>2 DEF Visible
  <2>5. \A t, g : ViewOf(t, g)' = ViewOf(t, g)
    BY <2>1, <2>2, <2>3, <2>4 DEF ViewOf, ExactIn
  <2>6. ViewInv'
    BY <2>1, <2>5 DEF ViewInv, ViewsInv
  <2>7. ExactUnlessTangled'
    BY <2>1 DEF ViewsInv, ExactUnlessTangled, Exact, Members
  <2>. QED
    BY <1>1, <2>6, <2>7 DEF ViewsInv
<1>. QED
  BY <1>1, <1>2, <1>3 DEF Next, ViewsInv

(* is_latest, latest_rcept_no and version_count are right in every group that   *)
(* no two transactions wrote at the same time and that no disclosure left.     *)
THEOREM GroupsCorrect == Spec => []ExactUnlessTangled
<1>1. Init => ViewsInv
  BY ViewsStart
<1>2. ViewsInv /\ [Next]_vars => ViewsInv'
  BY ViewsNext
<1>3. ViewsInv => ExactUnlessTangled
  BY DEF ViewsInv
<1>. QED
  BY <1>1, <1>2, <1>3, PTL DEF Spec
=============================================================================
