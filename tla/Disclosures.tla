----------------------------- MODULE Disclosures -----------------------------
(***************************************************************************)
(* Disclosures and their groups of versions, as discovery transactions       *)
(* upsert them: repositories/disclosures.py, statement by statement under     *)
(* READ COMMITTED.  Each statement sees what is committed when it starts and  *)
(* what its own transaction wrote; a row that another transaction wrote can   *)
(* be written only when that one is over.                                    *)
(***************************************************************************)
EXTENDS FiniteSets, Naturals

CONSTANTS
  Rcepts,     (* receipt numbers; a greater one is a later disclosure          *)
  Groups,     (* groups: company, normalised name and report type             *)
  Txs,        (* the transactions that may be open at the same time            *)
  MaxItems    (* bound: disclosures of one transaction (a page of the list)    *)

NoRcept == 0
None == "none"

ASSUME DisclosuresAssumption ==
  /\ Rcepts \subseteq Nat \ {NoRcept} /\ IsFiniteSet(Rcepts)
  /\ None \notin Groups
  /\ MaxItems \in Nat

VARIABLES
  row,        (* the committed disclosure rows: group_id and is_latest         *)
  group,      (* the committed disclosure_group rows                          *)
  tx,         (* the transactions, see NoTx                                    *)
  tangled     (* history: groups that transactions wrote at the same time, or   *)
              (* that a disclosure left, since a transaction of their own       *)

vars == <<row, group, tx, tangled>>

-----------------------------------------------------------------------------
NoRow == [group |-> None, latest |-> FALSE]
NoGroup == [exists |-> FALSE, latest |-> NoRcept, count |-> 0]

(* A transaction: its next statement, the item (d, g) at hand, what its        *)
(* statements read, the rows it wrote (and holds the locks of) and, for the    *)
(* history, the groups it is at, alone so far, and those that it took a        *)
(* disclosure from.                                                          *)
NoTx == [step |-> "open", d |-> NoRcept, g |-> None, items |-> 0,
         latest |-> NoRcept, targets |-> {}, count |-> 0,
         row |-> [d \in Rcepts |-> NoRow], wrote |-> {}, stamped |-> {},
         group |-> [g \in Groups |-> NoGroup], wroteGroup |-> {},
         at |-> {}, alone |-> {}, left |-> {}]

RowOf(t, d) == IF d \in tx[t].wrote THEN tx[t].row[d] ELSE row[d]
GroupOf(t, g) == IF g \in tx[t].wroteGroup THEN tx[t].group[g] ELSE group[g]
Visible(t, g) == {d \in Rcepts : RowOf(t, d).group = g}

(* Mutant of RowLocked: nobody waits.                                        *)
RowLocked_Never(t, d) == FALSE

RowLocked(t, d) == \E q \in Txs \ {t} : d \in tx[q].wrote
GroupLocked(t, g) == \E q \in Txs \ {t} : g \in tx[q].wroteGroup

Newest(S) == CHOOSE d \in S : \A e \in S : e <= d
Oldest(S) == CHOOSE d \in S : \A e \in S : d <= e

(* t comes to a group: it is alone there unless another transaction is.       *)
Comes(f, t, g) ==
  IF g \in f[t].at THEN f
  ELSE [q \in Txs |->
          IF q = t THEN [f[t] EXCEPT !.at = @ \cup {g},
                           !.alone = IF \E p \in Txs \ {t} : g \in f[p].at THEN @ ELSE @ \cup {g}]
          ELSE [f[q] EXCEPT !.alone = @ \ {g}]]

-----------------------------------------------------------------------------
(* _ensure_disclosure_group: INSERT ... DO NOTHING, which waits for another    *)
(* transaction that is inserting the same group, and SELECT.                  *)
EnsureDisclosureGroup(t, d, g) ==
  /\ tx[t].step = "open"
  /\ tx[t].items < MaxItems
  /\ ~GroupOf(t, g).exists => ~GroupLocked(t, g)
  /\ LET new == ~GroupOf(t, g).exists
         mine == [tx[t] EXCEPT
           !.step = "upsert", !.d = d, !.g = g,
           !.group[g] = IF new THEN [NoGroup EXCEPT !.exists = TRUE] ELSE @,
           !.wroteGroup = IF new THEN @ \cup {g} ELSE @]
     IN tx' = Comes([tx EXCEPT ![t] = mine], t, g)
  /\ UNCHANGED <<row, group, tangled>>

(* INSERT ... ON CONFLICT (rcept_no) DO UPDATE: the group may change, and the  *)
(* old one is left as it is.                                                 *)
UpsertDisclosure(t) ==
  LET d == tx[t].d
      g == tx[t].g
      old == RowOf(t, d).group
      moved == old \notin {None, g}
      mine == [tx[t] EXCEPT
        !.step = "select", !.d = NoRcept, !.wrote = @ \cup {d}, !.stamped = @ \cup {d},
        !.row[d] = [group |-> g, latest |-> IF old = None THEN TRUE ELSE RowOf(t, d).latest],
        !.left = IF moved THEN @ \cup {old} ELSE @]
  IN
  /\ tx[t].step = "upsert"
  /\ ~RowLocked(t, d)
  /\ tx' = IF moved THEN Comes([tx EXCEPT ![t] = mine], t, old) ELSE [tx EXCEPT ![t] = mine]
  /\ UNCHANGED <<row, group, tangled>>

(* _refresh_group_latest.  The latest disclosure of the group, ...            *)
SelectLatest(t) ==
  /\ tx[t].step = "select"
  /\ tx' = [tx EXCEPT ![t].step = "targets", ![t].latest = Newest(Visible(t, tx[t].g))]
  /\ UNCHANGED <<row, group, tangled>>

(* ... the UPDATE of is_latest, which finds its rows when it starts ...         *)
MarkStarts(t) ==
  /\ tx[t].step = "targets"
  /\ tx' = [tx EXCEPT ![t].step = "mark", ![t].targets = Visible(t, tx[t].g)]
  /\ UNCHANGED <<row, group, tangled>>

(* Mutant of Marked: the flag is set and never taken away.                    *)
Marked_SetOnly(r, d, latest) == IF d = latest THEN [r EXCEPT !.latest = TRUE] ELSE r

Marked(r, d, latest) == [r EXCEPT !.latest = (d = latest)]

(* ... and writes them one by one, waiting for those that others wrote and      *)
(* leaving out one that they moved to another group, ...                      *)
MarkRow(t, d) ==
  /\ tx[t].step = "mark"
  /\ d \in tx[t].targets
  /\ ~RowLocked(t, d)
  /\ LET rest == [tx[t] EXCEPT !.targets = @ \ {d}]
         mine == [rest EXCEPT !.wrote = @ \cup {d},
                              !.row[d] = Marked(RowOf(t, d), d, tx[t].latest)]
     IN tx' = [tx EXCEPT ![t] = IF RowOf(t, d).group = tx[t].g THEN mine ELSE rest]
  /\ UNCHANGED <<row, group, tangled>>

(* ... the count of the last statement, which sees what is committed when    *)
(* the statement starts, ...                                                 *)
CountVersions(t) ==
  /\ tx[t].step = "mark"
  /\ tx[t].targets = {}
  /\ tx' = [tx EXCEPT ![t].step = "group", ![t].count = Cardinality(Visible(t, tx[t].g))]
  /\ UNCHANGED <<row, group, tangled>>

(* Mutant of UpdateGroup: the group is written only when its latest changes.   *)
UpdateGroup_IfChanged(t) ==
  LET g == tx[t].g
      mine == [tx[t] EXCEPT
        !.step = "open", !.g = None, !.latest = NoRcept, !.count = 0, !.items = @ + 1,
        !.wroteGroup = IF GroupOf(t, g).latest = tx[t].latest THEN @ ELSE @ \cup {g},
        !.group[g] = [exists |-> TRUE, latest |-> tx[t].latest, count |-> tx[t].count],
        !.left = @ \ {g}]
  IN
  /\ tx[t].step = "group"
  /\ ~GroupLocked(t, g)
  /\ tx' = [tx EXCEPT ![t] = mine]
  /\ UNCHANGED <<row, group, tangled>>

(* ... and the UPDATE of the group, which waits for another transaction's.     *)
UpdateGroup(t) ==
  LET g == tx[t].g
      mine == [tx[t] EXCEPT
        !.step = "open", !.g = None, !.latest = NoRcept, !.count = 0, !.items = @ + 1,
        !.wroteGroup = @ \cup {g},
        !.group[g] = [exists |-> TRUE, latest |-> tx[t].latest, count |-> tx[t].count],
        !.left = @ \ {g}]
  IN
  /\ tx[t].step = "group"
  /\ ~GroupLocked(t, g)
  /\ tx' = [tx EXCEPT ![t] = mine]
  /\ UNCHANGED <<row, group, tangled>>

Commit(t) ==
  /\ tx[t].step = "open"
  /\ tx[t].items > 0
  /\ row' = [d \in Rcepts |-> RowOf(t, d)]
  /\ group' = [g \in Groups |-> GroupOf(t, g)]
  /\ tangled' = (tangled \ tx[t].alone) \cup (tx[t].at \ tx[t].alone) \cup tx[t].left
  /\ tx' = [tx EXCEPT ![t] = NoTx]

(* An error, a deadlock that the database breaks, or the end of the process.   *)
RollBack(t) ==
  /\ tx[t].at # {}
  /\ tx' = [tx EXCEPT ![t] = NoTx]
  /\ UNCHANGED <<row, group, tangled>>

-----------------------------------------------------------------------------
Init ==
  /\ row = [d \in Rcepts |-> NoRow]
  /\ group = [g \in Groups |-> NoGroup]
  /\ tx = [t \in Txs |-> NoTx]
  /\ tangled = {}

TxStep(t) ==
  \/ \E d \in Rcepts, g \in Groups : EnsureDisclosureGroup(t, d, g)
  \/ UpsertDisclosure(t) \/ SelectLatest(t) \/ MarkStarts(t)
  \/ \E d \in Rcepts : MarkRow(t, d)
  \/ CountVersions(t) \/ UpdateGroup(t) \/ Commit(t) \/ RollBack(t)

Next == \E t \in Txs : TxStep(t)

Spec == Init /\ [][Next]_vars

-----------------------------------------------------------------------------
RowType == [group : Groups \cup {None}, latest : BOOLEAN]
GroupType == [exists : BOOLEAN, latest : Rcepts \cup {NoRcept}, count : Nat]
TxType ==
  [step : {"open", "upsert", "select", "targets", "mark", "group"},
   d : Rcepts \cup {NoRcept}, g : Groups \cup {None}, items : 0 .. MaxItems,
   latest : Rcepts \cup {NoRcept}, targets : SUBSET Rcepts, count : Nat,
   row : [Rcepts -> RowType], wrote : SUBSET Rcepts, stamped : SUBSET Rcepts,
   group : [Groups -> GroupType], wroteGroup : SUBSET Groups,
   at : SUBSET Groups, alone : SUBSET Groups, left : SUBSET Groups]

(* Types, and no row is written by two open transactions.                     *)
TypeOK ==
  /\ row \in [Rcepts -> RowType]
  /\ group \in [Groups -> GroupType]
  /\ tx \in [Txs -> TxType]
  /\ tangled \subseteq Groups
  /\ \A t, q \in Txs : t # q => tx[t].wrote \cap tx[q].wrote = {}
                                /\ tx[t].wroteGroup \cap tx[q].wroteGroup = {}

Members(g) == {d \in Rcepts : row[d].group = g}

(* What _refresh_group_latest is there for.                                  *)
Exact(g) ==
  Members(g) # {} =>
    /\ \A d \in Members(g) : row[d].latest = (d = Newest(Members(g)))
    /\ group[g].latest = Newest(Members(g))
    /\ group[g].count = Cardinality(Members(g))

(* is_latest, latest_rcept_no and version_count are right in every group that  *)
(* no two transactions wrote at the same time and that no disclosure left; and *)
(* one upsert that is alone at the group repairs whatever they did to it.      *)
ExactUnlessTangled == \A g \in Groups \ tangled : Exact(g)

(* What the complete marker of a disclosure copies from the rows of its group. *)
Meta(d) ==
  LET g == row[d].group
  IN [group |-> g, latest |-> row[d].latest, latestRcept |-> group[g].latest,
      original |-> Oldest(Members(g)),
      seq |-> Cardinality({e \in Members(g) : e < d})]

(* The completion pass looks again at a disclosure when last_seen_at or the     *)
(* updated_at of its group has moved: a transaction that changes what the      *)
(* marker copies moves one of them, unless it takes a disclosure from a group.  *)
ChangesAreSeen ==
  [][\A t \in Txs : Commit(t) =>
       \A d \in Rcepts :
         (row[d].group # None /\ Meta(d)' # Meta(d))
         => \/ d \in tx[t].stamped
            \/ row'[d].group \in tx[t].wroteGroup \cup tx[t].left]_vars
=============================================================================
